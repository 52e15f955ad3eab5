\* Queries that join three instances as trees; orders have a stable key, and so do customers.
CONSTANTS
  orders = orders
  customers = customers
  value1 = value1
  value2 = value2
  Null = Null
  Entities = {orders, customers}
  Catalog <- Shop
  Columns <- ShopColumns
  Keyed = {orders, customers}
  Values = {value1, value2}
  MaxRows = 2
  Requests <- PlanRequests
  TreeLimit = 4
  Queries <- ShopQueries
  None = None
  Grains = {orders, customers, None}
SPECIFICATION SqlSpec
CHECK_DEADLOCK FALSE
INVARIANTS
  PlansKeepGrain
  PlansAreTrees
  SafePlansAreFound
  PassesKeepGrain
  BoundSqlJoinsAsPlanned
  PlannedSqlPasses
PROPERTY
  ValidationsEnd
