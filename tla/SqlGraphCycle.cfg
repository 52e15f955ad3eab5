\* A query whose joins close a cycle, without a plan.
CONSTANTS
  orders = orders
  customers = customers
  value1 = value1
  value2 = value2
  Null = Null
  Entities = {orders, customers}
  Catalog <- Shop
  Columns <- ShopColumns
  Keyed = {orders, customers}
  Values = {value1, value2}
  MaxRows = 2
  Requests <- PlanRequests
  TreeLimit = 4
  Queries <- CyclicQueries
  None = None
  Grains = {orders, customers, None}
SPECIFICATION SqlSpec
CHECK_DEADLOCK FALSE
PROPERTY
  ValidationsEnd
