\* Two servers, two parallel relationships, a source that changes.
CONSTANTS
  s1 = s1
  s2 = s2
  orders = orders
  invoices = invoices
  day1 = day1
  day2 = day2
  Null = Null
  Servers = {s1, s2}
  Relationships = {orders, invoices}
  Snapshots = {day1, day2}
  Declarations <- AllDeclarations
  Catalog <- OneForeignKey
  Models <- TwoModels
  Search <- EitherTree
  Measured <- TwoDays
  NoServer = NoServer
  NoRecord = NoRecord
  NoRequest = NoRequest
  NoCall = NoCall
  NoPlan = NoPlan
  BadPointer = BadPointer
  MaxDamage = 0
  MaxCrashes = 0
  MaxCalls = 2
  MaxChanges = 2
SPECIFICATION ServiceSpec
SYMMETRY ServerSymmetry
INVARIANTS
  ServiceTypeOK
  PassIsSafe
  PlanIsSafe
  StaleNeverPasses
CHECK_DEADLOCK FALSE
