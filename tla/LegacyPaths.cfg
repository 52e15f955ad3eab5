SPECIFICATION PathSpec
CONSTANTS
  orders = orders
  customers = customers
  regions = regions
  key = key
  ref = ref
  one = one
  oneAsNumber = oneAsNumber
  two = two
  word = word
  Null = Null
  None = None
  Writings <- TheWritings
  Columns <- TheColumns
  Projects <- AllProjects
  Changes <- SomeChanges
  IdOf <- SomeIds
  PathDepths = {1, 2}
  PathLimit = 2
  ModelLimit = 2
  EdgeLimit = 2
  OldEdges <- SomeOldEdges
INVARIANTS
  TablesOK
  AcceptedHolds
  PassingMeansHolding
  PassingPathsKeepAGrain
  PathsAreThoseValidated
  RuntimeAgrees
CHECK_DEADLOCK FALSE
