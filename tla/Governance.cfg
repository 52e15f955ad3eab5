\* Two users run commands at once on two sources; a process may die.
CONSTANTS
  ann = ann
  bob = bob
  shop = shop
  crm = crm
  east = east
  west = west
  orders = orders
  invoices = invoices
  None = None
  Users = {ann, bob}
  Verbs <- AnyVerb
  Order <- TwoSources
  Places = {east, west}
  Kind <- SameKind
  Contents = {1, 2}
  Candidates = {orders, invoices}
  Home <- InShop
  Discovered <- ByDay
  Sound <- ByDay
  Writes <- Onwards
  FirstConfig <- ShopInEast
  FirstData <- AllDayOne
  FirstModel <- ShopModel
  MaxCommands = 4
  MaxCrashes = 1
SPECIFICATION Spec
SYMMETRY UserSymmetry
CHECK_DEADLOCK FALSE
INVARIANTS
  GovernanceTypeOK
  BaselineFollowsSources
PROPERTIES
  NoSourceChangeLost
  ConfirmedAsScanned
