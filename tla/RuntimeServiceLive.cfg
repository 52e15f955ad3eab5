\* Termination of the calls of two servers, and the plans they issued.
CONSTANTS
  s1 = s1
  s2 = s2
  orders = orders
  invoices = invoices
  day1 = day1
  day2 = day2
  Null = Null
  Servers = {s1, s2}
  Relationships = {invoices}
  Snapshots = {day1}
  Declarations <- OneReviewed
  Catalog <- NoForeignKey
  Models <- OneModel
  Search <- OneInvoices
  Measured <- OneDay
  NoServer = NoServer
  NoRecord = NoRecord
  NoRequest = NoRequest
  NoCall = NoCall
  NoPlan = NoPlan
  BadPointer = BadPointer
  MaxDamage = 1
  MaxCrashes = 1
  MaxCalls = 2
  MaxChanges = 0
SPECIFICATION FairServiceSpec
INVARIANT
  IssuedPlansAreKept
PROPERTY
  CallsEnd
CHECK_DEADLOCK FALSE
