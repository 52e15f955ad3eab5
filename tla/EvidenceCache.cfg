\* Two servers, one relationship on two contents of its source.
CONSTANTS
  s1 = s1
  s2 = s2
  s3 = s3
  rel = rel
  day1 = day1
  day2 = day2
  Null = Null
  Servers = {s1, s2}
  Relationships = {rel}
  Snapshots = {day1, day2}
  Declarations <- OneDeclaration
  Measured <- Drifting
  NoServer = NoServer
  NoRecord = NoRecord
  NoRequest = NoRequest
  BadPointer = BadPointer
  MaxDamage = 2
  MaxCrashes = 1
SPECIFICATION Spec
SYMMETRY ServerSymmetry
INVARIANTS
  TypeOK
  AnswersAreVerified
  VerifiesOnlyUnpublished
  NoDanglingPointer
  LocksMatchWork
PROPERTY
  CacheIsTransparent
