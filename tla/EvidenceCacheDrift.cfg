\* The declared cardinality of a curated relationship is edited between lookups.
CONSTANTS
  s1 = s1
  s2 = s2
  s3 = s3
  rel = rel
  day1 = day1
  day2 = day2
  Null = Null
  Servers = {s1, s2}
  Relationships = {rel}
  Snapshots = {day1, day2}
  Declarations <- EditedDeclaration
  Measured <- Drifting
  NoServer = NoServer
  NoRecord = NoRecord
  NoRequest = NoRequest
  BadPointer = BadPointer
  MaxDamage = 0
  MaxCrashes = 0
SPECIFICATION Spec
SYMMETRY ServerSymmetry
INVARIANT
  AnswersAreVerified
