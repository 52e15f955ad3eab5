SPECIFICATION SourcesSpec
CONSTANTS
  Names <- FiveNames
  Touched <- TwoTouched
  Inodes <- ThreeInodes
  Layouts <- SomeLayouts
  Under <- SomeUnder
  Jobs <- SomeJobs
  MaxBlocks = 2
  MaxWrites = 2
  MaxTicks = 1
  Path <- SomePaths
  Databases = {1, 2, 3}
  Ignored = {".old", "vendor"}
  Schema <- SomeSchemas
  Calls <- SomeCalls
  Absent = Absent
  Link = Link
  Unsupported = Unsupported
  Directory = Directory
  NoFile = NoFile
  NoCopy = NoCopy
  NoCall = NoCall
INVARIANTS
  SnapshotTypeOK
  CopyIsOfOneMoment
  CopyIsChecked
  OutcomeIsJustified
  NothingLeftBehind
PROPERTY NothingReadLate
CHECK_DEADLOCK FALSE
