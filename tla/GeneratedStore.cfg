\* One scanner that fails beside a reader; every kind of command; two scanners.
CONSTANTS
  scan1 = scan1
  scan2 = scan2
  reader = reader
  reporter = reporter
  setter = setter
  s1 = s1
  s2 = s2
  Sources = {s1, s2}
  Scanners = {scan1, scan2}
  Validators = {reader}
  Reporters = {reporter}
  Setters = {setter}
  Models <- ThreeModels
  Contents = {0, 1, 2}
  Writes <- Onwards
  Edits <- OneEdit
  FirstModel <- First
  FirstContent = 0
  MaxScans = 2
  Casts <- FiveCasts
SPECIFICATION Spec
CHECK_DEADLOCK FALSE
INVARIANTS
  StoreTypeOK
  AnswersAreFresh
  FailedScanKeepsEvidence
  PublishedIsWhole
  EvidenceSurvives
