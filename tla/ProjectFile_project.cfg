SPECIFICATION FairSpec
CONSTANTS
  home = home
  docs = docs
  backup = backup
  UserPaths = {home, docs}
  BackupPaths = {backup}
  DotLks = DotLks
  NoPath = NoPath
  NoFile = NoFile
  Torn = Torn
  Faults <- AllFaults
  MaxVersion = 2
  MaxProjects = 2
  MaxCrashes = 1
INVARIANTS
  TypeOK
  LastSaveSurvives
PROPERTIES
  EditIsBackedUp
CHECK_DEADLOCK FALSE
