SPECIFICATION FairSpec
CONSTANTS
  mine = mine
  other = other
  Projects = {mine, other}
  NoProject = NoProject
  NoTool = NoTool
  NoDb = NoDb
  MaxThreads = 2
  MayStray = FALSE
  JsonVanishes = TRUE
INVARIANTS
  TypeOK
  SurvivesParse
  OwnDatabase
PROPERTIES
  ReplacedWhenIdle
  ParseEnds
  LogicalAfterPhysical
CHECK_DEADLOCK FALSE
