SPECIFICATION Spec
CONSTANTS
  a = a
  b = b
  None = None
  Names = {a, b}
  Projects <- TwoProjects
  Limit = 3
  MaxEntities = 4
  MaxEdits = 4
  Careless = {}
INVARIANTS
  TypeOK
  UndoReturns
CHECK_DEADLOCK FALSE
