SPECIFICATION FairSpec
CONSTANTS
  f1 = f1
  f2 = f2
  f3 = f3
  class = class
  type = type
  Fns = {f1, f2, f3}
  Types = {class, type}
  Classes = {class}
  MayRehash = TRUE
INVARIANTS
  TypeOK
  NothingInvented
  NoFunctionInsideItself
  AcyclicIsComplete
PROPERTIES
  FlatteningEnds
CHECK_DEADLOCK FALSE
