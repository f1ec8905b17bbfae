SPECIFICATION Spec
CONSTANTS
  aCpp = aCpp
  bCpp = bCpp
  cCpp = cCpp
  aH = aH
  bH = bH
  Sources = {bCpp}
  Headers = {aH, bH}
  ComponentHeaders = {aH, bH}
  Includes <- HeaderChain
  NumThreads = 1
  MaxClock = 3
INVARIANTS
  TypeOK
  PhysicalUpToDate
  LogicalUpToDate
CHECK_DEADLOCK FALSE
