SPECIFICATION FairSpec
CONSTANTS
  aCpp = aCpp
  bCpp = bCpp
  cCpp = cCpp
  aH = aH
  bH = bH
  Sources = {aCpp, bCpp, cCpp}
  Headers = {}
  ComponentHeaders = {}
  Includes <- NoHeaders
  NumThreads = 2
  MaxClock = 1
INVARIANTS
  RunnablesWithinExecutor
  UncancelledPassIsComplete
PROPERTIES
  CallsEnd
CHECK_DEADLOCK FALSE
