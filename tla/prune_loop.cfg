SPECIFICATION FairLoopSpec
CONSTANTS
  Callers = {c1, c2, c3}
  MaxLoops = 3
CHECK_DEADLOCK FALSE
INVARIANTS
  OneReachableLoop
PROPERTY
  StopReturns
