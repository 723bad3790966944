SPECIFICATION Spec
CONSTANTS
  N = 3
  Chunks = 1
  PipeSize = 1
  Cap = 0
  Drains = FALSE
CHECK_DEADLOCK FALSE
INVARIANTS
  SuccessIsWhole
  CauseNotVictim
  NothingLeaks
  CleanupNotStuck
