SPECIFICATION FairSpec
CONSTANTS
  N = 2
  Chunks = 2
  PipeSize = 1
  Cap = 1
  Drains = TRUE
CHECK_DEADLOCK FALSE
PROPERTY
  RunReturns
