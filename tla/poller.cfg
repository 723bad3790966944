SPECIFICATION FairSpec
CONSTANTS
  Callers = {c1}
  Slots = {l1, l2}
  Intervals = {"5m", "1h"}
  Counts = {0, 1, 9, 10, 60}
CHECK_DEADLOCK FALSE
INVARIANTS
  SettledPoller
PROPERTIES
  MarkerConverges
