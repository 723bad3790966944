SPECIFICATION FairSpec
CONSTANTS
  Ids = {i1}
  SlowSave = TRUE
  MaxCrashes = 2
INVARIANTS
  FinalNeverTorn
PROPERTIES
  OnlyAgedEndedRemoved
  RetentionEnforced
