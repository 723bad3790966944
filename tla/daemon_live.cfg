SPECIFICATION FairSpec
CONSTANTS
  MaxMail = 2
  Senders = {s1}
  Seals = {"good", "none"}
  Loopback = TRUE
  MaxWorkers = 2
  FetchCap = 2
  MaxEdits = 0
  Loops = {l1}
  MaxRestarts = 1
  Disturb = {}
CHECK_DEADLOCK FALSE
INVARIANT
  AtMostOnce
PROPERTIES
  AuthorisedMailRuns
  ShutdownEnds
