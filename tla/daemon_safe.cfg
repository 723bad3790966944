SPECIFICATION Spec
CONSTANTS
  MaxMail = 2
  Senders = {s1}
  Seals = {"proton", "good", "other"}
  Loopback = FALSE
  MaxWorkers = 1
  FetchCap = 1
  MaxEdits = 1
  Loops = {l1}
  MaxRestarts = 1
  Disturb = {"window", "read", "unread", "pollfail", "mailfail"}
CHECK_DEADLOCK FALSE
PROPERTIES
  OnlyAuthorised
