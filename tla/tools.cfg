SPECIFICATION Spec
CONSTANTS
  Names = {"ann", "bob", "dom", "b"}
  Exact = {"ann@x", "bob@d"}
  Patterns = {"*@d"}
  Matches <- MCMatches
  Width <- MCWidth
  Handles = {"claude", "sam", "ghost"}
  EmailOf <- MCEmailOf
  Mail <- MCMail
  Callers = {"mcp", "cli"}
  Tools = {"mcp"}
  Setups <- MCSetups
  Emails = {"me@x", "sam@x"}
  FirstInbox <- MCInbox
  Queries <- MCQueries
  Pages <- MCPages
  IdLists <- MCIdLists
  PartNumbers = {0, 2}
  Newcomers <- MCNewcomers
  MaxSwitches = 1
INVARIANTS
  ReadAuthorised
  ListingTruthful
  TrustEarned
  CountsTrue
  EditsKept
CHECK_DEADLOCK FALSE
