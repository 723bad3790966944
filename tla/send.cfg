SPECIFICATION Spec
CONSTANTS
  Names = {"ann", "bob", "dom", "wide"}
  Exact = {"ann@x", "bob@d", "cyd@d"}
  Patterns = {"*@d", "*@"}
  Matches <- MCMatches
  Width <- MCWidth
  Me = "me@x"
  Entries = {"send_email", "reply_message", "send", "reply"}
  Requests <- MCRequests
  Originals <- MCOriginals
  Books <- MCBooks
  Listings <- MCListings
  Tag = "[own/a]"
  OwnTags = {"[own/a]", "[own/b]"}
  Cap = 3
  MaxEdits = 1
INVARIANTS
  CopiesExplained
  RecipientsWritable
  CopyWellFormed
PROPERTY
  ImplementsOutbox
