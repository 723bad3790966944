------------------------------ MODULE Contacts ------------------------------
(***************************************************************************)
(* The address book of an identity (internal/contacts): what a contact is, *)
(* which one an address or a name selects, and what it may do.  A book is  *)
(* the sequence of contacts in file order.  Names and addresses are        *)
(* tokens; the code compares them without regard to case, so a token       *)
(* stands for all its spellings.  A permission is the text of the file, a  *)
(* sequence of characters, because the file may be edited by hand.         *)
(***************************************************************************)
EXTENDS Filter

CONSTANTS
    Names,      \* tokens without @: names and aliases
    Exact,      \* plain addresses
    Patterns,   \* addresses with *, ? or [
    Matches,    \* [Patterns -> SUBSET (Exact \cup Patterns)]: path.Match
    Width       \* [Patterns -> Nat]: the length of a pattern in runes

ASSUME ContactsAssumption ==
    /\ Matches \in [Patterns -> SUBSET (Exact \cup Patterns)]
    /\ Width \in [Patterns -> Nat]

Failed == "failed"

Lower(ch) ==
    CASE ch = "R" -> "r" [] ch = "W" -> "w" [] ch = "X" -> "x" [] OTHER -> ch

Letters == <<"r", "w", "x">>

WellFormed(s) ==
    /\ Len(s) = 3
    /\ \A i \in 1..3 : Lower(s[i]) \in {Letters[i], "-"}

\* The rights a well formed text grants.
ParsePermission(s) ==
    {Letters[i] : i \in {j \in 1..3 : Lower(s[j]) # "-"}}

\* Whitelist: no entry for the identity, or one that does not parse, grants
\* nothing.
CheckPermission(c, id) ==
    IF id \in DOMAIN c.perms /\ WellFormed(c.perms[id])
      THEN ParsePermission(c.perms[id])
      ELSE {}

IsPattern(c) == c.email \in Patterns

\* A pattern may only grant read.
Validate(c) ==
    /\ c.name \in Names
    /\ c.email \in Exact \cup Patterns
    /\ IsPattern(c) =>
         \A id \in DOMAIN c.perms :
             Range(c.perms[id]) \cap {"w", "W", "x", "X"} = {}

Find(book, q) ==
    Only(book, {c \in Range(book) : q \in {c.name, c.email} \cup c.aliases})

CheckNameConflict(book, c) ==
    \A i \in DOMAIN book :
        ({c.name} \cup c.aliases) \cap ({book[i].name} \cup book[i].aliases) = {}

ResolveAddress(book, token) ==
    LET found == Find(book, token)
    IN  IF token \in Exact \cup Patterns THEN token
        ELSE IF Len(found) = 1 THEN found[1].email
        ELSE Failed

\* One failure fails the whole field.
ResolveAddresses(book, tokens) ==
    LET resolved == [i \in DOMAIN tokens |-> ResolveAddress(book, tokens[i])]
    IN  IF Failed \in Range(resolved) THEN <<Failed>> ELSE resolved

\* The loop over the patterns, by index: the best of the first i contacts, 0
\* for none.  Only a longer one replaces it.
BestPattern(book, addr) ==
    LET best[i \in 0..Len(book)] ==
          IF i = 0 THEN 0
          ELSE IF /\ IsPattern(book[i]) /\ addr \in Matches[book[i].email]
                  /\ \/ best[i - 1] = 0
                     \/ Width[book[i].email] > Width[book[best[i - 1]].email]
                 THEN i ELSE best[i - 1]
    IN  best

\* The contact an address selects, as a sequence of at most one: the first
\* exact entry, else the longest pattern, the earliest of equals.
FindByAddress(book, addr) ==
    LET exact == {i \in DOMAIN book : ~IsPattern(book[i]) /\ book[i].email = addr}
        glob == BestPattern(book, addr)[Len(book)]
    IN  IF exact # {} THEN <<book[CHOOSE i \in exact : \A j \in exact : i <= j]>>
        ELSE IF glob = 0 THEN <<>> ELSE <<book[glob]>>

\* What the selected contact may do as seen by identity id.
RightsOf(book, addr, id) ==
    LET found == FindByAddress(book, addr)
    IN  IF found = <<>> THEN {} ELSE CheckPermission(found[1], id)

\* The recipients the gate of send_email and reply_message refuses.
enforceWritePermission(book, id, recipients) ==
    {a \in Range(recipients) : "w" \notin RightsOf(book, a, id)}

\* Encrypt only when every recipient has a key.
encryptKeysFor(book, recipients) ==
    /\ recipients # <<>>
    /\ \A a \in Range(recipients) :
           LET found == FindByAddress(book, a)
           IN  found # <<>> /\ found[1].key

\* Store.Add: what may be appended.  Store.Remove: the book without the first
\* contact of that name.
CanAdd(book, c) == Validate(c) /\ CheckNameConflict(book, c)

RemoveContact(book, name) ==
    LET at == {i \in DOMAIN book : book[i].name = name}
        first == CHOOSE i \in at : \A j \in at : i <= j
    IN  IF at = {} THEN book ELSE RemoveAt(book, first)
=============================================================================
