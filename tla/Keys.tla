-------------------------------- MODULE Keys --------------------------------
(***************************************************************************)
(* The signing keys of internal/pgp and the credentials of internal/secret,*)
(* as functions of what gpg and the credential backends answer.            *)
(*                                                                         *)
(* A listing is the sequence of the records of gpg --list-keys             *)
(* --with-colons that matter: kind "pub" or "sub", signs (whether it may   *)
(* sign), exp ("none", "past", "future" or "bad": not a number).           *)
(***************************************************************************)
EXTENDS Naturals, Sequences, FiniteSets

KeyRecords == [kind : {"pub", "sub"}, signs : BOOLEAN, exp : {"none", "past", "future", "bad"}]

Rec(k, s, e) == [kind |-> k, signs |-> s, exp |-> e]

Primary(l) == {i \in DOMAIN l : l[i].kind = "pub"}
SigningSubs(l) == {i \in DOMAIN l : l[i].kind = "sub" /\ l[i].signs}

\* Mutant: the subkey rule of the past, one good subkey is enough.
OneGoodSubkey(l) ==
    /\ Cardinality(Primary(l)) = 1
    /\ \A i \in Primary(l) : l[i].exp = "future"
    /\ SigningSubs(l) # {} => \E i \in SigningSubs(l) : l[i].exp = "future"

\* No leniency for the primary key nor for a subkey without expiry; of the
\* signing subkeys that do expire one must be current.
parseColonExpiry(l) ==
    /\ Cardinality(Primary(l)) = 1
    /\ \A i \in Primary(l) : l[i].exp = "future"
    /\ \A i \in SigningSubs(l) : l[i].exp # "none"
    /\ SigningSubs(l) # {} => \E i \in SigningSubs(l) : l[i].exp = "future"

\* CheckKeyExpiry: "ok", a "finding" about the key, or "broken" when gpg did
\* not run at all.
CheckKeyExpiry(runs, l) ==
    IF ~runs THEN "broken" ELSE IF parseColonExpiry(l) THEN "ok" ELSE "finding"

\* The record gpg signs with (external): the last usable signing subkey, the
\* primary when there is none to choose from, 0 when all have expired.
gpgSelects(l) ==
    LET usable == {i \in SigningSubs(l) : l[i].exp \in {"none", "future"}}
    IN  IF SigningSubs(l) = {}
          THEN IF \E i \in Primary(l) : l[i].signs /\ l[i].exp # "past"
                 THEN CHOOSE i \in Primary(l) : l[i].signs /\ l[i].exp # "past"
                 ELSE 0
          ELSE IF usable = {} THEN 0
          ELSE CHOOSE i \in usable : \A j \in usable : j <= i

\* DetachSignBody: refused, or a signature by one record of the listing.
DetachSignBody(runs, l) ==
    IF CheckKeyExpiry(runs, l) # "ok" THEN 0 ELSE gpgSelects(l)

-----------------------------------------------------------------------------
\* A credential's backends: pass and secret-tool (a value or none), the file
\* ("value", "empty", "absent", "unsafe") and the environment.
Backends == [pass : BOOLEAN, tool : BOOLEAN, env : BOOLEAN,
             file : {"value", "empty", "absent", "unsafe"}]

keychainGet(b) == b.pass \/ b.tool

fileGet(b) == CASE b.file = "value" -> "found"
                [] b.file \in {"empty", "absent"} -> "notfound"
                [] OTHER -> "broken"

\* An unreadable file stops the search; an empty one does not.
Get(b) ==
    CASE keychainGet(b) -> "found"
      [] ~keychainGet(b) /\ fileGet(b) # "notfound" -> fileGet(b)
      [] OTHER -> IF b.env THEN "found" ELSE "notfound"

\* The SMTP password falls back to the IMAP one only when it is not found.
SMTPPassword(smtp, imap) == IF Get(smtp) = "notfound" THEN Get(imap) ELSE Get(smtp)
=============================================================================
