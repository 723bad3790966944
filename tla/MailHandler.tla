---------------------------- MODULE MailHandler ----------------------------
(***************************************************************************)
(* The new-mail callback of beadle-daemon (internal/daemon/handler.go) and *)
(* what it works on: the INBOX, the contacts file and the pool of worker   *)
(* goroutines.  OnNewMail is given a number of new messages, lists that    *)
(* many of the newest unread ones over a connection of its own, passes     *)
(* each through the permission and trust gates, and hands it to a worker   *)
(* if one of the semaphore's slots is free.  The daemon never marks mail   *)
(* as read: only its owner, with another client, does.                     *)
(***************************************************************************)
EXTENDS Integers, Sequences, FiniteSets, FiniteSetsExt

CONSTANTS
  MaxMail,      \* bound on the messages delivered
  Senders,      \* sender addresses
  Seals,        \* the kinds of authentication messages come with
  Loopback,     \* is the configured IMAP host the local machine?
  MaxWorkers,   \* capacity of workerSem
  FetchCap,     \* most messages listed by one callback
  MaxEdits      \* bound on the owner's edits of contacts and of read marks

ASSUME HandlerAssumption ==
  /\ {MaxMail, MaxEdits} \subseteq Nat
  /\ {MaxWorkers, FetchCap} \subseteq Nat \ {0}
  /\ Loopback \in BOOLEAN
  /\ Seals \subseteq {"none", "proton", "bad", "good", "other"}

VARIABLES
  mail,       \* the messages delivered, in UID order
  unread,     \* UIDs without the \Seen flag
  contacts,   \* contacts[s]: what the contacts file says of sender s
  spawning,   \* spawner and templates are configured
  cb,         \* the OnNewMail call in progress
  running,    \* running[m]: workers busy with message m (workerSem and wg)
  runs,       \* history: how often m was handed to a worker or a mission
  dropped,    \* history: messages turned away because the pool was full
  since,      \* history: <<sender, entry>> in force since the call began
  edits       \* how often the owner has edited something

handlerVars == <<mail, unread, contacts, spawning, cb, running, runs, dropped,
                 since, edits>>
workVars    == <<running, runs, dropped>>
boxVars     == <<mail, unread, contacts, edits>>

Mails == 1..MaxMail

\* What FindByAddress and CheckPermission make of a sender: no address, no
\* contact or a contact without x, one with x, one with x and a GPG key.
ContactKinds == {"none", "x", "xkey"}

\* Where the call is, how many messages to list, those still to be looked at
\* (oldest first) and the contacts as loaded.
NoCallback == [at |-> "idle", count |-> 0, todo |-> {},
               acl |-> [s \in Senders |-> "none"]]

-----------------------------------------------------------------------------
(* The gates *)

\* Accepting Proton's headers from any IMAP host.
VerifyTrustAnyHost(seal, contact) ==
  CASE seal = "proton" -> "trusted"
    [] seal = "none"   -> "unverified"
    [] seal = "bad"    -> "untrusted"
    [] seal = "good"   -> "verified"
    [] seal = "other"  -> IF contact = "xkey" THEN "untrusted" ELSE "verified"

\* verifyTrust: Proton's end-to-end headers count only from a loopback IMAP
\* host; a valid signature must match the contact's key if it has one.
VerifyTrust(seal, contact) ==
  CASE seal = "proton" -> IF Loopback THEN "trusted" ELSE "unverified"
    [] seal = "none"   -> "unverified"
    [] seal = "bad"    -> "untrusted"
    [] seal = "good"   -> "verified"
    [] seal = "other"  -> IF contact = "xkey" THEN "untrusted" ELSE "verified"

\* The checks of OnNewMail's loop, in order: contact, x bit, trust.
Passes(m, acl) ==
  LET contact == acl[mail[m].from]
  IN  /\ contact \in {"x", "xkey"}
      /\ VerifyTrust(mail[m].seal, contact) \in {"verified", "trusted"}

-----------------------------------------------------------------------------
(* OnNewMail *)

\* A window at the wrong end of the list.
Oldest(uids, count) ==
  {u \in uids : Cardinality({v \in uids : v < u}) < count}

\* ListMessages' window: the count most recent UIDs.
Newest(uids, count) ==
  {u \in uids : Cardinality({v \in uids : v > u}) < count}

\* A count that is one short.
BeginCallbackShort(n) ==
  /\ cb.at = "idle"
  /\ cb' = [NoCallback EXCEPT !.at = "list",
                              !.count = IF n > FetchCap THEN FetchCap ELSE n - 1]
  /\ since' = {<<s, contacts[s]>> : s \in Senders}
  /\ UNCHANGED <<boxVars, spawning, workVars>>

\* The poller calls OnNewMail(n).
BeginCallback(n) ==
  /\ cb.at = "idle"
  /\ cb' = [NoCallback EXCEPT !.at = "list",
                              !.count = IF n > FetchCap THEN FetchCap ELSE n]
  /\ since' = {<<s, contacts[s]>> : s \in Senders}
  /\ UNCHANGED <<boxVars, spawning, workVars>>

\* Identity, config, Dial, ListMessages or the contacts file: an error is
\* logged and the call is over.
CallbackFails ==
  /\ cb.at \in {"list", "contacts"}
  /\ cb' = NoCallback
  /\ UNCHANGED <<boxVars, spawning, workVars, since>>

List ==
  /\ cb.at = "list"
  /\ cb' = [cb EXCEPT !.at = "contacts", !.todo = Newest(unread, cb.count)]
  /\ UNCHANGED <<boxVars, spawning, workVars, since>>

LoadContacts ==
  /\ cb.at = "contacts"
  /\ cb' = [cb EXCEPT !.at = "gate", !.acl = contacts]
  /\ UNCHANGED <<boxVars, spawning, workVars, since>>

NextMessage == cb' = [cb EXCEPT !.todo = @ \ {Min(@)}]

\* The message at the head fails a gate.
Skip ==
  /\ cb.at = "gate"
  /\ cb.todo # {}
  /\ ~Passes(Min(cb.todo), cb.acl)
  /\ NextMessage
  /\ UNCHANGED <<boxVars, spawning, workVars, since>>

\* FetchRaw, gpg, FetchMessage or the mission creator failed for a message
\* that would have passed.
MessageFails ==
  /\ cb.at = "gate"
  /\ cb.todo # {}
  /\ Passes(Min(cb.todo), cb.acl)
  /\ NextMessage
  /\ UNCHANGED <<boxVars, spawning, workVars, since>>

InFlight == MapThenSumSet(LAMBDA m : running[m], Mails)

\* With a spawner: a worker if a slot is free, otherwise the message is
\* skipped.  Without one a mission record is created.
Submit ==
  /\ cb.at = "gate"
  /\ cb.todo # {}
  /\ LET m == Min(cb.todo)
     IN  /\ Passes(m, cb.acl)
         /\ \/ /\ spawning
               /\ InFlight < MaxWorkers
               /\ running' = [running EXCEPT ![m] = @ + 1]
               /\ runs' = [runs EXCEPT ![m] = @ + 1]
               /\ UNCHANGED dropped
            \/ /\ spawning
               /\ InFlight >= MaxWorkers
               /\ dropped' = dropped \cup {m}
               /\ UNCHANGED <<running, runs>>
            \/ /\ ~spawning
               /\ runs' = [runs EXCEPT ![m] = @ + 1]
               /\ UNCHANGED <<running, dropped>>
  /\ NextMessage
  /\ UNCHANGED <<boxVars, spawning, since>>

EndCallback ==
  /\ cb.at = "gate"
  /\ cb.todo = {}
  /\ cb' = NoCallback
  /\ UNCHANGED <<boxVars, spawning, workVars, since>>

\* Executor.Run returned: the slot is free again.
WorkerEnds(m) ==
  /\ running[m] > 0
  /\ running' = [running EXCEPT ![m] = @ - 1]
  /\ UNCHANGED <<boxVars, spawning, cb, runs, dropped, since>>

-----------------------------------------------------------------------------
(* The mailbox and the owner *)

Deliver(s, seal) ==
  /\ Len(mail) < MaxMail
  /\ mail' = Append(mail, [from |-> s, seal |-> seal])
  /\ unread' = unread \cup {Len(mail) + 1}
  /\ UNCHANGED <<contacts, spawning, cb, workVars, since, edits>>

MarkRead(m) ==
  /\ m \in unread
  /\ edits < MaxEdits
  /\ edits' = edits + 1
  /\ unread' = unread \ {m}
  /\ UNCHANGED <<mail, contacts, spawning, cb, workVars, since>>

MarkUnread(m) ==
  /\ m \in (1..Len(mail)) \ unread
  /\ edits < MaxEdits
  /\ edits' = edits + 1
  /\ unread' = unread \cup {m}
  /\ UNCHANGED <<mail, contacts, spawning, cb, workVars, since>>

\* The owner's add_contact and remove_contact, in another process; the file
\* is replaced by a rename.
EditContact(s, k) ==
  /\ contacts[s] # k
  /\ edits < MaxEdits
  /\ edits' = edits + 1
  /\ contacts' = [contacts EXCEPT ![s] = k]
  /\ since' = since \cup {<<s, k>>}
  /\ UNCHANGED <<mail, unread, spawning, cb, workVars>>

-----------------------------------------------------------------------------
HandlerInit ==
  /\ mail = <<>>
  /\ unread = {}
  /\ contacts \in [Senders -> ContactKinds]
  /\ spawning \in BOOLEAN
  /\ cb = NoCallback
  /\ running = [m \in Mails |-> 0]
  /\ runs = [m \in Mails |-> 0]
  /\ dropped = {}
  /\ since = {}
  /\ edits = 0
=============================================================================
