-------------------------- MODULE MailDaemonProofs --------------------------
(***************************************************************************)
(* Proofs about MailDaemon.tla, for any mailbox, any senders and contacts, *)
(* any number of workers, edits and restarts: what is acted on was         *)
(* authorised during the callback that acts on it, and, while the mailbox  *)
(* stands still between count and list, is acted on once.                  *)
(***************************************************************************)
EXTENDS MailDaemon, TLAPS, WellFoundedInduction, FiniteSetTheorems

Idle(l) == loop[l].at = "none"
MainAt == call[P!Main].at

TypeInv ==
  /\ mail \in Seq([from : Senders, seal : Seals]) /\ Len(mail) <= MaxMail
  /\ unread \subseteq 1..Len(mail)
  /\ contacts \in [Senders -> ContactKinds]
  /\ cb \in [at : {"idle", "list", "contacts", "gate"}, count : Nat,
             todo : SUBSET Mails, acl : [Senders -> ContactKinds]]
  /\ cb.todo \subseteq 1..Len(mail)
  /\ runs \in [Mails -> Nat]
  /\ \A m \in Mails : runs[m] > 0 => m <= Len(mail)
  /\ cb.at \in {"idle", "list"} => cb.todo = {}

\* The contacts a callback goes by were in force since it began.
SinceInv ==
  /\ cb.at # "idle" => \A s \in Senders : <<s, contacts[s]>> \in since
  /\ cb.at = "gate" => \A s \in Senders : <<s, cb.acl[s]>> \in since

Polling ==
  [at : {"none", "poll", "counted", "notify", "publish", "wait"},
   first : BOOLEAN, prev : Nat, seen : Nat, every : {"5m", "n"}]
Calls ==
  [at : {"idle", "stop", "close", "closed", "wait", "woken", "set", "start"},
   want : {"5m", "n"}, ch : SUBSET Loops]

PollType ==
  /\ phase \in {"boot", "serving", "stopping", "ended"}
  /\ up \in {"up", "draining", "off"}
  /\ loop \in [Loops -> Polling]
  /\ config \in {"5m", "n"} /\ raw \in {"5m", "n"}
  /\ lastSeen \in Nat /\ known \in BOOLEAN /\ checked \in BOOLEAN
  /\ unseen = Cardinality(unread)
  /\ stopCh \subseteq Loops
  /\ call \in [P!Procs -> Calls]

\* One polling goroutine at most, none before poller.Start nor once
\* poller.Stop has got past its wait; a callback runs on that goroutine.
LoopInv ==
  /\ phase = "boot" => /\ \A l \in Loops : Idle(l)
                       /\ stopCh = {} /\ MainAt = "idle"
  /\ up = "off" => phase = "boot"
  /\ up = "draining" \/ phase = "ended" => \A l \in Loops : Idle(l)
  /\ up = "draining" => phase # "boot"
  /\ \A k, l \in Loops : ~Idle(k) /\ ~Idle(l) => k = l
  /\ MainAt \in {"idle", "stop"} /\ stopCh = {} => \A l \in Loops : Idle(l)
  /\ MainAt \in {"woken", "set"} => \A l \in Loops : Idle(l)
  /\ MainAt # "idle" <=> phase = "stopping"
  /\ cb.at # "idle" => \E l \in Loops : loop[l].at = "publish"

\* All messages acted on are among the first k, and at most n of these are
\* still unread.
Covers(k, n) ==
  /\ k \in 0..Len(mail)
  /\ \A m \in Mails : runs[m] > 0 => m <= k
  /\ Cardinality({u \in unread : u <= k}) <= n

\* What the stored count says about the messages acted on, from count to list.
CountInv ==
  /\ known /\ (\A l \in Loops : loop[l].at # "notify") /\ cb.at # "list" =>
       \E k \in 0..Len(mail) : Covers(k, lastSeen) /\ cb.todo \subseteq 1..k
  /\ \A l \in Loops : loop[l].at = "counted" => loop[l].seen = unseen
  /\ \A l \in Loops : loop[l].at = "notify" =>
       /\ loop[l].seen = unseen /\ lastSeen = unseen
       /\ loop[l].first \/ \E k \in 0..Len(mail) : Covers(k, loop[l].prev)
  /\ cb.at = "list" =>
       lastSeen = unseen /\ \E k \in 0..Len(mail) : Covers(k, unseen - cb.count)
  /\ \A u \in cb.todo : runs[u] = 0
  /\ checked => known
  /\ ~known => \A l \in Loops : loop[l].at \in {"none", "poll", "counted"}

HandlerInv == TypeInv /\ SinceInv
SafeInv == HandlerInv /\ PollType

IInv == SafeInv /\ LoopInv /\ CountInv /\ AtMostOnce

-----------------------------------------------------------------------------
(* Least elements *)

\* A nonempty set of naturals has a least element, which Min finds.
LEMMA LeastNatural ==
  ASSUME NEW T \in SUBSET Nat, T # {}
  PROVE  Min(T) \in T /\ \A y \in T : Min(T) <= y
<1>1. IsWellFoundedOn(OpToRel(<, Nat), Nat)
  BY NatLessThanWellFounded
<1>2. PICK x \in T : \A y \in T : ~ (<<y, x>> \in OpToRel(<, Nat))
  BY <1>1, WFMin
<1>3. \A y \in T : ~ (y < x)
  BY <1>2 DEF OpToRel
<1>4. \A y \in T : x <= y
  BY <1>3
<1>5. Min(T) = CHOOSE z \in T : \A y \in T : z <= y
  BY DEF Min
<1> QED
  BY <1>4, <1>5

-----------------------------------------------------------------------------
(* The poller's types *)

LEMMA NoLoopType == P!NoLoop \in Polling /\ P!NoLoop.at = "none"
BY DEF P!NoLoop, Polling

LEMMA NoCallType == P!NoCall \in Calls /\ P!NoCall.at = "idle"
BY DEF P!NoCall, Calls

\* The unread messages are finitely many.
LEMMA UnreadFinite ==
  ASSUME TypeInv
  PROVE  /\ Len(mail) \in Nat /\ IsFiniteSet(1..Len(mail))
         /\ IsFiniteSet(unread) /\ Cardinality(unread) \in Nat
<1>1. Len(mail) \in Nat /\ unread \subseteq 1..Len(mail)
  BY DEF TypeInv
<1>2. IsFiniteSet(1..Len(mail))
  BY <1>1, FS_Interval
<1>3. IsFiniteSet(unread)
  BY <1>1, <1>2, FS_Subset
<1> QED
  BY <1>1, <1>2, <1>3, FS_CardinalityType

\* A step of the polling goroutine changes its own slot, to a well typed one.
LEMMA LoopTypes ==
  ASSUME TypeInv, PollType, NEW l \in Loops,
         P!PollFails(l) \/ P!PollCounts(l) \/ P!PollRecords(l) \/ P!Notify(l)
         \/ P!Publish(l) \/ P!Tick(l) \/ P!LoopStops(l)
  PROVE  /\ loop' \in [Loops -> Polling]
         /\ \A k \in Loops \ {l} : loop'[k] = loop[k]
         /\ lastSeen' \in Nat /\ known' \in BOOLEAN /\ checked' \in BOOLEAN
         /\ UNCHANGED <<phase, config, raw, stopCh, unseen, panicked>>
<1>1. unseen \in Nat
  BY UnreadFinite DEF PollType
<1>2. loop[l] \in Polling /\ loop[l].seen \in Nat /\ loop[l].every \in {"5m", "n"}
  BY DEF PollType, Polling
<1>3. \E r \in Polling : loop' = [loop EXCEPT ![l] = r]
  <2>1. CASE P!PollFails(l)
    BY <1>2, <2>1 DEF P!PollFails, Polling
  <2>2. CASE P!PollCounts(l)
    BY <1>1, <1>2, <2>2 DEF P!PollCounts, Polling
  <2>3. CASE P!PollRecords(l)
    BY <1>2, <2>3 DEF P!PollRecords, Polling, PollType
  <2>4. CASE P!Notify(l)
    BY <1>2, <2>4 DEF P!Notify, Polling
  <2>5. CASE P!Publish(l)
    BY <1>2, <2>5, NoLoopType DEF P!Publish, Polling
  <2>6. CASE P!Tick(l)
    BY <1>2, <2>6 DEF P!Tick, Polling
  <2>7. CASE P!LoopStops(l)
    BY <2>7, NoLoopType DEF P!LoopStops
  <2> QED
    BY <2>1, <2>2, <2>3, <2>4, <2>5, <2>6, <2>7
<1>4. loop' \in [Loops -> Polling] /\ \A k \in Loops \ {l} : loop'[k] = loop[k]
  BY <1>3 DEF PollType
<1>5. lastSeen' \in Nat /\ known' \in BOOLEAN /\ checked' \in BOOLEAN
  BY <1>2 DEF P!PollFails, P!PollCounts, P!PollRecords, P!Notify, P!Publish,
              P!Tick, P!LoopStops, P!pollVars, PollType
<1>6. UNCHANGED <<phase, config, raw, stopCh, unseen, panicked>>
  BY DEF P!PollFails, P!PollCounts, P!PollRecords, P!Notify, P!Publish, P!Tick,
         P!LoopStops
<1> QED
  BY <1>4, <1>5, <1>6

-----------------------------------------------------------------------------
(* Only authorised mail is acted on *)

LEMMA HandlerInitial == Init => HandlerInv
<1> SUFFICES ASSUME Init PROVE HandlerInv
  OBVIOUS
<1>1. MaxMail \in Nat
  BY HandlerAssumption
<1>2. mail \in Seq([from : Senders, seal : Seals]) /\ Len(mail) = 0
  BY DEF Init, HandlerInit
<1>3. cb \in [at : {"idle", "list", "contacts", "gate"}, count : Nat,
              todo : SUBSET Mails, acl : [Senders -> ContactKinds]]
  BY DEF Init, HandlerInit, NoCallback, ContactKinds
<1>4. cb.at = "idle" /\ cb.todo = {}
  BY DEF Init, HandlerInit, NoCallback
<1> QED
  BY <1>1, <1>2, <1>3, <1>4
  DEF Init, HandlerInit, HandlerInv, TypeInv, SinceInv, Mails

\* The idle callback has its type.
LEMMA NoCallbackType ==
  /\ NoCallback \in [at : {"idle", "list", "contacts", "gate"}, count : Nat,
                     todo : SUBSET Mails, acl : [Senders -> ContactKinds]]
  /\ NoCallback.at = "idle" /\ NoCallback.todo = {} /\ NoCallback.count = 0
BY DEF NoCallback, ContactKinds

\* OnNewMail begins: nothing is listed yet.
LEMMA BeginType ==
  ASSUME TypeInv, NEW n \in Nat, BeginCallback(n)
  PROVE  /\ TypeInv'
         /\ cb'.at = "list" /\ cb'.todo = {}
         /\ cb'.count = IF n > FetchCap THEN FetchCap ELSE n
         /\ since' = {<<s, contacts[s]>> : s \in Senders}
         /\ UNCHANGED <<mail, unread, contacts, runs>>
<1> DEFINE k == IF n > FetchCap THEN FetchCap ELSE n
<1>1. k \in Nat
  BY HandlerAssumption
<1>2. cb' = [NoCallback EXCEPT !.at = "list", !.count = k]
  BY DEF BeginCallback
<1> HIDE DEF k
<1>3. /\ cb' \in [at : {"idle", "list", "contacts", "gate"}, count : Nat,
                  todo : SUBSET Mails, acl : [Senders -> ContactKinds]]
      /\ cb'.at = "list" /\ cb'.todo = {} /\ cb'.count = k
  BY <1>1, <1>2, NoCallbackType
<1>4. since' = {<<s, contacts[s]>> : s \in Senders} /\ UNCHANGED <<mail, unread, contacts, runs>>
  BY DEF BeginCallback, boxVars, workVars
<1>5. TypeInv'
  BY <1>3, <1>4 DEF TypeInv
<1> QED
  BY <1>3, <1>4, <1>5 DEF k

\* One message less to look at.
LEMMA NextType ==
  ASSUME TypeInv, cb.todo # {}, NextMessage
  PROVE  /\ Min(cb.todo) \in cb.todo /\ Min(cb.todo) \in Mails
         /\ Min(cb.todo) \in 1..Len(mail)
         /\ cb'.at = cb.at /\ cb'.acl = cb.acl
         /\ cb'.todo = cb.todo \ {Min(cb.todo)}
         /\ cb' \in [at : {"idle", "list", "contacts", "gate"}, count : Nat,
                     todo : SUBSET Mails, acl : [Senders -> ContactKinds]]
<1> DEFINE m == Min(cb.todo)
<1>1. cb.todo \in SUBSET Nat
  BY DEF TypeInv, Mails
<1>2. m \in cb.todo
  BY <1>1, LeastNatural
<1>3. cb' = [cb EXCEPT !.todo = cb.todo \ {m}]
  BY DEF NextMessage
<1> HIDE DEF m
<1>4. m \in Mails /\ m \in 1..Len(mail)
  BY <1>2 DEF TypeInv
<1> QED
  BY <1>2, <1>3, <1>4 DEF TypeInv, m

\* The steps of OnNewMail, one by one.
LEMMA CallbackSafe ==
  ASSUME HandlerInv, Callback
  PROVE  HandlerInv' /\ UNCHANGED <<mail, unread, contacts, since>>
<1> USE DEF HandlerInv
<1>1. UNCHANGED <<mail, unread, contacts, since>>
  BY DEF Callback, List, LoadContacts, Skip, Submit, EndCallback, CallbackFails,
         MessageFails, boxVars
<1>2. CASE List
  <2>1. /\ cb' = [cb EXCEPT !.at = "contacts", !.todo = Newest(unread, cb.count)]
        /\ runs' = runs /\ cb.at = "list"
    BY <1>2 DEF List, workVars
  <2>2. Newest(unread, cb.count) \subseteq unread
    BY DEF Newest
  <2>3. Newest(unread, cb.count) \subseteq 1..Len(mail) /\ 1..Len(mail) \subseteq Mails
    <3>1. Len(mail) \in Nat /\ Len(mail) <= MaxMail /\ MaxMail \in Nat
      BY HandlerAssumption DEF TypeInv
    <3>2. unread \subseteq 1..Len(mail)
      BY DEF TypeInv
    <3>3. 1..Len(mail) \subseteq Mails
      BY <3>1 DEF Mails
    <3> QED
      BY <2>2, <3>2, <3>3
  <2>4. /\ cb'.at = "contacts" /\ cb'.todo \subseteq 1..Len(mail)
        /\ cb' \in [at : {"idle", "list", "contacts", "gate"}, count : Nat,
                    todo : SUBSET Mails, acl : [Senders -> ContactKinds]]
    BY <2>1, <2>3 DEF TypeInv
  <2> QED
    BY <1>1, <2>1, <2>4 DEF TypeInv, SinceInv
<1>3. CASE LoadContacts
  <2>1. /\ cb' = [cb EXCEPT !.at = "gate", !.acl = contacts]
        /\ runs' = runs /\ cb.at = "contacts"
    BY <1>3 DEF LoadContacts, workVars
  <2>2. /\ cb'.at = "gate" /\ cb'.todo = cb.todo /\ cb'.acl = contacts
        /\ cb' \in [at : {"idle", "list", "contacts", "gate"}, count : Nat,
                    todo : SUBSET Mails, acl : [Senders -> ContactKinds]]
    BY <2>1 DEF TypeInv
  <2> QED
    BY <1>1, <2>1, <2>2 DEF TypeInv, SinceInv
<1>4. CASE Skip \/ MessageFails \/ Submit
  <2>1. cb.at = "gate" /\ cb.todo # {} /\ NextMessage
    BY <1>4 DEF Skip, MessageFails, Submit
  <2>2. /\ Min(cb.todo) \in Mails /\ Min(cb.todo) \in 1..Len(mail)
        /\ cb'.at = "gate" /\ cb'.acl = cb.acl
        /\ cb'.todo = cb.todo \ {Min(cb.todo)}
        /\ cb' \in [at : {"idle", "list", "contacts", "gate"}, count : Nat,
                    todo : SUBSET Mails, acl : [Senders -> ContactKinds]]
    BY <2>1, NextType
  <2>3. runs' = runs \/ runs' = [runs EXCEPT ![Min(cb.todo)] = @ + 1]
    BY <1>4 DEF Skip, MessageFails, Submit, workVars
  <2> DEFINE m == Min(cb.todo)
  <2> HIDE DEF m
  <2>4. /\ runs' \in [Mails -> Nat]
        /\ \A i \in Mails : runs'[i] > 0 => runs[i] > 0 \/ i = m
    BY <2>2, <2>3 DEF TypeInv, m
  <2>5. \A i \in Mails : runs'[i] > 0 => i <= Len(mail)
    BY <2>2, <2>4 DEF TypeInv, m
  <2> QED
    BY <1>1, <2>1, <2>2, <2>4, <2>5 DEF TypeInv, SinceInv
<1>5. CASE EndCallback \/ CallbackFails
  <2>1. cb' = NoCallback /\ runs' = runs
    BY <1>5 DEF EndCallback, CallbackFails, workVars
  <2> QED
    BY <1>1, <2>1, NoCallbackType DEF TypeInv, SinceInv
<1> QED
  BY <1>1, <1>2, <1>3, <1>4, <1>5 DEF Callback

\* Mail comes in behind what is there, or changes its read mark.
LEMMA MailboxSafe ==
  ASSUME HandlerInv, Mailbox
  PROVE  HandlerInv'
<1> USE DEF HandlerInv
<1>1. UNCHANGED <<contacts, cb, runs, since>>
  BY DEF Mailbox, Deliver, MarkRead, MarkUnread, workVars
<1>2. Len(mail) \in Nat /\ mail \in Seq([from : Senders, seal : Seals])
  BY DEF TypeInv
<1>3. ASSUME NEW s \in Senders, NEW seal \in Seals, Deliver(s, seal) PROVE HandlerInv'
  <2> DEFINE r == [from |-> s, seal |-> seal]
  <2>1. /\ Len(mail) < MaxMail /\ mail' = Append(mail, r)
        /\ unread' = unread \cup {Len(mail) + 1}
    BY <1>3 DEF Deliver
  <2>2. r \in [from : Senders, seal : Seals]
    OBVIOUS
  <2> HIDE DEF r
  <2>3. mail' \in Seq([from : Senders, seal : Seals]) /\ Len(mail') = Len(mail) + 1
    BY <1>2, <2>1, <2>2
  <2>a. /\ Len(mail') <= MaxMail /\ 1..Len(mail) \subseteq 1..Len(mail')
        /\ Len(mail) + 1 \in 1..Len(mail')
    BY <1>2, <2>1, <2>3, HandlerAssumption
  <2>4. /\ Len(mail') <= MaxMail /\ unread' \subseteq 1..Len(mail')
        /\ cb.todo \subseteq 1..Len(mail')
    BY <2>1, <2>a DEF TypeInv
  <2>5. \A m \in Mails : runs[m] > 0 => m <= Len(mail')
    BY <1>2, <2>3 DEF TypeInv, Mails
  <2> QED
    BY <1>1, <2>3, <2>4, <2>5 DEF TypeInv, SinceInv
<1>4. ASSUME NEW m \in Mails, MarkRead(m) \/ MarkUnread(m) PROVE HandlerInv'
  <2>1. mail' = mail /\ unread' \subseteq 1..Len(mail)
    BY <1>4 DEF MarkRead, MarkUnread, TypeInv
  <2> QED
    BY <1>1, <2>1 DEF TypeInv, SinceInv
<1> QED
  BY <1>3, <1>4 DEF Mailbox

\* The owner's edit of the contacts, in the middle of a callback or not.
LEMMA OwnerSafe ==
  ASSUME HandlerInv, Owner
  PROVE  HandlerInv'
<1>1. PICK s \in Senders, k \in ContactKinds : EditContact(s, k)
  BY DEF Owner
<1>2. /\ contacts' = [contacts EXCEPT ![s] = k] /\ since' = since \cup {<<s, k>>}
      /\ UNCHANGED <<mail, unread, cb, runs>>
  BY <1>1 DEF EditContact, workVars
<1>3. /\ contacts' \in [Senders -> ContactKinds] /\ contacts'[s] = k
      /\ \A t \in Senders \ {s} : contacts'[t] = contacts[t]
  BY <1>2 DEF HandlerInv, TypeInv
<1>4. TypeInv'
  BY <1>2, <1>3 DEF HandlerInv, TypeInv
<1>5. SinceInv'
  BY <1>2, <1>3 DEF HandlerInv, SinceInv
<1> QED
  BY <1>4, <1>5 DEF HandlerInv

\* Every step of the daemon and of the world around it keeps the invariant.
LEMMA HandlerStep ==
  ASSUME HandlerInv, PollType, [Next]_vars
  PROVE  HandlerInv'
<1> DEFINE Frame == UNCHANGED <<mail, unread, contacts, cb, runs, since>>
<1>1. ASSUME Frame PROVE HandlerInv'
  BY <1>1 DEF HandlerInv, TypeInv, SinceInv
<1>2. CASE UNCHANGED vars
  BY <1>1, <1>2 DEF vars, handlerVars
<1>3. CASE Start \/ Signal \/ StopPoller \/ StopHandler \/ Exit
  BY <1>1, <1>3 DEF Start, Signal, StopPoller, StopHandler, Exit, handlerVars
<1>4. CASE Kill
  <2>1. cb' = NoCallback /\ UNCHANGED <<mail, unread, contacts, runs, since>>
    BY <1>4 DEF Kill, boxVars
  <2> QED
    BY <2>1, NoCallbackType DEF HandlerInv, TypeInv, SinceInv
<1>5. CASE Restart
  BY <1>1, <1>5 DEF Restart, boxVars, workVars
<1>6. ASSUME NEW l \in Loops, Poll(l) \/ Publish(l) PROVE HandlerInv'
  BY <1>1, <1>6 DEF Poll, Publish, handlerVars
<1>8. CASE Callback
  BY <1>8, CallbackSafe
<1>9. ASSUME NEW m \in Mails, Work(m) PROVE HandlerInv'
  BY <1>1, <1>9 DEF Work, WorkerEnds, boxVars
<1>10. CASE Mailbox
  BY <1>10, MailboxSafe
<1>11. CASE Owner
  BY <1>11, OwnerSafe
<1>7. ASSUME NEW l \in Loops, Notify(l) PROVE HandlerInv'
  <2>1. CASE ~P!Prompts(l)
    BY <1>1, <1>7, <2>1 DEF Notify, handlerVars
  <2>2. CASE P!Prompts(l)
    <3>1. loop[l].seen - loop[l].prev \in Nat
      BY <2>2 DEF P!Prompts, PollType, Polling
    <3>2. /\ TypeInv' /\ since' = {<<s, contacts[s]>> : s \in Senders}
          /\ contacts' = contacts /\ cb'.at = "list"
      BY <1>7, <2>2, <3>1, BeginType DEF Notify, HandlerInv
    <3> QED
      BY <3>2 DEF HandlerInv, SinceInv
  <2> QED
    BY <2>1, <2>2
<1> QED
  BY <1>2, <1>3, <1>4, <1>5, <1>6, <1>7, <1>8, <1>9, <1>10, <1>11 DEF Next

\* The calls of the poller's API that the daemon makes keep to their types.
LEMMA CallTypes ==
  ASSUME PollType, Start \/ Signal \/ StopPoller \/ StopHandler
  PROVE  PollType'
<1>0. P!Main \in P!Procs
  BY DEF P!Procs
<1>1. UNCHANGED <<unread, unseen, lastSeen, known, checked>>
  BY DEF Start, Signal, StopPoller, StopHandler, P!Boot, P!Shutdown, P!TakeChannel,
         P!CloseChannel, P!Wait, P!Wake, P!Ended, P!pollVars, P!loopVars, handlerVars
<1>2. CASE Start
  <2>1. /\ phase' = "serving" /\ up' \in {"up", "draining"} /\ UNCHANGED <<config, call>>
    BY <1>2 DEF Start, P!Boot
  <2>2. CASE UNCHANGED <<raw, stopCh, loop>>
    BY <1>1, <2>1, <2>2 DEF PollType
  <2>3. CASE config # "n" /\ raw' = config /\ \E l \in Loops : P!StartLoop(l)
    <3>1. PICK l \in Loops : P!StartLoop(l)
      BY <2>3
    <3>2. stopCh' = {l} /\ loop' = [loop EXCEPT ![l] =
                                      [P!NoLoop EXCEPT !.at = "poll", !.every = raw']]
      BY <3>1 DEF P!StartLoop
    <3>3. [P!NoLoop EXCEPT !.at = "poll", !.every = raw'] \in Polling
      BY <2>3, NoLoopType DEF PollType, Polling
    <3>4. loop' \in [Loops -> Polling]
      BY <3>2, <3>3 DEF PollType
    <3> QED
      BY <1>1, <2>1, <2>3, <3>2, <3>4 DEF PollType
  <2> QED
    BY <1>2, <2>2, <2>3 DEF Start, P!Boot
<1>3. CASE Signal \/ StopPoller \/ StopHandler
  <2>1. /\ phase' \in {phase, "stopping", "ended"} /\ up' \in {up, "draining"}
        /\ stopCh' \in {stopCh, {}} /\ UNCHANGED <<config, raw, loop>>
    BY <1>3 DEF Signal, StopPoller, StopHandler, P!Shutdown, P!TakeChannel,
                P!CloseChannel, P!Wait, P!Wake, P!Ended, P!loopVars, procVars
  <2>2. \E r \in Calls : call' = [call EXCEPT ![P!Main] = r]
    <3>1. call[P!Main] \in Calls /\ stopCh \in SUBSET Loops
      BY <1>0 DEF PollType
    <3>2. CASE P!TakeChannel(P!Main)
      BY <3>1, <3>2 DEF P!TakeChannel, Calls
    <3>3. CASE P!Shutdown \/ P!CloseChannel(P!Main) \/ P!Wait(P!Main) \/ P!Wake(P!Main)
      BY <3>1, <3>3 DEF P!Shutdown, P!CloseChannel, P!Wait, P!Wake, P!Go, Calls
    <3>4. CASE P!Ended
      BY <3>4, NoCallType DEF P!Ended
    <3> QED
      BY <1>3, <3>2, <3>3, <3>4 DEF Signal, StopPoller, StopHandler
  <2>3. call' \in [P!Procs -> Calls]
    BY <2>2 DEF PollType
  <2> QED
    BY <1>1, <2>1, <2>3 DEF PollType
<1> QED
  BY <1>2, <1>3

\* Nothing of the poller is left in a process that has ended.
LEMMA ForgetTypes ==
  ASSUME PollType, Forget, up' = "off", unread' = unread
  PROVE  PollType'
<1>1. loop' \in [Loops -> Polling] /\ call' \in [P!Procs -> Calls]
  BY NoLoopType, NoCallType DEF Forget
<1> QED
  BY <1>1 DEF PollType, Forget

LEMMA PollTypeStep ==
  ASSUME TypeInv, PollType, [Next]_vars
  PROVE  PollType'
<1>1. CASE UNCHANGED <<pollerVars, unread, up>>
  BY <1>1 DEF PollType, pollerVars
<1>2. CASE UNCHANGED vars \/ Callback \/ (\E m \in Mails : Work(m)) \/ Owner
  BY <1>1, <1>2 DEF vars, Callback, Work, Owner, EditContact, WorkerEnds, List,
    LoadContacts, Skip, Submit, EndCallback, CallbackFails, MessageFails, boxVars,
    handlerVars, procVars
<1>3. CASE Start \/ Signal \/ StopPoller \/ StopHandler
  BY <1>3, CallTypes
<1>4. CASE Exit \/ Kill
  BY <1>4, ForgetTypes DEF Exit, Kill, handlerVars, boxVars
<1>5. CASE Restart
  BY <1>5 DEF Restart, PollType, pollerVars, boxVars
<1>6. ASSUME NEW l \in Loops, Poll(l) \/ Notify(l) \/ Publish(l) PROVE PollType'
  <2>1. /\ loop' \in [Loops -> Polling]
        /\ lastSeen' \in Nat /\ known' \in BOOLEAN /\ checked' \in BOOLEAN
        /\ UNCHANGED <<phase, config, raw, stopCh, unseen>>
    BY <1>6, LoopTypes DEF Poll, Notify, Publish
  <2>2. UNCHANGED <<unread, up>>
    BY <1>6 DEF Poll, Notify, Publish, BeginCallback, handlerVars, procVars, boxVars
  <2>3. call' \in [P!Procs -> Calls]
    <3>1. CASE P!LoopStops(l)
      <4>1. \A c \in P!Procs : [call[c] EXCEPT !.at = "woken"] \in Calls /\ call[c] \in Calls
        BY DEF PollType, Calls
      <4> QED
        BY <3>1, <4>1 DEF P!LoopStops
    <3>2. CASE ~P!LoopStops(l)
      BY <1>6, <3>2 DEF Poll, Notify, Publish, P!PollFails, P!PollCounts, P!PollRecords,
        P!Notify, P!Publish, P!Tick, PollType
    <3> QED
      BY <3>1, <3>2
  <2> QED
    BY <2>1, <2>2, <2>3 DEF PollType
<1>7. CASE Mailbox
  BY <1>7 DEF Mailbox, P!MailChanges, P!loopVars, procVars, PollType
<1> QED
  BY <1>2, <1>3, <1>4, <1>5, <1>6, <1>7 DEF Next

LEMMA PollTypeInitial == Init => PollType
<1> SUFFICES ASSUME Init PROVE PollType
  OBVIOUS
<1>1. loop \in [Loops -> Polling] /\ call \in [P!Procs -> Calls]
  BY NoLoopType, NoCallType DEF Init, P!Init
<1>2. Cardinality(unread) = 0
  BY FS_EmptySet DEF Init, HandlerInit
<1> QED
  BY <1>1, <1>2 DEF Init, P!Init, PollType

\* The mailbox, the contacts, the callback and the poller stay in their types,
\* and what the callback goes by has been in force since it began.
THEOREM Safe == Spec => []SafeInv
<1>1. Init => SafeInv
  BY HandlerInitial, PollTypeInitial DEF SafeInv
<1>2. SafeInv /\ [Next]_vars => SafeInv'
  BY HandlerStep, PollTypeStep DEF SafeInv, HandlerInv
<1> QED
  BY <1>1, <1>2, PTL DEF Spec

\* A message that passes the gates has a sender with x and a seal that counts.
LEMMA GatesHold ==
  ASSUME TypeInv, NEW m \in 1..Len(mail), cb.at = "gate", SinceInv, Passes(m, cb.acl)
  PROVE  \E k \in {"x", "xkey"} :
           /\ <<mail[m].from, k>> \in since
           /\ \/ mail[m].seal = "good"
              \/ mail[m].seal = "other" /\ k = "x"
              \/ mail[m].seal = "proton" /\ Loopback
<1>1. mail[m] \in [from : Senders, seal : Seals]
  <2> DEFINE Letter == [from : Senders, seal : Seals]
  <2>1. mail \in Seq(Letter)
    BY DEF TypeInv
  <2> HIDE DEF Letter
  <2>2. mail[m] \in Letter
    BY <2>1
  <2> QED
    BY <2>2 DEF Letter
<1> DEFINE k == cb.acl[mail[m].from]
           seal == mail[m].seal
<1>2. k \in {"x", "xkey"} /\ VerifyTrust(seal, k) \in {"verified", "trusted"}
  BY DEF Passes
<1>3. <<mail[m].from, k>> \in since
  BY <1>1 DEF SinceInv
<1>4. seal \in {"none", "proton", "bad", "good", "other"}
  BY <1>1, HandlerAssumption
<1> HIDE DEF k, seal
<1>5. seal = "good" \/ (seal = "other" /\ k = "x") \/ (seal = "proton" /\ Loopback)
  <2>1. seal # "none" /\ seal # "bad"
    BY <1>2 DEF VerifyTrust
  <2>2. seal = "proton" => Loopback
    BY <1>2 DEF VerifyTrust
  <2>3. seal = "other" => k # "xkey"
    BY <1>2 DEF VerifyTrust
  <2> QED
    BY <1>2, <1>4, <2>1, <2>2, <2>3
<1> QED
  BY <1>2, <1>3, <1>5 DEF k, seal

\* Only Submit acts on a message, and only on the one that passed.
LEMMA OnlySubmitRuns ==
  ASSUME SafeInv, [Next]_vars, NEW m \in Mails, runs'[m] > runs[m]
  PROVE  /\ cb.at = "gate" /\ m = Min(cb.todo) /\ m \in cb.todo
         /\ Passes(m, cb.acl)
<1>1. CASE Submit
  <2>1. /\ cb.at = "gate" /\ cb.todo # {} /\ Passes(Min(cb.todo), cb.acl)
        /\ NextMessage
        /\ runs' = runs \/ runs' = [runs EXCEPT ![Min(cb.todo)] = @ + 1]
    BY <1>1 DEF Submit
  <2>2. Min(cb.todo) \in cb.todo
    BY <2>1, NextType DEF SafeInv, HandlerInv
  <2>3. runs \in [Mails -> Nat] /\ runs[m] \in Nat
    BY DEF SafeInv, HandlerInv, TypeInv
  <2> DEFINE i == Min(cb.todo)
  <2> HIDE DEF i
  <2>4. m = i
    BY <2>1, <2>3 DEF i
  <2> QED
    BY <2>1, <2>2, <2>4 DEF i
<1>2. CASE ~Submit
  <2>1. UNCHANGED runs
    BY <1>2 DEF Next, vars, Start, Signal, StopPoller, StopHandler, Exit, Kill,
      Restart, Poll, Notify, BeginCallback, Publish, Callback, List, LoadContacts, Skip,
      EndCallback, CallbackFails, MessageFails, Work, WorkerEnds, Mailbox, Deliver,
      MarkRead, MarkUnread, Owner, EditContact, handlerVars, workVars
  <2>2. runs[m] \in Nat
    BY DEF SafeInv, HandlerInv, TypeInv
  <2> QED
    BY <2>1, <2>2
<1> QED
  BY <1>1, <1>2

\* However the owner edits the contacts during a callback (OnNewMail loads them
\* after it has listed), whoever else changes the mailbox and whatever fails, a
\* message is handed to a worker or a mission only if its sender held x at some
\* time of this very callback and its origin was proved.
THEOREM OnlyAuthorisedRuns == Spec => OnlyAuthorised
<1> DEFINE A == \A m \in Mails : runs'[m] > runs[m] =>
       \E k \in {"x", "xkey"} :
         /\ <<mail[m].from, k>> \in since
         /\ \/ mail[m].seal = "good"
            \/ mail[m].seal = "other" /\ k = "x"
            \/ mail[m].seal = "proton" /\ Loopback
<1>1. SafeInv /\ [Next]_vars => A
  <2> SUFFICES ASSUME SafeInv, [Next]_vars, NEW m \in Mails, runs'[m] > runs[m]
               PROVE  \E k \in {"x", "xkey"} :
                        /\ <<mail[m].from, k>> \in since
                        /\ \/ mail[m].seal = "good"
                           \/ mail[m].seal = "other" /\ k = "x"
                           \/ mail[m].seal = "proton" /\ Loopback
    OBVIOUS
  <2>1. cb.at = "gate" /\ m \in cb.todo /\ Passes(m, cb.acl)
    BY OnlySubmitRuns
  <2>2. m \in 1..Len(mail)
    BY <2>1 DEF SafeInv, HandlerInv, TypeInv
  <2> QED
    BY <2>1, <2>2, GatesHold DEF SafeInv, HandlerInv
<1>2. SafeInv /\ [Next]_vars => [A]_vars
  BY <1>1
<1>3. Spec => [][A]_vars
  BY <1>2, Safe, PTL DEF Spec
<1> QED
  BY <1>3 DEF OnlyAuthorised

-----------------------------------------------------------------------------
(* One polling goroutine *)

LEMMA LoopInitial == Init => LoopInv
<1> SUFFICES ASSUME Init PROVE LoopInv
  OBVIOUS
<1>1. \A l \in Loops : Idle(l)
  BY NoLoopType DEF Init, P!Init, Idle
<1>2. MainAt = "idle"
  BY NoCallType DEF Init, P!Init, MainAt, P!Procs
<1>3. phase = "boot" /\ stopCh = {} /\ up = "up" /\ cb.at = "idle"
  BY NoCallbackType DEF Init, P!Init, HandlerInit
<1> QED
  BY <1>1, <1>2, <1>3 DEF LoopInv

\* The places of the polling goroutine before and after each of its steps.
LEMMA LoopPlaces ==
  ASSUME PollType, NEW l \in Loops
  PROVE  /\ P!PollFails(l) => loop[l].at = "poll" /\ loop'[l].at = "wait"
         /\ P!PollCounts(l) => loop[l].at = "poll" /\ loop'[l].at = "counted"
         /\ P!PollRecords(l) => loop[l].at = "counted" /\ loop'[l].at = "notify"
         /\ P!Notify(l) => loop[l].at = "notify" /\ loop'[l].at = "publish"
         /\ P!Publish(l) => loop[l].at = "publish" /\ loop'[l].at = "wait"
         /\ P!Tick(l) => loop[l].at = "wait" /\ loop'[l].at = "poll"
         /\ P!LoopStops(l) => loop[l].at = "wait" /\ loop'[l].at = "none"
<1>1. loop \in [Loops -> Polling] /\ loop[l] \in Polling
  BY DEF PollType
<1>2. P!PollFails(l) => loop[l].at = "poll" /\ loop'[l].at = "wait"
  BY <1>1 DEF P!PollFails, Polling
<1>3. P!PollCounts(l) => loop[l].at = "poll" /\ loop'[l].at = "counted"
  BY <1>1 DEF P!PollCounts, Polling
<1>4. P!PollRecords(l) => loop[l].at = "counted" /\ loop'[l].at = "notify"
  BY <1>1 DEF P!PollRecords, Polling
<1>5. P!Notify(l) => loop[l].at = "notify" /\ loop'[l].at = "publish"
  BY <1>1 DEF P!Notify, Polling
<1>6. P!Publish(l) => loop[l].at = "publish" /\ loop'[l].at = "wait"
  BY <1>1, NoLoopType DEF P!Publish, Polling
<1>7. P!Tick(l) => loop[l].at = "wait" /\ loop'[l].at = "poll"
  BY <1>1 DEF P!Tick, Polling
<1>8. P!LoopStops(l) => loop[l].at = "wait" /\ loop'[l].at = "none"
  BY <1>1, NoLoopType DEF P!LoopStops
<1> QED
  BY <1>2, <1>3, <1>4, <1>5, <1>6, <1>7, <1>8

\* A step of the goroutine is a step of the only one there is.
LEMMA LoopStep ==
  ASSUME SafeInv, LoopInv, NEW l \in Loops, Poll(l) \/ Notify(l) \/ Publish(l)
  PROVE  /\ LoopInv'
         /\ \A k \in Loops \ {l} : Idle(k) /\ loop'[k] = loop[k]
         /\ ~Idle(l) /\ (cb.at # "idle" => loop[l].at = "publish")
<1> USE DEF SafeInv
<1>1. /\ loop' \in [Loops -> Polling]
      /\ \A k \in Loops \ {l} : loop'[k] = loop[k]
      /\ UNCHANGED <<phase, stopCh>>
  BY LoopTypes DEF HandlerInv, Poll, Notify, Publish
<1>2. loop[l].at # "none"
  BY LoopPlaces DEF Poll, Notify, Publish
<1>3. /\ \A k \in Loops \ {l} : Idle(k) /\ loop'[k] = loop[k]
      /\ ~Idle(l) /\ (cb.at # "idle" => loop[l].at = "publish")
  BY <1>1, <1>2 DEF LoopInv, Idle
<1>4. UNCHANGED up
  BY DEF Poll, Notify, Publish, procVars
<1>5. ASSUME P!LoopStops(l) PROVE LoopInv'
  <2>0. UNCHANGED cb
    BY <1>5, LoopPlaces DEF Poll, Notify, Publish, handlerVars
  <2>1. loop[l].at = "wait" /\ loop'[l].at = "none"
    BY <1>5, LoopPlaces
  <2>2. \A k \in Loops : Idle(k)'
    BY <1>3, <2>1 DEF Idle
  <2>3. cb'.at = "idle"
    BY <1>3, <2>0, <2>1
  <2>4. MainAt' = MainAt \/ (MainAt = "wait" /\ MainAt' = "woken")
    <3>1. P!Main \in P!Procs /\ call[P!Main] \in Calls
      BY DEF P!Procs, PollType
    <3>2. call'[P!Main] = IF P!At(P!Main, "wait") /\ P!Live = {l}
                          THEN [call[P!Main] EXCEPT !.at = "woken"] ELSE call[P!Main]
      BY <1>5, <3>1 DEF P!LoopStops
    <3> QED
      BY <3>1, <3>2 DEF MainAt, P!At, Calls
  <2> QED
    BY <1>1, <1>4, <2>2, <2>3, <2>4 DEF LoopInv
<1>6. ASSUME ~P!LoopStops(l) PROVE LoopInv'
  <2>1. UNCHANGED call
    BY <1>6 DEF Poll, Notify, Publish, P!PollFails, P!PollCounts, P!PollRecords,
        P!Notify, P!Publish, P!Tick
  <2>2. loop'[l].at # "none"
    BY <1>6, LoopPlaces DEF Poll, Notify, Publish
  <2>3. cb'.at # "idle" => loop'[l].at = "publish"
    <3>1. CASE Poll(l)
      BY <1>3, <1>6, <3>1, LoopPlaces DEF Poll, handlerVars
    <3>2. CASE Publish(l)
      BY <3>2 DEF Publish, handlerVars
    <3>3. CASE Notify(l)
      BY <3>3, LoopPlaces DEF Notify
    <3> QED
      BY <3>1, <3>2, <3>3
  <2>4. ~ (phase = "boot") /\ ~ (up = "draining") /\ ~ (phase = "ended")
        /\ ~ (MainAt \in {"woken", "set"})
        /\ ~ (MainAt \in {"idle", "stop"} /\ stopCh = {})
    BY <1>3 DEF LoopInv
  <2>5. MainAt' = MainAt
    BY <2>1 DEF MainAt
  <2>6. \A k \in Loops \ {l} : Idle(k)'
    BY <1>3 DEF Idle
  <2> QED
    BY <1>1, <1>4, <2>2, <2>3, <2>4, <2>5, <2>6 DEF LoopInv
<1> QED
  BY <1>3, <1>5, <1>6

\* Start, signal, the two stops and the end of the process.
LEMMA ProcessLoops ==
  ASSUME SafeInv, LoopInv,
         Start \/ Signal \/ StopPoller \/ StopHandler \/ Exit \/ Kill \/ Restart
  PROVE  LoopInv' /\ cb'.at \in {cb.at, "idle"}
<1> USE DEF SafeInv
<1>0. P!Main \in P!Procs /\ call \in [P!Procs -> Calls] /\ call[P!Main] \in Calls
  BY DEF P!Procs, PollType
<1>1. CASE Start
  <2>1. /\ phase = "boot" /\ phase' = "serving" /\ UNCHANGED <<call, cb>>
        /\ up = "up" /\ up' \in {"up", "draining"}
        /\ up' = "draining" => stopCh' = {}
    BY <1>1 DEF Start, P!Boot, handlerVars
  <2>2. /\ \A l \in Loops : Idle(l)
        /\ stopCh = {} /\ MainAt = "idle" /\ MainAt' = "idle" /\ cb.at = "idle"
    BY <2>1 DEF LoopInv, MainAt, Idle
  <2>3. CASE UNCHANGED <<stopCh, loop>>
    BY <2>1, <2>2, <2>3 DEF LoopInv, Idle
  <2>4. ASSUME NEW l \in Loops, P!StartLoop(l) PROVE LoopInv'
    <3>1. stopCh' = {l} /\ \A k \in Loops \ {l} : loop'[k] = loop[k]
      BY <2>4 DEF P!StartLoop, PollType
    <3>2. \A k \in Loops \ {l} : Idle(k)'
      BY <2>2, <3>1 DEF Idle
    <3> QED
      BY <2>1, <2>2, <3>1, <3>2 DEF LoopInv
  <2> QED
    BY <1>1, <2>1, <2>3, <2>4 DEF Start, P!Boot
<1>2. CASE Signal
  <2>1. /\ phase = "serving" /\ phase' = "stopping" /\ UNCHANGED <<stopCh, loop, cb, up>>
        /\ up = "up" /\ call' = [call EXCEPT ![P!Main].at = "stop"]
    BY <1>2 DEF Signal, P!Shutdown, P!Go, P!loopVars, handlerVars, procVars
  <2>2. MainAt = "idle" /\ MainAt' = "stop"
    BY <1>0, <2>1 DEF LoopInv, MainAt, Calls
  <2> QED
    BY <2>1, <2>2 DEF LoopInv, Idle
<1>3. CASE StopPoller
  <2>1. UNCHANGED <<phase, loop, cb, up>> /\ up = "up"
    BY <1>3 DEF StopPoller, P!TakeChannel, P!CloseChannel, P!Wait, P!Wake, P!loopVars,
                handlerVars, procVars
  <2>2. \/ MainAt = "stop" /\ MainAt' = "close" /\ stopCh' = {}
        \/ MainAt = "stop" /\ stopCh = {} /\ MainAt' = "set" /\ stopCh' = {}
        \/ MainAt = "close" /\ MainAt' = "closed" /\ stopCh' = stopCh
        \/ MainAt = "closed" /\ MainAt' = "wait" /\ stopCh' = stopCh
        \/ MainAt = "closed" /\ P!Live = {} /\ MainAt' = "set" /\ stopCh' = stopCh
        \/ MainAt = "woken" /\ MainAt' = "set" /\ stopCh' = stopCh
    <3>1. CASE P!TakeChannel(P!Main)
      BY <1>0, <3>1 DEF P!TakeChannel, P!At, MainAt, Calls
    <3>2. CASE P!CloseChannel(P!Main)
      BY <1>0, <3>2 DEF P!CloseChannel, P!Go, P!At, MainAt, Calls
    <3>3. CASE P!Wait(P!Main)
      <4> DEFINE a == IF P!Live = {} THEN "set" ELSE "wait"
      <4>1. /\ MainAt = "closed" /\ stopCh' = stopCh
            /\ call' = [call EXCEPT ![P!Main].at = a]
        BY <3>3 DEF P!Wait, P!Go, P!At, MainAt
      <4> HIDE DEF a
      <4>2. MainAt' = a
        BY <1>0, <4>1 DEF MainAt, Calls
      <4> QED
        BY <4>1, <4>2 DEF a
    <3>4. CASE P!Wake(P!Main)
      BY <1>0, <3>4 DEF P!Wake, P!Go, P!At, MainAt, Calls
    <3> QED
      BY <1>3, <3>1, <3>2, <3>3, <3>4 DEF StopPoller
  <2>3. P!Live = {} => \A l \in Loops : Idle(l)
    BY DEF P!Live, Idle
  <2>4. phase = "stopping"
    BY <2>2 DEF LoopInv
  <2> HIDE DEF MainAt
  <2> QED
    BY <2>1, <2>2, <2>3, <2>4 DEF LoopInv, Idle
<1>4. CASE StopHandler
  <2>1. /\ MainAt = "set" /\ phase' = "ended" /\ UNCHANGED <<stopCh, loop, cb>>
        /\ up' = "draining" /\ call' = [call EXCEPT ![P!Main] = P!NoCall]
    BY <1>4 DEF StopHandler, P!Ended, P!At, P!loopVars, handlerVars, MainAt
  <2>2. MainAt' = "idle"
    BY <1>0, <2>1, NoCallType DEF MainAt
  <2> QED
    BY <2>1, <2>2 DEF LoopInv, Idle
<1>5. CASE Exit \/ Kill
  <2>1. /\ phase' = "boot" /\ up' = "off" /\ stopCh' = {}
        /\ loop' = [l \in Loops |-> P!NoLoop] /\ call' = [c \in P!Procs |-> P!NoCall]
    BY <1>5 DEF Exit, Kill, Forget
  <2>2. MainAt' = "idle" /\ \A l \in Loops : Idle(l)'
    BY <1>0, <2>1, NoCallType, NoLoopType DEF MainAt, Idle
  <2>3. cb'.at = "idle"
    <3>1. CASE Kill
      BY <3>1, NoCallbackType DEF Kill
    <3>2. CASE Exit
      BY <3>2 DEF Exit, handlerVars, LoopInv, Idle
    <3> QED
      BY <1>5, <3>1, <3>2
  <2> QED
    BY <2>1, <2>2, <2>3 DEF LoopInv
<1>6. CASE Restart
  <2>1. /\ up = "off" /\ up' = "up" /\ UNCHANGED <<phase, stopCh, loop, call, cb>>
    BY <1>6 DEF Restart, pollerVars
  <2> QED
    BY <2>1 DEF LoopInv, Idle, MainAt
<1> QED
  BY <1>1, <1>2, <1>3, <1>4, <1>5, <1>6

\* Whatever happens, there is one polling goroutine at most.
LEMMA LoopInvStep ==
  ASSUME SafeInv, LoopInv, [Next]_vars
  PROVE  LoopInv'
<1>1. CASE Start \/ Signal \/ StopPoller \/ StopHandler \/ Exit \/ Kill \/ Restart
  BY <1>1, ProcessLoops
<1>2. CASE \E l \in Loops : Poll(l) \/ Notify(l) \/ Publish(l)
  BY <1>2, LoopStep
<1>3. CASE /\ UNCHANGED <<phase, up, loop, stopCh, call>>
           /\ cb'.at = "idle" \/ cb.at # "idle" \/ cb' = cb
  BY <1>3 DEF LoopInv, Idle, MainAt
<1>4. CASE Callback
  <2>1. UNCHANGED <<phase, up, loop, stopCh, call>>
    BY <1>4 DEF Callback, pollerVars, procVars
  <2>2. cb'.at = "idle" \/ cb.at # "idle"
    BY <1>4, NoCallbackType DEF Callback, List, LoadContacts, Skip, Submit, EndCallback,
                                CallbackFails, MessageFails
  <2> QED
    BY <1>3, <2>1, <2>2
<1>5. CASE (\E m \in Mails : Work(m)) \/ Owner \/ Mailbox \/ UNCHANGED vars
  BY <1>3, <1>5 DEF Work, WorkerEnds, Owner, EditContact, Mailbox, Deliver, MarkRead,
    MarkUnread, P!MailChanges, P!loopVars, pollerVars, procVars, handlerVars, vars
<1> QED
  BY <1>1, <1>2, <1>4, <1>5 DEF Next

-----------------------------------------------------------------------------
(* Nothing is acted on twice *)

\* Nothing is acted on that has not come in.
LEMMA CoversAll ==
  ASSUME TypeInv
  PROVE  Covers(Len(mail), Cardinality(unread))
<1>1. Len(mail) \in 0..Len(mail)
  BY UnreadFinite
<1>a. \A u \in unread : u <= Len(mail)
  BY UnreadFinite DEF TypeInv
<1>2. {u \in unread : u <= Len(mail)} = unread
  BY <1>a
<1>3. Cardinality(unread) <= Cardinality(unread)
  BY UnreadFinite
<1> QED
  BY <1>1, <1>2, <1>3 DEF Covers, TypeInv

\* Of the unread messages, those up to k and those beyond.
LEMMA SplitUnread ==
  ASSUME TypeInv, NEW k \in Nat
  PROVE  /\ IsFiniteSet({u \in unread : u <= k}) /\ IsFiniteSet({u \in unread : u > k})
         /\ Cardinality({u \in unread : u <= k}) \in Nat
         /\ Cardinality({u \in unread : u > k}) \in Nat
         /\ Cardinality(unread) = Cardinality({u \in unread : u <= k})
                                  + Cardinality({u \in unread : u > k})
<1> DEFINE A == {u \in unread : u <= k}
           B == {u \in unread : u > k}
<1>1. IsFiniteSet(unread) /\ unread \subseteq Nat
  BY UnreadFinite DEF TypeInv
<1>a. \A u \in unread : (u <= k) <=> ~(u > k)
  BY <1>1
<1>2. A \cup B = unread /\ A \cap B = {}
  BY <1>a
<1>3. A \subseteq unread /\ B \subseteq unread
  OBVIOUS
<1> HIDE DEF A, B
<1>4. IsFiniteSet(A) /\ IsFiniteSet(B)
  BY <1>1, <1>3, FS_Subset
<1>5. Cardinality(A) \in Nat /\ Cardinality(B) \in Nat
  BY <1>4, FS_CardinalityType
<1>6. Cardinality(A \cup B) = Cardinality(A) + Cardinality(B) - Cardinality(A \cap B)
  BY <1>4, FS_Union
<1>7. Cardinality(A \cap B) = 0
  BY <1>2, FS_EmptySet
<1>b. Cardinality(unread) = Cardinality(A \cup B)
  BY <1>2
<1>8. Cardinality(unread) = Cardinality(A) + Cardinality(B)
  BY <1>5, <1>6, <1>7, <1>b
<1> QED
  BY <1>4, <1>5, <1>8 DEF A, B

\* A window of c messages does not reach back to what was acted on, if all
\* but c of the unread messages cover that.
LEMMA NewestBeyond ==
  ASSUME TypeInv, NEW k, NEW c \in Nat, Covers(k, Cardinality(unread) - c),
         NEW u \in Newest(unread, c)
  PROVE  u > k
<1>1. k \in Nat /\ u \in unread /\ u \in Nat /\ unread \subseteq Nat
  BY UnreadFinite DEF Covers, Newest, TypeInv
<1>2. Cardinality({v \in unread : v > u}) < c
  BY DEF Newest
<1>3. SUFFICES ASSUME u <= k PROVE FALSE
  BY <1>1
<1> DEFINE A == {v \in unread : v <= k}
           B == {v \in unread : v > k}
           C == {v \in unread : v > u}
<1>a. \A v \in unread : v > k => v > u
  BY <1>1, <1>3
<1>4. B \subseteq C
  BY <1>a
<1>b. /\ Cardinality(A) \in Nat /\ Cardinality(B) \in Nat
      /\ Cardinality(unread) = Cardinality(A) + Cardinality(B)
  BY <1>1, SplitUnread
<1>c. IsFiniteSet(C) /\ Cardinality(C) \in Nat
  BY <1>1, SplitUnread
<1>6. Cardinality(A) <= Cardinality(unread) - c
  BY DEF Covers
<1>7. Cardinality(C) < c
  BY <1>2
<1> HIDE DEF A, B, C
<1>5. Cardinality(B) <= Cardinality(C)
  BY <1>4, <1>c, FS_Subset
<1> QED
  BY <1>5, <1>6, <1>7, <1>b, <1>c

LEMMA CountInitial == Init => CountInv /\ AtMostOnce
<1> SUFFICES ASSUME Init PROVE CountInv /\ AtMostOnce
  OBVIOUS
<1>1. \A l \in Loops : loop[l].at = "none"
  BY NoLoopType DEF Init, P!Init
<1>2. ~known /\ ~checked /\ cb.at = "idle" /\ cb.todo = {}
  BY NoCallbackType DEF Init, P!Init, HandlerInit
<1>3. \A m \in Mails : runs[m] <= 1
  BY DEF Init, HandlerInit
<1> QED
  BY <1>1, <1>2, <1>3 DEF CountInv, AtMostOnce

\* The end of the process forgets the count; a new one trusts none before its
\* first poll.
LEMMA CountForgotten ==
  ASSUME IInv, Exit \/ Kill
  PROVE  CountInv' /\ AtMostOnce'
<1>1. /\ loop' = [l \in Loops |-> P!NoLoop] /\ known' = FALSE /\ checked' = FALSE
      /\ UNCHANGED runs
  BY DEF Exit, Kill, Forget, handlerVars
<1>2. \A l \in Loops : loop'[l].at = "none"
  BY <1>1, NoLoopType
<1>3. cb'.at = "idle" /\ cb'.todo = {}
  <2>1. CASE Kill
    BY <2>1, NoCallbackType DEF Kill
  <2>2. CASE Exit
    <3>1. cb.at = "idle" /\ UNCHANGED cb
      BY <2>2 DEF Exit, handlerVars, IInv, LoopInv, Idle
    <3> QED
      BY <3>1 DEF IInv, SafeInv, HandlerInv, TypeInv
  <2> QED
    BY <2>1, <2>2
<1> QED
  BY <1>1, <1>2, <1>3 DEF CountInv, AtMostOnce, IInv

\* Counting, recording and waiting.
LEMMA CountPolled ==
  ASSUME IInv, "pollfail" \notin Disturb, NEW l \in Loops, Poll(l)
  PROVE  CountInv' /\ AtMostOnce'
<1> USE DEF IInv
<1>1. UNCHANGED <<mail, unread, runs, cb, unseen, phase>>
  BY LoopTypes DEF Poll, handlerVars, SafeInv, HandlerInv
<1>2. /\ \A k \in Loops \ {l} : loop[k].at = "none" /\ loop'[k] = loop[k]
      /\ cb.at # "idle" => loop[l].at = "publish"
  BY LoopStep DEF Idle
<1>3. loop[l] \in Polling /\ loop \in [Loops -> Polling]
  BY DEF SafeInv, PollType
<1>4. AtMostOnce'
  BY <1>1 DEF AtMostOnce
<1>5. \A k, n : Covers(k, n)' <=> Covers(k, n)
  BY <1>1 DEF Covers
<1>6. CASE P!PollCounts(l)
  <2>1. /\ loop[l].at = "poll" /\ loop'[l].at = "counted" /\ loop'[l].seen = unseen
        /\ UNCHANGED <<lastSeen, checked, known>>
    BY <1>3, <1>6 DEF P!PollCounts, P!pollVars, Polling
  <2> QED
    BY <1>1, <1>2, <1>4, <1>5, <2>1 DEF CountInv
<1>7. CASE P!PollRecords(l)
  <2>1. /\ loop[l].at = "counted" /\ loop'[l].at = "notify" /\ loop'[l].seen = loop[l].seen
        /\ loop'[l].first = ~checked /\ loop'[l].prev = lastSeen
        /\ lastSeen' = loop[l].seen /\ known' = TRUE /\ UNCHANGED checked
    BY <1>3, <1>7 DEF P!PollRecords, Polling
  <2>2. cb.at = "idle"
    BY <1>2, <2>1
  <2>3. checked => \E k \in 0..Len(mail) : Covers(k, lastSeen)
    BY <1>2, <2>1, <2>2 DEF CountInv
  <2> QED
    BY <1>1, <1>2, <1>4, <1>5, <2>1, <2>2, <2>3 DEF CountInv
<1>8. CASE P!Tick(l)
  <2>1. loop[l].at = "wait" /\ loop'[l].at = "poll" /\ UNCHANGED <<lastSeen, checked, known>>
    BY <1>3, <1>8 DEF P!Tick, P!pollVars, Polling
  <2> QED
    BY <1>1, <1>2, <1>4, <1>5, <2>1 DEF CountInv
<1>9. CASE P!LoopStops(l)
  <2>1. /\ loop[l].at = "wait" /\ loop'[l].at = "none"
        /\ UNCHANGED <<lastSeen, checked, known>>
    BY <1>3, <1>9, NoLoopType DEF P!LoopStops, P!pollVars, Polling
  <2> QED
    BY <1>1, <1>2, <1>4, <1>5, <2>1 DEF CountInv
<1> QED
  BY <1>6, <1>7, <1>8, <1>9 DEF Poll

\* The callback is told how far the count has risen; it then has to reach no
\* further back than to what came in since the count before.
LEMMA CountNotified ==
  ASSUME IInv, NEW l \in Loops, Notify(l)
  PROVE  CountInv' /\ AtMostOnce'
<1> USE DEF IInv
<1>1. /\ UNCHANGED <<mail, unread, runs, unseen, lastSeen, checked, known>>
      /\ loop[l].at = "notify" /\ loop'[l].at = "publish"
  <2>1. UNCHANGED <<mail, unread, runs>>
    BY DEF Notify, BeginCallback, handlerVars, boxVars, workVars
  <2> QED
    BY <2>1, LoopPlaces DEF Notify, P!Notify, SafeInv
<1>2. /\ \A k \in Loops \ {l} : loop[k].at = "none" /\ loop'[k] = loop[k]
      /\ cb.at = "idle"
  BY <1>1, LoopStep DEF Idle
<1>3. /\ loop[l].seen = unseen /\ lastSeen = unseen /\ unseen = Cardinality(unread)
      /\ loop[l].first \/ \E k \in 0..Len(mail) : Covers(k, loop[l].prev)
  BY <1>1 DEF CountInv, SafeInv, PollType
<1>4. AtMostOnce'
  BY <1>1 DEF AtMostOnce
<1>5. \A k, n : Covers(k, n)' <=> Covers(k, n)
  BY <1>1 DEF Covers
<1>6. known /\ cb.todo = {}
  BY <1>1, <1>2 DEF CountInv, SafeInv, HandlerInv, TypeInv
<1>7. CASE ~P!Prompts(l)
  <2>1. UNCHANGED cb
    BY <1>7 DEF Notify, handlerVars
  <2>2. Len(mail) \in 0..Len(mail) /\ Covers(Len(mail), lastSeen)
    BY <1>3, CoversAll, UnreadFinite DEF SafeInv, HandlerInv
  <2> QED
    BY <1>1, <1>2, <1>4, <1>5, <1>6, <2>1, <2>2 DEF CountInv
<1>8. CASE P!Prompts(l)
  <2>1. /\ loop[l].seen \in Nat /\ loop[l].prev \in Nat /\ unseen \in Nat
        /\ ~loop[l].first /\ loop[l].seen > loop[l].prev
    BY <1>3, <1>8 DEF P!Prompts, SafeInv, PollType, Polling
  <2> DEFINE n == loop[l].seen - loop[l].prev
  <2>2. n \in Nat /\ BeginCallback(n)
    BY <1>8, <2>1 DEF Notify
  <2>3. cb'.at = "list" /\ cb'.todo = {} /\ cb'.count = IF n > FetchCap THEN FetchCap ELSE n
    BY <2>2, BeginType DEF SafeInv, HandlerInv
  <2>4. cb'.count \in Nat /\ cb'.count <= n
    BY <2>2, <2>3, HandlerAssumption
  <2>5. loop[l].prev <= unseen - cb'.count
    BY <1>3, <2>1, <2>4
  <2>6. PICK k \in 0..Len(mail) : Covers(k, loop[l].prev)
    BY <1>3, <2>1
  <2>7. Covers(k, unseen - cb'.count)
    <3>1. Cardinality({u \in unread : u <= k}) \in Nat
      <4>1. k \in Nat /\ TypeInv
        BY UnreadFinite DEF SafeInv, HandlerInv
      <4> QED
        BY <4>1, SplitUnread
    <3> QED
      BY <2>1, <2>4, <2>5, <2>6, <3>1 DEF Covers
  <2>8. cb'.at = "list" => lastSeen' = unseen' /\ \E j \in 0..Len(mail)' : Covers(j, unseen - cb.count)'
    <3>1. Covers(k, unseen - cb.count)'
      BY <1>1, <2>7 DEF Covers
    <3> QED
      BY <1>1, <1>3, <3>1
  <2> QED
    BY <1>1, <1>2, <1>4, <1>6, <2>3, <2>8 DEF CountInv
<1> QED
  BY <1>7, <1>8

\* The poll is over.
LEMMA CountPublished ==
  ASSUME IInv, NEW l \in Loops, Publish(l)
  PROVE  CountInv' /\ AtMostOnce'
<1> USE DEF IInv
<1>1. /\ UNCHANGED <<mail, unread, runs, cb, unseen, lastSeen, known>> /\ checked' = TRUE
      /\ loop[l].at = "publish" /\ loop'[l].at = "wait"
  BY LoopPlaces DEF Publish, P!Publish, handlerVars, SafeInv
<1>2. \A k \in Loops \ {l} : loop[k].at = "none" /\ loop'[k] = loop[k]
  BY LoopStep DEF Idle
<1>3. known
  BY <1>1 DEF CountInv
<1>4. AtMostOnce'
  BY <1>1 DEF AtMostOnce
<1>5. \A k, n : Covers(k, n)' <=> Covers(k, n)
  BY <1>1 DEF Covers
<1> QED
  BY <1>1, <1>2, <1>3, <1>4, <1>5 DEF CountInv

\* What a callback lists has not been acted on; what it acts on is off its list.
LEMMA CountCallback ==
  ASSUME IInv, Callback
  PROVE  CountInv' /\ AtMostOnce'
<1> USE DEF IInv
<1>1. UNCHANGED <<mail, unread, unseen, lastSeen, checked, known, loop>>
  BY CallbackSafe DEF Callback, pollerVars, SafeInv
<1>2. TypeInv /\ unseen = Cardinality(unread) /\ Len(mail) \in 0..Len(mail)
  BY UnreadFinite DEF SafeInv, HandlerInv, PollType
<1>3. Covers(Len(mail), unseen)
  BY <1>2, CoversAll
<1>4. cb.at # "idle"
  BY DEF Callback, List, LoadContacts, Skip, Submit, EndCallback, CallbackFails,
         MessageFails
<1>5. \A l \in Loops : loop[l].at \in {"none", "publish"}
  BY <1>4 DEF LoopInv, Idle
<1>6. CASE List
  <2>1. cb' = [cb EXCEPT !.at = "contacts", !.todo = Newest(unread, cb.count)]
    BY <1>6 DEF List
  <2>2. cb.at = "list" /\ runs' = runs
    BY <1>6 DEF List, workVars
  <2>3. cb'.at = "contacts" /\ cb'.todo = Newest(unread, cb.count)
    BY <1>2, <2>1 DEF TypeInv
  <2>4. PICK k \in 0..Len(mail) : Covers(k, unseen - cb.count)
    BY <2>2 DEF CountInv
  <2>5. \A u \in cb'.todo : runs[u] = 0
    <3> SUFFICES ASSUME NEW u \in Newest(unread, cb.count) PROVE runs[u] = 0
      BY <2>3
    <3>1. cb.count \in Nat /\ u \in unread
      BY <1>2 DEF TypeInv, Newest
    <3>2. u > k
      BY <1>2, <2>4, <3>1, NewestBeyond
    <3>3. u \in Mails /\ u \in Nat /\ k \in Nat
      <4>1. Len(mail) \in Nat /\ Len(mail) <= MaxMail /\ MaxMail \in Nat /\ u \in 1..Len(mail)
        BY <1>2, <3>1, HandlerAssumption DEF TypeInv
      <4> QED
        BY <4>1 DEF Mails
    <3>4. runs[u] \in Nat
      BY <1>2, <3>3 DEF TypeInv
    <3>5. ~ (runs[u] > 0)
      BY <2>4, <3>2, <3>3 DEF Covers
    <3> QED
      BY <3>4, <3>5
  <2>6. cb'.todo \subseteq 1..Len(mail)
    BY <1>2, <2>3 DEF Newest, TypeInv
  <2>7. lastSeen = unseen
    BY <2>2 DEF CountInv
  <2>8. Covers(Len(mail), lastSeen)'
    BY <1>1, <1>3, <2>2, <2>7 DEF Covers
  <2>9. CountInv'
    BY <1>1, <1>2, <1>5, <2>2, <2>3, <2>5, <2>6, <2>8 DEF CountInv
  <2> QED
    BY <2>2, <2>9 DEF AtMostOnce
<1>7. CASE LoadContacts
  <2>1. /\ cb.at = "contacts" /\ cb'.at = "gate" /\ cb'.todo = cb.todo
        /\ runs' = runs
    BY <1>2, <1>7 DEF LoadContacts, workVars, TypeInv
  <2>2. \A k, n : Covers(k, n)' <=> Covers(k, n)
    BY <1>1, <2>1 DEF Covers
  <2> QED
    BY <1>1, <1>5, <2>1, <2>2 DEF CountInv, AtMostOnce
<1>8. CASE EndCallback \/ CallbackFails
  <2>1. cb'.at = "idle" /\ cb'.todo = {} /\ runs' = runs
    BY <1>8, NoCallbackType DEF EndCallback, CallbackFails, workVars
  <2>2. \A k, n : Covers(k, n)' <=> Covers(k, n)
    BY <1>1, <2>1 DEF Covers
  <2>3. known => \E k \in 0..Len(mail) : Covers(k, lastSeen)
    <3>1. CASE cb.at = "list"
      BY <1>2, <1>3, <3>1 DEF CountInv
    <3>2. CASE cb.at # "list"
      BY <1>5, <3>2 DEF CountInv
    <3> QED
      BY <3>1, <3>2
  <2> QED
    BY <1>1, <1>5, <2>1, <2>2, <2>3 DEF CountInv, AtMostOnce
<1>9. CASE Skip \/ MessageFails \/ Submit
  <2>1. cb.at = "gate" /\ cb.todo # {} /\ NextMessage
    BY <1>9 DEF Skip, MessageFails, Submit
  <2> DEFINE m == Min(cb.todo)
  <2>2. m \in cb.todo /\ m \in Mails /\ cb'.at = "gate" /\ cb'.todo = cb.todo \ {m}
    BY <1>2, <2>1, NextType
  <2>3. runs' = runs \/ runs' = [runs EXCEPT ![m] = @ + 1]
    BY <1>9 DEF Skip, MessageFails, Submit, workVars
  <2> HIDE DEF m
  <2>4. runs \in [Mails -> Nat] /\ runs[m] = 0
    BY <1>2, <2>2 DEF TypeInv, CountInv
  <2>5. /\ \A i \in Mails : i # m => runs'[i] = runs[i]
        /\ runs'[m] \in {0, 1}
    BY <2>2, <2>3, <2>4
  <2>6. AtMostOnce'
    BY <2>5 DEF AtMostOnce
  <2>7. \A u \in cb'.todo : runs'[u] = 0
    <3>1. \A u \in cb'.todo : u \in cb.todo /\ u # m /\ u \in Mails
      BY <1>2, <2>2 DEF TypeInv
    <3> QED
      BY <2>5, <3>1 DEF CountInv
  <2>8. known => \E k \in 0..Len(mail) : Covers(k, lastSeen) /\ cb.todo \subseteq 1..k
    BY <1>5, <2>1 DEF CountInv
  <2>9. \A k \in 0..Len(mail) : Covers(k, lastSeen) /\ cb.todo \subseteq 1..k
                                  => Covers(k, lastSeen)' /\ cb'.todo \subseteq 1..k
    <3> SUFFICES ASSUME NEW k \in 0..Len(mail), Covers(k, lastSeen), cb.todo \subseteq 1..k
                 PROVE  Covers(k, lastSeen)' /\ cb'.todo \subseteq 1..k
      OBVIOUS
    <3>1. m <= k
      BY <2>2
    <3>2. \A i \in Mails : runs'[i] > 0 => i <= k
      BY <2>5, <3>1 DEF Covers
    <3> QED
      BY <1>1, <2>2, <3>2 DEF Covers
  <2>10. known => \E k \in 0..Len(mail) : Covers(k, lastSeen)' /\ cb'.todo \subseteq 1..k
    BY <2>8, <2>9
  <2> QED
    BY <1>1, <1>5, <2>1, <2>2, <2>6, <2>7, <2>10 DEF CountInv
<1> QED
  BY <1>6, <1>7, <1>8, <1>9 DEF Callback

\* A change of the mailbox, while no count is under way: mail comes in beyond
\* what the count covers, and read mail needs no covering.
LEMMA CountMailbox ==
  ASSUME IInv, {"window", "unread"} \cap Disturb = {}, Mailbox
  PROVE  CountInv' /\ AtMostOnce'
<1> USE DEF IInv
<1>1. UNCHANGED <<cb, runs, lastSeen, checked, known, loop>>
  BY DEF Mailbox, Deliver, MarkRead, MarkUnread, workVars, P!MailChanges, P!loopVars
<1>2. /\ cb.at # "list"
      /\ \A l \in Loops : loop[l].at # "counted" /\ loop[l].at # "notify"
  BY DEF Mailbox, Window
<1>3. TypeInv /\ TypeInv' /\ Len(mail) \in Nat
  BY MailboxSafe, UnreadFinite DEF SafeInv, HandlerInv
<1>4. /\ Len(mail') \in Nat /\ Len(mail) <= Len(mail')
      /\ \A u \in unread' : u \in unread \/ u > Len(mail)
  <2>1. ASSUME NEW s \in Senders, NEW seal \in Seals, Deliver(s, seal)
        PROVE  /\ Len(mail') \in Nat /\ Len(mail) <= Len(mail')
               /\ \A u \in unread' : u \in unread \/ u > Len(mail)
    <3> DEFINE r == [from |-> s, seal |-> seal]
    <3>1. mail' = Append(mail, r) /\ unread' = unread \cup {Len(mail) + 1}
      BY <2>1 DEF Deliver
    <3>2. r \in [from : Senders, seal : Seals] /\ mail \in Seq([from : Senders, seal : Seals])
      BY <1>3 DEF TypeInv
    <3> HIDE DEF r
    <3>3. Len(mail') = Len(mail) + 1
      BY <3>1, <3>2
    <3> QED
      BY <1>3, <3>1, <3>3
  <2>2. ASSUME NEW m \in Mails, MarkRead(m)
        PROVE  /\ Len(mail') \in Nat /\ Len(mail) <= Len(mail')
               /\ \A u \in unread' : u \in unread \/ u > Len(mail)
    BY <1>3, <2>2 DEF MarkRead
  <2> QED
    BY <2>1, <2>2 DEF Mailbox
<1>5. \A k \in 0..Len(mail), n \in Nat : Covers(k, n) => Covers(k, n)'
  <2> SUFFICES ASSUME NEW k \in 0..Len(mail), NEW n \in Nat, Covers(k, n)
               PROVE  Covers(k, n)'
    OBVIOUS
  <2> DEFINE A == {u \in unread : u <= k}
             B == {u \in unread' : u <= k}
  <2>1. k \in Nat /\ k \in 0..Len(mail')
    BY <1>3, <1>4
  <2>a. \A u \in unread' : u <= k => u \in unread
    <3>1. unread' \subseteq Nat
      BY <1>3 DEF TypeInv
    <3> QED
      BY <1>3, <1>4, <3>1
  <2>2. B \subseteq A
    BY <2>a
  <2>3. IsFiniteSet(A) /\ Cardinality(A) \in Nat /\ Cardinality(A) <= n
    BY <1>3, <2>1, SplitUnread DEF Covers
  <2> HIDE DEF A, B
  <2>4. IsFiniteSet(B) /\ Cardinality(B) <= Cardinality(A)
    BY <2>2, <2>3, FS_Subset
  <2>5. Cardinality(B) \in Nat
    BY <2>4, FS_CardinalityType
  <2>6. Cardinality(B) <= n
    BY <2>3, <2>4, <2>5
  <2> QED
    BY <1>1, <2>1, <2>6 DEF Covers, B
<1>6. 0..Len(mail) \subseteq 0..Len(mail') /\ lastSeen \in Nat
  BY <1>3, <1>4 DEF SafeInv, PollType
<1>7. CountInv'
  BY <1>1, <1>2, <1>5, <1>6 DEF CountInv
<1> QED
  BY <1>1, <1>7 DEF AtMostOnce

\* The steps that touch neither the count nor the mailbox nor a callback.
LEMMA CountElsewhere ==
  ASSUME IInv, Start \/ Signal \/ StopPoller \/ StopHandler \/ Restart \/ Owner
               \/ (\E m \in Mails : Work(m)) \/ UNCHANGED vars
  PROVE  CountInv' /\ AtMostOnce'
<1> USE DEF IInv
<1>1. UNCHANGED <<mail, unread, runs, cb, unseen, lastSeen, checked, known>>
  BY DEF Start, Signal, StopPoller, StopHandler, Restart, Owner, EditContact, Work,
    WorkerEnds, P!Boot, P!Shutdown, P!Ended, P!TakeChannel, P!CloseChannel, P!Wait, P!Wake,
    P!loopVars, P!pollVars, pollerVars, handlerVars, boxVars, workVars, vars
<1>2. \/ UNCHANGED loop
      \/ /\ \A l \in Loops : loop[l].at = "none"
         /\ \A l \in Loops : loop'[l].at \in {"none", "poll"}
  <2>1. CASE Start
    <3>1. \A l \in Loops : loop[l].at = "none"
      BY <2>1 DEF Start, P!Boot, LoopInv, Idle
    <3>2. ASSUME NEW l \in Loops, P!StartLoop(l)
          PROVE  \A k \in Loops : loop'[k].at \in {"none", "poll"}
      <4> DEFINE r == [P!NoLoop EXCEPT !.at = "poll", !.every = raw']
      <4>1. loop' = [loop EXCEPT ![l] = r] /\ loop \in [Loops -> Polling]
        BY <3>2 DEF P!StartLoop, SafeInv, PollType
      <4>2. r.at = "poll"
        BY DEF P!NoLoop
      <4> HIDE DEF r
      <4> QED
        BY <3>1, <4>1, <4>2
    <3> QED
      BY <2>1, <3>1, <3>2 DEF Start, P!Boot
  <2>2. CASE ~Start
    BY <2>2 DEF Signal, StopPoller, StopHandler, Restart, Owner, Work,
      P!Shutdown, P!Ended, P!TakeChannel, P!CloseChannel, P!Wait, P!Wake,
      P!loopVars, pollerVars, vars
  <2> QED
    BY <2>1, <2>2
<1>3. \A k, n : Covers(k, n)' <=> Covers(k, n)
  BY <1>1 DEF Covers
<1>4. CountInv'
  <2>1. CASE UNCHANGED loop
    BY <1>1, <1>3, <2>1 DEF CountInv
  <2>2. CASE /\ \A l \in Loops : loop[l].at = "none"
             /\ \A l \in Loops : loop'[l].at \in {"none", "poll"}
    BY <1>1, <1>3, <2>2 DEF CountInv
  <2> QED
    BY <1>2, <2>1, <2>2
<1> QED
  BY <1>1, <1>4 DEF AtMostOnce

\* In a mailbox that stands still from count to list (no "window"), with no
\* mail marked unread again and no failing poll, no message is ever handed out
\* twice, however many arrive, are read, fail or are dropped, and however often
\* the daemon is signalled, killed and started again: the difference of two
\* counts that handler.go is given is enough to tell new mail from old, although
\* it keeps no record of what it has done.
THEOREM NothingTwice ==
  ASSUME {"window", "unread", "pollfail"} \cap Disturb = {}
  PROVE  Spec => []AtMostOnce
<1>1. Init => IInv
  BY HandlerInitial, PollTypeInitial, LoopInitial, CountInitial DEF IInv, SafeInv
<1>2. IInv /\ [Next]_vars => IInv'
  <2> SUFFICES ASSUME IInv, [Next]_vars PROVE IInv'
    OBVIOUS
  <2>1. SafeInv'
    BY HandlerStep, PollTypeStep DEF IInv, SafeInv, HandlerInv
  <2>2. LoopInv'
    BY LoopInvStep DEF IInv
  <2>3. CountInv' /\ AtMostOnce'
    <3>1. CASE Exit \/ Kill
      BY <3>1, CountForgotten
    <3>2. CASE \E l \in Loops : Poll(l) \/ Notify(l) \/ Publish(l)
      BY <3>2, CountPolled, CountNotified, CountPublished
    <3>3. CASE Callback
      BY <3>3, CountCallback
    <3>4. CASE Mailbox
      BY <3>4, CountMailbox
    <3>5. CASE Start \/ Signal \/ StopPoller \/ StopHandler \/ Restart \/ Owner
               \/ (\E m \in Mails : Work(m)) \/ UNCHANGED vars
      BY <3>5, CountElsewhere
    <3> QED
      BY <3>1, <3>2, <3>3, <3>4, <3>5 DEF Next
  <2> QED
    BY <2>1, <2>2, <2>3 DEF IInv
<1>3. IInv => AtMostOnce
  BY DEF IInv
<1> QED
  BY <1>1, <1>2, <1>3, PTL DEF Spec

-----------------------------------------------------------------------------
(***************************************************************************)
(* The other user of the poller, the MCP server: there set_poll_interval   *)
(* stops and restarts it while it polls.  The same module Poller.tla, with *)
(* callers, any intervals and any counts.                                  *)
(***************************************************************************)
CONSTANTS
  Clients,    \* callers of set_poll_interval
  Settings,   \* intervals other than "n"
  Unreads     \* unread counts

M == INSTANCE Poller WITH Callers <- Clients, Slots <- Loops,
                          Intervals <- Settings, Counts <- Unreads

\* One call at a time; "n" is no interval and main no client.
Sequential ==
  /\ \A c, d \in Clients : c = d
  /\ M!Main \notin Clients /\ "n" \notin Settings /\ 0 \in Unreads

Setting == Settings \cup {"n"}
Goroutine ==
  [at : {"none", "poll", "counted", "notify", "publish", "wait"},
   first : BOOLEAN, prev : Unreads, seen : Unreads, every : Setting]
Request ==
  [at : {"idle", "stop", "close", "closed", "wait", "woken", "set", "start"},
   want : Setting, ch : SUBSET Loops]

SetType ==
  /\ phase \in {"boot", "serving", "stopping", "ended"}
  /\ loop \in [Loops -> Goroutine]
  /\ call \in [M!Procs -> Request]
  /\ config \in Setting /\ raw \in Setting /\ stopCh \subseteq Loops
  /\ lastSeen \in Unreads /\ unseen \in Unreads /\ checked \in BOOLEAN

\* No goroutine and nothing that could stop one; or one, which Stop would stop.
Free == stopCh = {} /\ M!Live = {} /\ closed = {}
Held(l) == stopCh = {l} /\ M!Live = {l} /\ closed = {}
Off(c) == call[c].at = "idle"

\* What is left of the goroutine when a call has come to each of its places:
\* from taking the channel to the return of wg.Wait it goes from one, held by
\* the call alone, to none.
CallInv(c) ==
  /\ call[c].at = "stop" => Free \/ \E l \in Loops : Held(l)
  /\ call[c].at = "close" => /\ stopCh = {} /\ closed = {}
                             /\ \E l \in Loops : call[c].ch = {l} /\ M!Live = {l}
  /\ call[c].at = "closed" => /\ stopCh = {}
                              /\ \/ M!Live = {} /\ closed = {}
                                 \/ \E l \in Loops : M!Live = {l} /\ closed = {l}
  /\ call[c].at = "wait" => /\ stopCh = {}
                            /\ \E l \in Loops : M!Live = {l} /\ closed = {l}
  /\ call[c].at \in {"woken", "set", "start"} => Free
  /\ call[c].at = "start" => raw = config /\ raw # "n" /\ c # M!Main

\* The calls in progress, the phase of the server, and between calls the
\* poller as it was last set.
PhaseInv ==
  /\ ~panicked
  /\ \A c, d \in M!Procs : ~Off(c) /\ ~Off(d) => c = d
  /\ ~Off(M!Main) <=> phase = "stopping"
  /\ \A c \in Clients : ~Off(c) => phase = "serving" /\ call[c].want = config
  /\ phase = "boot" => Free /\ raw = "n"
  /\ phase = "ended" => Free
  /\ phase = "serving" /\ (\A c \in M!Procs : Off(c)) =>
       \/ raw = "n" /\ Free
       \/ raw = config /\ raw # "n" /\ \E l \in Loops : Held(l) /\ loop[l].every = raw

SetInv == SetType /\ PhaseInv /\ \A c \in M!Procs : CallInv(c)

\* The empty slot, the call that is not there.
LEMMA SetBlank ==
  ASSUME Sequential
  PROVE  /\ M!NoLoop \in Goroutine /\ M!NoLoop.at = "none"
         /\ M!NoCall \in Request /\ M!NoCall.at = "idle"
BY DEF M!NoLoop, M!NoCall, Goroutine, Request, Setting, Sequential

LEMMA SetInitial ==
  ASSUME Sequential, M!Init
  PROVE  SetInv
<1>1. loop \in [Loops -> Goroutine] /\ \A l \in Loops : loop[l].at = "none"
  BY SetBlank DEF M!Init
<1>2. call \in [M!Procs -> Request] /\ \A c \in M!Procs : call[c].at = "idle"
  BY SetBlank DEF M!Init
<1>3. /\ phase = "boot" /\ config \in Setting /\ raw = "n" /\ stopCh = {} /\ closed = {}
      /\ lastSeen \in Unreads /\ unseen \in Unreads /\ checked = FALSE /\ panicked = FALSE
  BY DEF M!Init, Setting, Sequential
<1>4. SetType
  BY <1>1, <1>2, <1>3 DEF SetType, Setting
<1>5. Free
  BY <1>1, <1>3 DEF Free, M!Live
<1>6. \A c \in M!Procs : Off(c)
  BY <1>2 DEF Off
<1>7. Clients \subseteq M!Procs /\ M!Main \in M!Procs
  BY DEF M!Procs
<1>8. PhaseInv
  BY <1>3, <1>5, <1>6, <1>7 DEF PhaseInv
<1>9. \A c \in M!Procs : CallInv(c)
  BY <1>2 DEF CallInv
<1> QED
  BY <1>4, <1>8, <1>9 DEF SetInv

\* Polling changes neither which goroutines there are nor their intervals.
LEMMA SetPolls ==
  ASSUME Sequential, SetInv, NEW l \in Loops,
         M!PollFails(l) \/ M!PollCounts(l) \/ M!PollRecords(l) \/ M!Notify(l)
         \/ M!Publish(l) \/ M!Tick(l)
  PROVE  SetInv'
<1>1. loop[l] \in Goroutine /\ loop \in [Loops -> Goroutine] /\ lastSeen \in Unreads /\ unseen \in Unreads
  BY DEF SetInv, SetType
<1> DEFINE Step(r) == /\ r \in Goroutine /\ r.every = loop[l].every /\ r.at # "none"
                      /\ loop[l].at # "none" /\ loop' = [loop EXCEPT ![l] = r]
<1>2. \E r : Step(r)
  <2>1. CASE M!PollFails(l)
    <3>1. Step([loop[l] EXCEPT !.at = "wait"])
      BY <1>1, <2>1 DEF M!PollFails, Goroutine
    <3> QED
      BY <3>1
  <2>2. CASE M!PollCounts(l)
    <3>1. Step([loop[l] EXCEPT !.at = "counted", !.seen = unseen])
      BY <1>1, <2>2 DEF M!PollCounts, Goroutine
    <3> QED
      BY <3>1
  <2>3. CASE M!PollRecords(l)
    <3>1. Step([loop[l] EXCEPT !.at = "notify", !.first = ~checked, !.prev = lastSeen])
      BY <1>1, <2>3 DEF M!PollRecords, Goroutine
    <3> QED
      BY <3>1
  <2>4. CASE M!Notify(l)
    <3>1. Step([loop[l] EXCEPT !.at = "publish"])
      BY <1>1, <2>4 DEF M!Notify, Goroutine
    <3> QED
      BY <3>1
  <2>5. CASE M!Publish(l)
    <3>1. Step([M!NoLoop EXCEPT !.at = "wait", !.every = loop[l].every])
      BY <1>1, <2>5, SetBlank DEF M!Publish, Goroutine
    <3> QED
      BY <3>1
  <2>6. CASE M!Tick(l)
    <3>1. Step([loop[l] EXCEPT !.at = "poll"])
      BY <1>1, <2>6 DEF M!Tick, Goroutine
    <3> QED
      BY <3>1
  <2> QED
    BY <2>1, <2>2, <2>3, <2>4, <2>5, <2>6
<1>3. /\ loop' \in [Loops -> Goroutine]
      /\ \A k \in Loops : loop'[k].every = loop[k].every
      /\ \A k \in Loops : loop'[k].at = "none" <=> loop[k].at = "none"
  BY <1>1, <1>2
<1>4. M!Live' = M!Live
  BY <1>3 DEF M!Live
<1>5. /\ UNCHANGED <<phase, config, raw, stopCh, closed, call, panicked, unseen>>
      /\ lastSeen' \in Unreads /\ checked' \in BOOLEAN
  BY <1>1 DEF M!PollFails, M!PollCounts, M!PollRecords, M!Notify, M!Publish, M!Tick,
         M!pollVars, Goroutine, SetInv, SetType
<1>6. SetType'
  BY <1>3, <1>5 DEF SetInv, SetType
<1>7. /\ Free' <=> Free
      /\ \A k \in Loops : Held(k)' <=> Held(k)
  BY <1>4, <1>5 DEF Free, Held
<1>8. PhaseInv'
  BY <1>3, <1>5, <1>7 DEF SetInv, PhaseInv, Off
<1>9. \A c \in M!Procs : CallInv(c)'
  BY <1>4, <1>5, <1>7 DEF SetInv, CallInv
<1> QED
  BY <1>6, <1>8, <1>9 DEF SetInv, M!Procs

\* A call that is in progress is the only one, in the right phase.
LEMMA OneCall ==
  ASSUME Sequential, SetInv, NEW c \in M!Procs, ~Off(c)
  PROVE  /\ \A d \in M!Procs \ {c} : call[d].at = "idle"
         /\ phase \in {"serving", "stopping"} /\ (c = M!Main <=> phase = "stopping")
         /\ c # M!Main => c \in Clients /\ call[c].want = config
         /\ call[c] \in Request
<1>1. M!Procs = Clients \cup {M!Main}
  BY DEF M!Procs
<1>2. PhaseInv /\ call[c] \in Request
  BY DEF SetInv, SetType
<1> QED
  BY <1>1, <1>2 DEF PhaseInv, Off, Sequential

\* A step of a call that does not end it.
LEMMA CallGoesOn ==
  ASSUME Sequential, SetInv, NEW c \in M!Procs, ~Off(c), SetType',
         \A d \in M!Procs \ {c} : call'[d] = call[d],
         ~Off(c)', call'[c].want = call[c].want, CallInv(c)',
         ~panicked', UNCHANGED <<phase, config>>
  PROVE  SetInv'
<1>1. M!Procs = Clients \cup {M!Main}
  BY DEF M!Procs
<1>2. \A d \in M!Procs \ {c} : call'[d].at = "idle"
  BY OneCall
<1>3. PhaseInv'
  <2>1. /\ phase' \in {"serving", "stopping"} /\ (c = M!Main <=> phase' = "stopping")
        /\ c # M!Main => c \in Clients /\ call'[c].want = config'
    BY OneCall
  <2>2. c # M!Main => Off(M!Main)'
    BY <1>1, <1>2 DEF Off
  <2>3. \A d \in M!Procs : ~Off(d)' => d = c
    BY <1>2 DEF Off
  <2>4. ~Off(M!Main)' <=> phase' = "stopping"
    BY <2>1, <2>2
  <2>5. \A d \in Clients : ~Off(d)' => phase' = "serving" /\ call'[d].want = config'
    BY <1>1, <2>1, <2>3 DEF Sequential
  <2>6. ~ \A d \in M!Procs : Off(d)'
    OBVIOUS
  <2> QED
    BY <2>1, <2>3, <2>4, <2>5, <2>6 DEF PhaseInv
<1>4. \A d \in M!Procs : CallInv(d)'
  BY <1>2 DEF CallInv
<1> QED
  BY <1>3, <1>4 DEF SetInv, M!Procs

\* The step with which a call returns.
LEMMA CallReturns ==
  ASSUME Sequential, SetInv, NEW c \in M!Procs, ~Off(c), SetType',
         call' = [call EXCEPT ![c] = M!NoCall], ~panicked',
         \/ phase' = "ended" /\ Free'
         \/ phase' = "serving" /\ raw' = "n" /\ Free'
         \/ /\ phase' = "serving" /\ raw' = config' /\ raw' # "n"
            /\ \E l \in Loops : Held(l)' /\ loop'[l].every = raw'
  PROVE  SetInv'
<1>1. M!Procs = Clients \cup {M!Main}
  BY DEF M!Procs
<1>2. \A d \in M!Procs : call'[d].at = "idle"
  BY OneCall, SetBlank DEF SetInv, SetType
<1>3. PhaseInv'
  BY <1>1, <1>2 DEF PhaseInv, Off
<1>4. \A d \in M!Procs : CallInv(d)'
  BY <1>2 DEF CallInv
<1> QED
  BY <1>3, <1>4 DEF SetInv, M!Procs

\* A new goroutine where there is none.
LEMMA Launches ==
  ASSUME Sequential, SetType, NEW l \in Loops, Free, UNCHANGED closed, raw' \in Setting,
         M!StartLoop(l)
  PROVE  loop' \in [Loops -> Goroutine] /\ Held(l)' /\ loop'[l].every = raw'
<1> DEFINE r == [M!NoLoop EXCEPT !.at = "poll", !.every = raw']
<1>1. loop' = [loop EXCEPT ![l] = r] /\ stopCh' = {l}
  BY DEF M!StartLoop
<1>2. r \in Goroutine /\ r.at = "poll" /\ r.every = raw'
  BY SetBlank DEF M!NoLoop, Goroutine, Sequential
<1> HIDE DEF r
<1>3. \A k \in Loops : loop[k].at = "none"
  BY DEF Free, M!Live
<1>4. loop' \in [Loops -> Goroutine] /\ loop'[l] = r /\ \A k \in Loops \ {l} : loop'[k] = loop[k]
  BY <1>1, <1>2 DEF SetType
<1>5. M!Live' = {l}
  BY <1>2, <1>3, <1>4 DEF M!Live
<1> QED
  BY <1>1, <1>2, <1>4, <1>5 DEF Held, Free

\* Stop: the channel taken, closed, and the goroutine waited for.
LEMMA SetStops ==
  ASSUME Sequential, SetInv, NEW c \in M!Procs,
         M!TakeChannel(c) \/ M!CloseChannel(c) \/ M!Wait(c) \/ M!Wake(c)
  PROVE  SetInv'
<1>1. /\ ~Off(c) /\ call \in [M!Procs -> Request] /\ call[c] \in Request
      /\ CallInv(c) /\ SetType /\ ~panicked
  BY DEF M!TakeChannel, M!CloseChannel, M!Wait, M!Wake, M!At, Off, SetInv, SetType, PhaseInv
<1>2. /\ UNCHANGED <<phase, config, raw, loop, lastSeen, unseen, checked>>
      /\ stopCh' \subseteq Loops
  BY <1>1 DEF M!TakeChannel, M!CloseChannel, M!Wait, M!Wake, M!loopVars, SetType
<1>3. M!Live' = M!Live
  BY <1>2 DEF M!Live
<1> SUFFICES \E r \in Request :
               /\ call' = [call EXCEPT ![c] = r] /\ r.at # "idle" /\ r.want = call[c].want
               /\ CallInv(c)' /\ ~panicked'
  <2> SUFFICES ASSUME NEW r \in Request,
                      call' = [call EXCEPT ![c] = r], r.at # "idle", r.want = call[c].want,
                      CallInv(c)', ~panicked'
               PROVE  SetInv'
    OBVIOUS
  <2>1. /\ call' \in [M!Procs -> Request] /\ call'[c] = r
        /\ \A d \in M!Procs \ {c} : call'[d] = call[d]
    BY <1>1
  <2>2. SetType'
    BY <1>1, <1>2, <2>1 DEF SetType, M!Procs
  <2> QED
    BY <1>1, <1>2, <2>1, <2>2, CallGoesOn DEF Off
<1>4. CASE M!TakeChannel(c)
  <2> DEFINE a == IF stopCh = {} THEN "set" ELSE "close"
             r == [call[c] EXCEPT !.ch = stopCh, !.at = a]
  <2>1. /\ call[c].at = "stop" /\ call' = [call EXCEPT ![c] = r] /\ stopCh' = {}
        /\ UNCHANGED <<closed, panicked>>
    BY <1>4 DEF M!TakeChannel, M!At
  <2>2. /\ r \in Request /\ r.at = a /\ r.want = call[c].want /\ r.ch = stopCh
    BY <1>1 DEF Request, SetType
  <2> HIDE DEF r
  <2>3. call'[c] = r
    BY <1>1, <2>1
  <2>4. CallInv(c)'
    <3>1. CASE stopCh = {}
      <4>1. Free /\ call'[c].at = "set"
        BY <1>1, <2>1, <2>2, <2>3, <3>1 DEF CallInv, Held
      <4> QED
        BY <1>3, <2>1, <4>1 DEF CallInv, Free
    <3>2. CASE stopCh # {}
      <4>1. call'[c].at = "close" /\ call'[c].ch = stopCh
        BY <2>2, <2>3, <3>2
      <4>2. PICK l \in Loops : Held(l)
        BY <1>1, <2>1, <3>2 DEF CallInv, Free
      <4> QED
        BY <1>3, <2>1, <4>1, <4>2 DEF CallInv, Held
    <3> QED
      BY <3>1, <3>2
  <2> QED
    BY <1>1, <2>1, <2>2, <2>4
<1>5. CASE M!CloseChannel(c)
  <2> DEFINE r == [call[c] EXCEPT !.at = "closed"]
  <2>1. /\ call[c].at = "close" /\ call' = [call EXCEPT ![c] = r]
        /\ closed' = closed \cup call[c].ch /\ UNCHANGED <<stopCh, panicked>>
    BY <1>5 DEF M!CloseChannel, M!At, M!Go
  <2>2. r \in Request /\ r.at = "closed" /\ r.want = call[c].want
    BY <1>1 DEF Request
  <2> HIDE DEF r
  <2>3. call'[c].at = "closed"
    BY <1>1, <2>1, <2>2
  <2>4. CallInv(c)'
    BY <1>1, <1>3, <2>1, <2>3 DEF CallInv
  <2> QED
    BY <1>1, <2>1, <2>2, <2>4
<1>6. CASE M!Wait(c)
  <2> DEFINE a == IF M!Live = {} THEN "set" ELSE "wait"
             r == [call[c] EXCEPT !.at = a]
  <2>1. /\ call[c].at = "closed" /\ call' = [call EXCEPT ![c] = r]
        /\ UNCHANGED <<stopCh, closed, panicked>>
    BY <1>6 DEF M!Wait, M!At, M!Go
  <2>2. r \in Request /\ r.at = a /\ r.want = call[c].want
    BY <1>1 DEF Request
  <2> HIDE DEF r
  <2>3. call'[c].at = a
    BY <1>1, <2>1, <2>2
  <2>4. CallInv(c)'
    BY <1>1, <1>3, <2>1, <2>3 DEF CallInv, Free
  <2> QED
    BY <1>1, <2>1, <2>2, <2>4
<1>7. CASE M!Wake(c)
  <2> DEFINE r == [call[c] EXCEPT !.at = "set"]
  <2>1. /\ call[c].at = "woken" /\ call' = [call EXCEPT ![c] = r]
        /\ UNCHANGED <<stopCh, closed>> /\ panicked' = (panicked \/ M!Live # {})
    BY <1>7 DEF M!Wake, M!At, M!Go
  <2>2. r \in Request /\ r.at = "set" /\ r.want = call[c].want
    BY <1>1 DEF Request
  <2> HIDE DEF r
  <2>3. call'[c].at = "set"
    BY <1>1, <2>1, <2>2
  <2>4. Free
    BY <1>1, <2>1 DEF CallInv
  <2>5. CallInv(c)'
    BY <1>3, <2>1, <2>3, <2>4 DEF CallInv, Free
  <2> QED
    BY <1>1, <2>1, <2>2, <2>4, <2>5 DEF Free
<1> QED
  BY <1>4, <1>5, <1>6, <1>7

\* The goroutine ends; a call waiting for it is woken.
LEMMA SetLoopEnds ==
  ASSUME Sequential, SetInv, NEW l \in Loops, M!LoopStops(l)
  PROVE  SetInv'
<1>1. /\ loop[l].at = "wait" /\ l \in closed /\ loop' = [loop EXCEPT ![l] = M!NoLoop]
      /\ closed' = closed \ {l}
      /\ UNCHANGED <<phase, config, raw, stopCh, lastSeen, checked, unseen, panicked>>
  BY DEF M!LoopStops, M!pollVars
<1>2. SetType /\ PhaseInv /\ call \in [M!Procs -> Request] /\ l \in M!Live
  BY <1>1 DEF SetInv, SetType, M!Live
<1>3. ~Free /\ \A k \in Loops : ~Held(k)
  BY <1>1 DEF Free, Held
<1>4. PICK c \in M!Procs : ~Off(c)
  <2>1. phase # "boot" /\ phase # "ended"
    BY <1>2, <1>3 DEF PhaseInv
  <2>2. phase = "serving" => ~ \A c \in M!Procs : Off(c)
    BY <1>2, <1>3 DEF PhaseInv
  <2>3. phase = "stopping" => ~Off(M!Main) /\ M!Main \in M!Procs
    BY <1>2 DEF PhaseInv, M!Procs
  <2> QED
    BY <1>2, <2>1, <2>2, <2>3 DEF SetType
<1>5. /\ call[c].at \in {"closed", "wait"} /\ stopCh = {}
      /\ M!Live = {l} /\ closed = {l} /\ call[c] \in Request
  <2>1. CallInv(c) /\ call[c] \in Request /\ call[c].at # "idle"
    BY <1>2, <1>4 DEF SetInv, Off
  <2>2. call[c].at \in {"closed", "wait"}
    BY <1>1, <1>3, <2>1 DEF CallInv, Request
  <2> QED
    BY <1>1, <1>2, <2>1, <2>2 DEF CallInv
<1>6. /\ loop' \in [Loops -> Goroutine] /\ loop'[l].at = "none"
      /\ \A k \in Loops \ {l} : loop'[k] = loop[k]
  BY <1>1, <1>2, SetBlank DEF SetType
<1>7. M!Live' = {} /\ closed' = {}
  BY <1>1, <1>5, <1>6 DEF M!Live
<1> DEFINE r == IF call[c].at = "wait" THEN [call[c] EXCEPT !.at = "woken"] ELSE call[c]
<1>8. /\ r \in Request /\ r.at = (IF call[c].at = "wait" THEN "woken" ELSE "closed")
      /\ r.want = call[c].want
  BY <1>5 DEF Request
<1>9. call' = [d \in M!Procs |-> IF call[d].at = "wait" THEN [call[d] EXCEPT !.at = "woken"]
                                 ELSE call[d]]
  BY <1>5 DEF M!LoopStops, M!At
<1>10. call'[c] = r /\ \A d \in M!Procs \ {c} : call'[d] = call[d]
  BY <1>4, <1>9, OneCall
<1> HIDE DEF r
<1>11. call' \in [M!Procs -> Request]
  BY <1>2, <1>8, <1>9, <1>10
<1>12. SetType'
  BY <1>1, <1>2, <1>6, <1>11 DEF SetType, M!Procs
<1>13. ~Off(c)' /\ call'[c].want = call[c].want
  BY <1>8, <1>10 DEF Off
<1>14. CallInv(c)'
  BY <1>1, <1>5, <1>7, <1>8, <1>10 DEF CallInv, Free
<1>15. ~panicked'
  BY <1>1, <1>2 DEF PhaseInv
<1> QED
  BY <1>1, <1>4, <1>10, <1>12, <1>13, <1>14, <1>15, CallGoesOn

\* SetInterval after its Stop, and main's end.
LEMMA SetApplies ==
  ASSUME Sequential, SetInv, NEW c \in M!Procs,
         M!StoreInterval(c) \/ M!Restart(c) \/ (c = M!Main /\ M!Ended)
  PROVE  SetInv'
<1>1. /\ ~Off(c) /\ call \in [M!Procs -> Request] /\ call[c] \in Request
      /\ CallInv(c) /\ SetType /\ ~panicked
  BY DEF M!StoreInterval, M!Restart, M!Ended, M!At, Off, SetInv, SetType, PhaseInv
<1>2. Free
  BY <1>1 DEF M!StoreInterval, M!Restart, M!Ended, M!At, CallInv
<1>3. CASE M!StoreInterval(c)
  <2>1. /\ c # M!Main /\ call[c].at = "set" /\ raw' = call[c].want
        /\ UNCHANGED <<phase, config, stopCh, closed, loop, lastSeen, checked, unseen, panicked>>
    BY <1>3 DEF M!StoreInterval, M!At, M!loopVars
  <2>2. call[c].want = config /\ phase = "serving" /\ raw' \in Setting
    BY <1>1, <2>1, OneCall DEF Request
  <2>3. Free'
    BY <1>2, <2>1 DEF Free, M!Live
  <2>4. CASE call[c].want = "n"
    <3>1. call' = [call EXCEPT ![c] = M!NoCall]
      BY <1>3, <2>4 DEF M!StoreInterval
    <3>2. call' \in [M!Procs -> Request]
      BY <1>1, <3>1, SetBlank
    <3>3. SetType'
      BY <1>1, <2>1, <2>2, <3>2 DEF SetType, M!Procs
    <3> QED
      BY <1>1, <2>1, <2>2, <2>3, <2>4, <3>1, <3>3, CallReturns
  <2>5. CASE call[c].want # "n"
    <3> DEFINE r == [call[c] EXCEPT !.at = "start", !.ch = {}]
    <3>1. call' = [call EXCEPT ![c] = r]
      BY <1>3, <2>5 DEF M!StoreInterval
    <3>2. r \in Request /\ r.at = "start" /\ r.want = call[c].want
      BY <1>1 DEF Request
    <3> HIDE DEF r
    <3>3. /\ call' \in [M!Procs -> Request] /\ call'[c] = r
          /\ \A d \in M!Procs \ {c} : call'[d] = call[d]
      BY <1>1, <3>1, <3>2
    <3>4. SetType'
      BY <1>1, <2>1, <2>2, <3>3 DEF SetType, M!Procs
    <3>5. CallInv(c)'
      BY <2>1, <2>2, <2>3, <2>5, <3>2, <3>3 DEF CallInv
    <3>6. ~Off(c)'
      BY <3>2, <3>3 DEF Off
    <3> QED
      BY <1>1, <2>1, <3>2, <3>3, <3>4, <3>5, <3>6, CallGoesOn
  <2> QED
    BY <2>4, <2>5
<1>4. CASE M!Restart(c)
  <2>1. /\ call[c].at = "start" /\ call' = [call EXCEPT ![c] = M!NoCall]
        /\ UNCHANGED <<phase, config, raw, closed, lastSeen, checked, unseen, panicked>>
    BY <1>4 DEF M!Restart, M!At, M!pollVars
  <2>2. PICK l \in Loops : M!StartLoop(l)
    BY <1>4 DEF M!Restart
  <2>3. raw = config /\ raw # "n" /\ phase = "serving" /\ raw' \in Setting
    <3>1. raw = config /\ raw # "n" /\ c # M!Main
      BY <1>1, <2>1 DEF CallInv
    <3> QED
      BY <1>1, <2>1, <3>1, OneCall DEF SetType
  <2>4. loop' \in [Loops -> Goroutine] /\ Held(l)' /\ loop'[l].every = raw'
    BY <1>1, <1>2, <2>1, <2>2, <2>3, Launches
  <2>5. call' \in [M!Procs -> Request]
    BY <1>1, <2>1, SetBlank
  <2>6. stopCh' \subseteq Loops
    BY <2>4 DEF Held
  <2>7. SetType'
    BY <1>1, <2>1, <2>4, <2>5, <2>6 DEF SetType, M!Procs
  <2> QED
    BY <1>1, <2>1, <2>3, <2>4, <2>7, CallReturns
<1>5. CASE c = M!Main /\ M!Ended
  <2>1. /\ call' = [call EXCEPT ![c] = M!NoCall] /\ phase' = "ended"
        /\ UNCHANGED <<config, raw, stopCh, closed, loop, lastSeen, checked, unseen, panicked>>
    BY <1>5 DEF M!Ended, M!loopVars
  <2>2. Free'
    BY <1>2, <2>1 DEF Free, M!Live
  <2>3. call' \in [M!Procs -> Request]
    BY <1>1, <2>1, SetBlank
  <2>4. SetType'
    BY <1>1, <2>1, <2>3 DEF SetType, M!Procs
  <2> QED
    BY <1>1, <2>1, <2>2, <2>4, CallReturns
<1> QED
  BY <1>3, <1>4, <1>5

\* A call begins, the server's own Stop included: the first step finds the
\* poller between calls.
LEMMA SetBegins ==
  ASSUME Sequential, SetInv,
         M!Shutdown \/ \E c \in Clients, w \in Settings \cup {"n"} : M!SaveInterval(c, w)
  PROVE  SetInv'
<1>1. M!Procs = Clients \cup {M!Main}
  BY DEF M!Procs
<1>2. SetType /\ PhaseInv /\ phase = "serving" /\ call \in [M!Procs -> Request]
  BY DEF M!Shutdown, M!SaveInterval, SetInv, SetType
<1>3. \A c \in M!Procs : Off(c)
  BY <1>1, <1>2 DEF M!Shutdown, M!SaveInterval, M!At, PhaseInv, Off, Sequential
<1>4. Free \/ \E l \in Loops : Held(l)
  BY <1>2, <1>3 DEF PhaseInv
<1>5. UNCHANGED <<raw, stopCh, closed, loop, lastSeen, checked, unseen, panicked>>
  BY DEF M!Shutdown, M!SaveInterval, M!loopVars
<1>6. (Free \/ \E l \in Loops : Held(l))'
  BY <1>4, <1>5 DEF Free, Held, M!Live
<1>7. CASE M!Shutdown
  <2>1. phase' = "stopping" /\ config' = config /\ call' = [call EXCEPT ![M!Main].at = "stop"]
    BY <1>7 DEF M!Shutdown, M!Go
  <2>2. /\ call' \in [M!Procs -> Request] /\ call'[M!Main].at = "stop"
        /\ \A d \in M!Procs \ {M!Main} : call'[d] = call[d]
    BY <1>1, <1>2, <2>1 DEF Request
  <2>3. SetType'
    BY <1>2, <1>5, <2>1, <2>2 DEF SetType, M!Procs
  <2>4. \A d \in M!Procs \ {M!Main} : Off(d)'
    BY <1>3, <2>2 DEF Off
  <2>5. Clients \subseteq M!Procs \ {M!Main}
    BY <1>1 DEF Sequential
  <2>6. PhaseInv'
    BY <1>1, <1>2, <1>5, <2>1, <2>2, <2>4, <2>5 DEF PhaseInv, Off
  <2>7. \A d \in M!Procs : CallInv(d)'
    BY <1>6, <2>2, <2>4 DEF CallInv, Off
  <2> QED
    BY <2>3, <2>6, <2>7 DEF SetInv, M!Procs
<1>8. ASSUME NEW c \in Clients, NEW w \in Settings \cup {"n"}, M!SaveInterval(c, w)
      PROVE  SetInv'
  <2> DEFINE r == [at |-> "stop", want |-> w, ch |-> {}]
  <2>1. UNCHANGED phase /\ config' = w /\ call' = [call EXCEPT ![c] = r]
    BY <1>8 DEF M!SaveInterval
  <2>2. r \in Request /\ r.at = "stop" /\ r.want = w
    BY DEF Request, Setting
  <2> HIDE DEF r
  <2>3. /\ call' \in [M!Procs -> Request] /\ call'[c] = r
        /\ \A d \in M!Procs \ {c} : call'[d] = call[d]
    BY <1>1, <1>2, <2>1, <2>2
  <2>4. SetType'
    BY <1>2, <1>5, <2>1, <2>3 DEF SetType, M!Procs, Setting
  <2>5. \A d \in M!Procs \ {c} : Off(d)'
    BY <1>3, <2>3 DEF Off
  <2>6. c # M!Main /\ M!Main \in M!Procs \ {c} /\ ~Off(c)' /\ c \in M!Procs
    BY <1>1, <2>2, <2>3 DEF Sequential, Off
  <2>7. \A d \in Clients : ~Off(d)' => call'[d].want = config'
    BY <1>1, <2>1, <2>2, <2>3, <2>5
  <2>8. PhaseInv'
    BY <1>2, <1>5, <2>1, <2>5, <2>6, <2>7 DEF PhaseInv
  <2>9. \A d \in M!Procs : CallInv(d)'
    BY <1>6, <2>2, <2>3, <2>5 DEF CallInv, Off
  <2> QED
    BY <2>4, <2>8, <2>9 DEF SetInv, M!Procs
<1> QED
  BY <1>7, <1>8

\* Start, at the beginning of the server.
LEMMA SetBoots ==
  ASSUME Sequential, SetInv, M!Boot
  PROVE  SetInv'
<1>1. /\ phase = "boot" /\ phase' = "serving"
      /\ UNCHANGED <<config, closed, lastSeen, checked, unseen, call, panicked>>
  BY DEF M!Boot, M!pollVars
<1>2. SetType /\ PhaseInv /\ Free /\ raw = "n"
  BY <1>1 DEF SetInv, PhaseInv
<1>3. M!Procs = Clients \cup {M!Main}
  BY DEF M!Procs
<1>4. \A c \in M!Procs : call[c].at = "idle"
  BY <1>1, <1>2, <1>3 DEF PhaseInv, Off
<1>5. SUFFICES /\ loop' \in [Loops -> Goroutine] /\ stopCh' \subseteq Loops /\ raw' \in Setting
               /\ \/ raw' = "n" /\ Free'
                  \/ /\ raw' = config' /\ raw' # "n"
                     /\ \E l \in Loops : Held(l)' /\ loop'[l].every = raw'
  <2>1. SetType'
    BY <1>1, <1>2, <1>5 DEF SetType, M!Procs
  <2>2. \A c \in M!Procs : Off(c)' /\ CallInv(c)'
    BY <1>1, <1>4 DEF Off, CallInv
  <2>3. PhaseInv'
    BY <1>1, <1>2, <1>3, <1>5, <2>2 DEF PhaseInv
  <2> QED
    BY <2>1, <2>2, <2>3 DEF SetInv, M!Procs
<1>6. CASE UNCHANGED <<raw, stopCh, loop>>
  BY <1>1, <1>2, <1>6 DEF Free, M!Live, SetType
<1>7. ASSUME NEW l \in Loops, config # "n", raw' = config, M!StartLoop(l)
      PROVE  /\ loop' \in [Loops -> Goroutine] /\ stopCh' \subseteq Loops /\ raw' \in Setting
             /\ raw' = config' /\ raw' # "n" /\ Held(l)' /\ loop'[l].every = raw'
  <2>1. raw' \in Setting
    BY <1>2, <1>7 DEF SetType
  <2>2. loop' \in [Loops -> Goroutine] /\ Held(l)' /\ loop'[l].every = raw'
    BY <1>1, <1>2, <1>7, <2>1, Launches
  <2> QED
    BY <1>1, <1>7, <2>1, <2>2 DEF Held
<1> QED
  BY <1>6, <1>7 DEF M!Boot

\* Mail comes and goes, or nothing happens.
LEMMA SetIdles ==
  ASSUME Sequential, SetInv, M!MailChanges \/ UNCHANGED M!vars
  PROVE  SetInv'
<1>1. /\ UNCHANGED <<phase, config, raw, stopCh, closed, loop, lastSeen, checked, call, panicked>>
      /\ unseen' \in Unreads
  BY DEF M!MailChanges, M!loopVars, M!vars, SetInv, SetType
<1>2. M!Live' = M!Live
  BY <1>1 DEF M!Live
<1> QED
  BY <1>1, <1>2 DEF SetInv, SetType, PhaseInv, CallInv, Free, Held, Off, M!Procs

\* set_poll_interval calls that come one at a time leave the MCP server's
\* poller as they asked: one goroutine with that interval, which Stop can still
\* stop, or none, with the config file in agreement; none outlives the server;
\* and no WaitGroup is reused under a waiter.  Two calls at once break this.
THEOREM PollerSettles ==
  ASSUME Sequential
  PROVE  M!Spec => []M!SettledPoller
<1>1. M!Init => SetInv
  BY SetInitial
<1>2. SetInv /\ [M!Next]_(M!vars) => SetInv'
  <2> SUFFICES ASSUME SetInv, [M!Next]_(M!vars) PROVE SetInv'
    OBVIOUS
  <2>1. CASE \E l \in Loops : M!Loop(l)
    BY <2>1, SetPolls, SetLoopEnds DEF M!Loop
  <2>2. CASE \E c \in M!Procs : M!Call(c)
    BY <2>2, SetStops, SetApplies DEF M!Call
  <2>3. CASE M!Ended
    BY <2>3, SetApplies DEF M!Procs
  <2>4. CASE M!Shutdown \/ \E c \in Clients, w \in Settings \cup {"n"} : M!SaveInterval(c, w)
    BY <2>4, SetBegins
  <2>5. CASE M!Boot
    BY <2>5, SetBoots
  <2>6. CASE M!MailChanges \/ UNCHANGED M!vars
    BY <2>6, SetIdles
  <2> QED
    BY <2>1, <2>2, <2>3, <2>4, <2>5, <2>6 DEF M!Next
<1>3. SetInv => M!SettledPoller
  <2> SUFFICES ASSUME SetInv PROVE M!SettledPoller
    OBVIOUS
  <2>1. PhaseInv
    BY DEF SetInv
  <2>2. ~M!Calling => \A c \in M!Procs : Off(c)
    BY DEF M!Calling, M!At, Off
  <2> QED
    BY <2>1, <2>2 DEF M!SettledPoller, PhaseInv, Free, Held
<1> QED
  BY <1>1, <1>2, <1>3, PTL DEF M!Spec
=============================================================================
