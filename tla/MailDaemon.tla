----------------------------- MODULE MailDaemon -----------------------------
(***************************************************************************)
(* beadle-daemon from the mailbox to the workers: the poller (Poller.tla)  *)
(* counts unread mail and calls the mail handler (MailHandler.tla) on its  *)
(* own goroutine; the process is started, stopped by a signal, killed and  *)
(* started again (cmd/beadle-daemon/main.go).  The poller keeps a count,   *)
(* the handler looks at messages: between the two the mailbox may change.  *)
(***************************************************************************)
EXTENDS MailHandler

CONSTANTS
  Loops,         \* slots for the polling goroutine
  MaxRestarts,   \* bound on the restarts of the daemon
  Disturb        \* what may disturb the daemon:
                 \*   "window"    the mailbox changes between count and list
                 \*   "read"      the owner reads mail
                 \*   "unread"    the owner marks mail as unread again
                 \*   "pollfail"  a poll fails
                 \*   "mailfail"  a callback, or one of its fetches, fails

ASSUME DaemonAssumption ==
  /\ MaxRestarts \in Nat
  /\ Disturb \subseteq {"window", "read", "unread", "pollfail", "mailfail"}

VARIABLES
  \* the variables of Poller.tla
  phase, config, raw, stopCh, closed, loop, lastSeen, checked, known, unseen,
  marker, call, panicked,
  up,         \* the process: "up", "draining" (handler.Stop), "off"
  restarts,   \* how often it has been started again
  due         \* history: mail delivered since this process's first good poll

P == INSTANCE Poller WITH Callers <- {}, Slots <- Loops,
                          Intervals <- {"5m"}, Counts <- 0..MaxMail

pollerVars == <<phase, config, raw, stopCh, closed, loop, lastSeen, checked,
                known, unseen, marker, call, panicked>>
procVars == <<up, restarts>>
vars == <<pollerVars, handlerVars, procVars, due>>

-----------------------------------------------------------------------------
(* Startup and shutdown *)

\* poller.Start: an invalid or unreadable config ends the daemon.
Start ==
  /\ up = "up"
  /\ P!Boot
  /\ \/ /\ stopCh' # {} \/ config = "n"
        /\ UNCHANGED up
     \/ /\ stopCh' = {} /\ config # "n"
        /\ up' = "draining"
  /\ UNCHANGED <<handlerVars, restarts, due>>

\* SIGTERM or SIGINT.
Signal ==
  /\ up = "up"
  /\ P!Shutdown
  /\ UNCHANGED <<handlerVars, procVars, due>>

\* The deferred calls run last first: poller.Stop ...
StopPoller ==
  /\ up = "up"
  /\ \/ P!TakeChannel(P!Main) \/ P!CloseChannel(P!Main)
     \/ P!Wait(P!Main) \/ P!Wake(P!Main)
  /\ UNCHANGED <<handlerVars, procVars, due>>

\* ... then handler.Stop, which cancels the workers and waits for them ...
StopHandler ==
  /\ up = "up"
  /\ P!Ended
  /\ up' = "draining"
  /\ UNCHANGED <<handlerVars, restarts, due>>

\* What is left of the poller and the handler once the process is gone.
Forget ==
  /\ phase' = "boot"
  /\ raw' = "n" /\ stopCh' = {} /\ closed' = {}
  /\ loop' = [l \in Loops |-> P!NoLoop]
  /\ lastSeen' = 0 /\ checked' = FALSE /\ known' = FALSE /\ marker' = 0
  /\ call' = [c \in P!Procs |-> P!NoCall]
  /\ panicked' = FALSE
  /\ due' = {}
  /\ UNCHANGED <<config, unseen>>

\* ... and StopPruning, after which the process exits.
Exit ==
  /\ up = "draining"
  /\ InFlight = 0
  /\ up' = "off"
  /\ Forget
  /\ UNCHANGED <<handlerVars, restarts>>

Kill ==
  /\ up # "off"
  /\ up' = "off"
  /\ cb' = NoCallback
  /\ running' = [m \in Mails |-> 0]
  /\ Forget
  /\ UNCHANGED <<boxVars, spawning, runs, dropped, since, restarts>>

\* A new process; the API key it finds decides whether it spawns workers.
Restart ==
  /\ up = "off"
  /\ restarts < MaxRestarts
  /\ up' = "up"
  /\ restarts' = restarts + 1
  /\ spawning' \in BOOLEAN
  /\ UNCHANGED <<pollerVars, boxVars, cb, workVars, since, due>>

-----------------------------------------------------------------------------
(* The polling goroutine and the callback it makes *)

Poll(l) ==
  /\ up # "off"
  /\ \/ "pollfail" \in Disturb /\ P!PollFails(l)
     \/ P!PollCounts(l) \/ P!PollRecords(l)
     \/ P!Tick(l) \/ P!LoopStops(l)
  /\ UNCHANGED <<handlerVars, procVars, due>>

\* notify calls OnNewMail(unseen - prev) ...
Notify(l) ==
  /\ P!Notify(l)
  /\ IF P!Prompts(l)
     THEN BeginCallback(loop[l].seen - loop[l].prev)
     ELSE UNCHANGED handlerVars
  /\ UNCHANGED <<procVars, due>>

\* ... and the poll goes on when it has returned.
Publish(l) ==
  /\ cb.at = "idle"
  /\ P!Publish(l)
  /\ UNCHANGED <<handlerVars, procVars, due>>

Callback ==
  /\ \/ List \/ LoadContacts \/ Skip \/ Submit \/ EndCallback
     \/ "mailfail" \in Disturb /\ (CallbackFails \/ MessageFails)
  /\ UNCHANGED <<pollerVars, procVars, due>>

Work(m) ==
  /\ WorkerEnds(m)
  /\ UNCHANGED <<pollerVars, procVars, due>>

-----------------------------------------------------------------------------
(* The outside world *)

\* A prompting poll has counted and its callback has not listed yet.
Window == cb.at = "list" \/ \E l \in Loops : loop[l].at \in {"counted", "notify"}

\* The mailbox changes; its unread count with it.
Mailbox ==
  /\ "window" \in Disturb \/ ~Window
  /\ \/ /\ \E s \in Senders, seal \in Seals : Deliver(s, seal)
        /\ due' = IF known THEN due \cup {Len(mail')} ELSE due
     \/ /\ \E m \in Mails : \/ "read" \in Disturb /\ MarkRead(m)
                            \/ "unread" \in Disturb /\ MarkUnread(m)
        /\ UNCHANGED due
  /\ unseen' = Cardinality(unread')
  /\ P!MailChanges
  /\ UNCHANGED procVars

Owner ==
  /\ \E s \in Senders, k \in ContactKinds : EditContact(s, k)
  /\ UNCHANGED <<pollerVars, procVars, due>>

Init ==
  /\ P!Init /\ unseen = 0
  /\ HandlerInit
  /\ up = "up"
  /\ restarts = 0
  /\ due = {}

Next ==
  \/ Start \/ Signal \/ StopPoller \/ StopHandler \/ Exit \/ Kill \/ Restart
  \/ \E l \in Loops : Poll(l) \/ Notify(l) \/ Publish(l)
  \/ Callback
  \/ \E m \in Mails : Work(m)
  \/ Mailbox \/ Owner

Spec == Init /\ [][Next]_vars

(***************************************************************************)
(* Fairness: goroutines that can run do; the mail server answers again and *)
(* again.  Nothing is assumed of signals, mail, the owner or the workers,  *)
(* whose runners may never return (CompoundRun.tla).                       *)
(***************************************************************************)
FairSpec ==
  /\ Spec
  /\ WF_vars(StopPoller) /\ WF_vars(StopHandler) /\ WF_vars(Exit)
  /\ WF_vars(Callback) /\ SF_vars(Callback /\ List)
  /\ \A l \in Loops :
       /\ WF_vars(Poll(l) \/ Notify(l) \/ Publish(l))
       /\ SF_vars(Poll(l) /\ P!LoopStops(l))
       /\ SF_vars(Poll(l) /\ P!PollCounts(l))

-----------------------------------------------------------------------------
(* Properties *)

\* However the owner edits the contacts meanwhile, a message is acted on only
\* if, at some time since this very callback began, the contacts file gave its
\* sender x, and by a proof of origin that counts: a signature by the
\* registered key, by any key if none is registered, or Proton's headers from
\* a mail server on this machine.
OnlyAuthorised ==
  [][\A m \in Mails : runs'[m] > runs[m] =>
       \E k \in {"x", "xkey"} :
         /\ <<mail[m].from, k>> \in since
         /\ \/ mail[m].seal = "good"
            \/ mail[m].seal = "other" /\ k = "x"
            \/ mail[m].seal = "proton" /\ Loopback]_vars

\* While the mailbox stands still between count and list, nobody marks mail
\* as unread and no first poll fails, no message is acted on twice, although
\* nothing records which messages were: restarts included.
AtMostOnce == \A m \in Mails : runs[m] <= 1

\* Nothing but a worker that never comes to its end can keep a signalled daemon
\* from exiting, whatever its poller and its callback were doing: if every
\* worker ends, so does the daemon (poller.Stop, then handler.Stop).
ShutdownEnds ==
  (\A m \in Mails : []<>(running[m] = 0)) =>
    (phase = "stopping" ~> up = "off")

Authorised(m) ==
  /\ m <= Len(mail)
  /\ Passes(m, contacts)

\* "x granted + trust verified -> create pipeline": authorised mail that comes
\* in while the daemon polls is acted on, unless the daemon goes down first or
\* the pool is full.  Holds in a mailbox that stands still between count and
\* list; fails when a second message arrives there, which is then listed in
\* place of the first.
AuthorisedMailRuns ==
  \A m \in Mails :
    m \in due /\ Authorised(m) ~>
      runs[m] > 0 \/ m \in dropped \/ up = "draining" \/ m \notin due

=============================================================================
