------------------------------- MODULE Poller -------------------------------
(***************************************************************************)
(* The background inbox poller (internal/email/poller.go) with the two     *)
(* things the MCP server hangs on it: the set_poll_interval tool and the   *)
(* unread marker (internal/mcp/poll_tools.go).  Tool calls run             *)
(* concurrently, so several callers can be inside Stop, SetInterval and    *)
(* startLoop at once; each critical section of p.mu is one step.           *)
(***************************************************************************)
EXTENDS Integers, FiniteSets

CONSTANTS
  Callers,     \* concurrent set_poll_interval calls
  Slots,       \* bound on the polling goroutines alive at one time
  Intervals,   \* interval settings other than "n"
  Counts       \* unread counts the mailbox may have

ASSUME PollerAssumption ==
  Counts \subseteq Nat /\ 0 \in Counts /\ "n" \notin Intervals

VARIABLES
  phase,      \* "boot", "serving", "stopping", "ended"
  config,     \* poll_interval in the identity's config file
  raw,        \* Poller.raw (with Poller.interval)
  stopCh,     \* Poller.stopCh: the set of the goroutine it stops, {} for nil
  closed,     \* goroutines whose stop channel is closed
  loop,       \* loop[l]: the polling goroutine in slot l
  lastSeen,   \* Poller.lastSeen
  checked,    \* Poller.lastCheck is not zero
  known,      \* history: some poll has succeeded
  unseen,     \* the unread count of INBOX, at the server
  marker,     \* the bucket in get_poll_status's registered description
  call,       \* call[c]: the API call of caller c
  panicked    \* WaitGroup found reused by a waiter that was just woken

vars == <<phase, config, raw, stopCh, closed, loop, lastSeen, checked, known,
          unseen, marker, call, panicked>>
loopVars == <<loop, lastSeen, checked, known, marker>>
pollVars == <<lastSeen, checked, known, marker>>

Main  == "main"
Procs == Callers \cup {Main}

NoLoop == [at |-> "none", first |-> FALSE, prev |-> 0, seen |-> 0,
           every |-> "n"]
NoCall == [at |-> "idle", want |-> "n", ch |-> {}]

\* Poller.wg: the goroutines that have been added and are not Done.
Live == {l \in Slots : loop[l].at # "none"}

\* unreadBucket
Bucket(n) ==
  IF n < 10 THEN n ELSE IF n < 50 THEN 10 ELSE IF n < 100 THEN 50 ELSE 100

-----------------------------------------------------------------------------
(* API calls *)

At(c, a) == call[c].at = a
Go(c, a) == call' = [call EXCEPT ![c].at = a]

\* startLoop: under p.mu a fresh channel, the interval read, wg.Add.
StartLoop(l) ==
  /\ loop[l] = NoLoop
  /\ stopCh' = {l}
  /\ loop' = [loop EXCEPT ![l] = [NoLoop EXCEPT !.at = "poll", !.every = raw']]

\* Start reads the config; disabled, invalid or unreadable means no loop.
Boot ==
  /\ phase = "boot"
  /\ phase' = "serving"
  /\ \/ /\ config # "n"
        /\ raw' = config
        /\ \E l \in Slots : StartLoop(l)
     \/ UNCHANGED <<raw, stopCh, loop>>
  /\ UNCHANGED <<config, closed, pollVars, unseen, call, panicked>>

\* set_poll_interval persists the setting before it applies it.
SaveInterval(c, w) ==
  /\ phase = "serving"
  /\ At(c, "idle")
  /\ config' = w
  /\ call' = [call EXCEPT ![c] = [at |-> "stop", want |-> w, ch |-> {}]]
  /\ UNCHANGED <<phase, raw, stopCh, closed, loopVars, unseen, panicked>>

\* Stop, first half: under p.mu the channel is taken out of the poller.  A
\* nil channel ends Stop there and then.
TakeChannel(c) ==
  /\ At(c, "stop")
  /\ call' = [call EXCEPT ![c].ch = stopCh,
                          ![c].at = IF stopCh = {} THEN "set" ELSE "close"]
  /\ stopCh' = {}
  /\ UNCHANGED <<phase, config, raw, closed, loopVars, unseen, panicked>>

\* A Stop that returns without waiting.
CloseWithoutWait(c) ==
  /\ At(c, "close")
  /\ closed' = closed \cup call[c].ch
  /\ Go(c, "set")
  /\ UNCHANGED <<phase, config, raw, stopCh, loopVars, unseen, panicked>>

\* A Stop that waits without closing the channel.
WaitWithoutClose(c) ==
  /\ At(c, "close")
  /\ Go(c, "closed")
  /\ UNCHANGED <<phase, config, raw, stopCh, closed, loopVars, unseen,
                 panicked>>

\* Stop, second half, outside the lock: close ...
CloseChannel(c) ==
  /\ At(c, "close")
  /\ closed' = closed \cup call[c].ch
  /\ Go(c, "closed")
  /\ UNCHANGED <<phase, config, raw, stopCh, loopVars, unseen, panicked>>

\* ... then wg.Wait, which passes if the counter is zero by now.
Wait(c) ==
  /\ At(c, "closed")
  /\ Go(c, IF Live = {} THEN "set" ELSE "wait")
  /\ UNCHANGED <<phase, config, raw, stopCh, closed, loopVars, unseen,
                 panicked>>

\* A waiter released by the last Done runs on; if the counter has been raised
\* again meanwhile, sync.WaitGroup panics.
Wake(c) ==
  /\ At(c, "woken")
  /\ panicked' = (panicked \/ Live # {})
  /\ Go(c, "set")
  /\ UNCHANGED <<phase, config, raw, stopCh, closed, loopVars, unseen>>

\* SetInterval after Stop: the new interval is stored under p.mu; "n" ends
\* the call.
StoreInterval(c) ==
  /\ c # Main
  /\ At(c, "set")
  /\ raw' = call[c].want
  /\ call' = [call EXCEPT ![c] =
                IF call[c].want = "n" THEN NoCall
                ELSE [call[c] EXCEPT !.at = "start", !.ch = {}]]
  /\ UNCHANGED <<phase, config, stopCh, closed, loopVars, unseen, panicked>>

\* The new loop is started in a critical section of its own.
Restart(c) ==
  /\ At(c, "start")
  /\ UNCHANGED raw
  /\ \E l \in Slots : StartLoop(l)
  /\ call' = [call EXCEPT ![c] = NoCall]
  /\ UNCHANGED <<phase, config, closed, pollVars, unseen, panicked>>

\* The server has stopped serving; main's deferred poller.Stop.
Shutdown ==
  /\ phase = "serving"
  /\ \A c \in Callers : At(c, "idle")
  /\ phase' = "stopping"
  /\ Go(Main, "stop")
  /\ UNCHANGED <<config, raw, stopCh, closed, loopVars, unseen, panicked>>

Ended ==
  /\ At(Main, "set")
  /\ phase' = "ended"
  /\ call' = [call EXCEPT ![Main] = NoCall]
  /\ UNCHANGED <<config, raw, stopCh, closed, loopVars, unseen, panicked>>

Call(c) ==
  \/ TakeChannel(c) \/ CloseChannel(c) \/ Wait(c) \/ Wake(c)
  \/ StoreInterval(c) \/ Restart(c)

-----------------------------------------------------------------------------
(* The polling goroutine *)

\* loadConfig, Dial or UnreadCount failed: recordFailure sets lastCheck, too.
PollFails(l) ==
  /\ loop[l].at = "poll"
  /\ loop' = [loop EXCEPT ![l].at = "wait"]
  /\ checked' = TRUE
  /\ UNCHANGED <<phase, config, raw, stopCh, closed, lastSeen, known, marker,
                 unseen, call, panicked>>

\* UnreadCount answers.
PollCounts(l) ==
  /\ loop[l].at = "poll"
  /\ loop' = [loop EXCEPT ![l].at = "counted", ![l].seen = unseen]
  /\ UNCHANGED <<phase, config, raw, stopCh, closed, pollVars, unseen, call,
                 panicked>>

\* A poll that does not remember what it saw.
PollForgets(l) ==
  /\ loop[l].at = "counted"
  /\ loop' = [loop EXCEPT ![l].at = "notify", ![l].first = ~checked,
                          ![l].prev = lastSeen]
  /\ known' = TRUE
  /\ UNCHANGED <<phase, config, raw, stopCh, closed, lastSeen, checked, marker,
                 unseen, call, panicked>>

\* Under p.mu the count is exchanged for the previous one.
PollRecords(l) ==
  /\ loop[l].at = "counted"
  /\ loop' = [loop EXCEPT ![l].at = "notify", ![l].first = ~checked,
                          ![l].prev = lastSeen]
  /\ lastSeen' = loop[l].seen
  /\ known' = TRUE
  /\ UNCHANGED <<phase, config, raw, stopCh, closed, checked, marker, unseen,
                 call, panicked>>

\* notify calls onNewMail with the increase.
Prompts(l) == ~loop[l].first /\ loop[l].seen > loop[l].prev

\* notify: the count observer on any change (UnreadMarker.Update, which
\* re-registers the tool only when the bucket changes), onNewMail on an
\* increase after the first poll.
Notify(l) ==
  /\ loop[l].at = "notify"
  /\ marker' = IF loop[l].seen # loop[l].prev THEN Bucket(loop[l].seen)
               ELSE marker
  /\ loop' = [loop EXCEPT ![l].at = "publish"]
  /\ UNCHANGED <<phase, config, raw, stopCh, closed, lastSeen, checked, known,
                 unseen, call, panicked>>

\* lastCheck is set when the callbacks have run.
Publish(l) ==
  /\ loop[l].at = "publish"
  /\ checked' = TRUE
  /\ loop' = [loop EXCEPT ![l] =
                [NoLoop EXCEPT !.at = "wait", !.every = loop[l].every]]
  /\ UNCHANGED <<phase, config, raw, stopCh, closed, lastSeen, known, marker,
                 unseen, call, panicked>>

\* The ticker fires.
Tick(l) ==
  /\ loop[l].at = "wait"
  /\ loop' = [loop EXCEPT ![l].at = "poll"]
  /\ UNCHANGED <<phase, config, raw, stopCh, closed, pollVars, unseen, call,
                 panicked>>

\* The stop channel is closed: the goroutine ends; the last Done releases
\* the waiters.
LoopStops(l) ==
  /\ loop[l].at = "wait"
  /\ l \in closed
  /\ loop' = [loop EXCEPT ![l] = NoLoop]
  /\ closed' = closed \ {l}
  /\ call' = [c \in Procs |-> IF At(c, "wait") /\ Live = {l}
                              THEN [call[c] EXCEPT !.at = "woken"]
                              ELSE call[c]]
  /\ UNCHANGED <<phase, config, raw, stopCh, pollVars, unseen, panicked>>

\* Mail arrives and is read, any amount between two polls.
MailChanges ==
  /\ unseen' \in Counts
  /\ UNCHANGED <<phase, config, raw, stopCh, closed, loopVars, call, panicked>>

Init ==
  /\ phase = "boot"
  /\ config \in Intervals \cup {"n"}
  /\ raw = "n"
  /\ stopCh = {}
  /\ closed = {}
  /\ loop = [l \in Slots |-> NoLoop]
  /\ lastSeen = 0
  /\ checked = FALSE
  /\ known = FALSE
  /\ unseen \in Counts
  /\ marker = 0
  /\ call = [c \in Procs |-> NoCall]
  /\ panicked = FALSE

Loop(l) ==
  \/ PollFails(l) \/ PollCounts(l) \/ PollRecords(l) \/ Notify(l)
  \/ Publish(l) \/ Tick(l) \/ LoopStops(l)

Next ==
  \/ Boot \/ Shutdown \/ Ended \/ MailChanges
  \/ \E c \in Callers, w \in Intervals \cup {"n"} : SaveInterval(c, w)
  \/ \E c \in Procs : Call(c)
  \/ \E l \in Slots : Loop(l)

Spec == Init /\ [][Next]_vars

(***************************************************************************)
(* Fairness: a goroutine or call that can go on does; the ticker ticks; of *)
(* a ready stop channel and a ready ticker select takes the channel in the *)
(* end; and the mail server answers again and again.                       *)
(***************************************************************************)
FairSpec ==
  /\ Spec
  /\ WF_vars(Ended)
  /\ \A c \in Procs : WF_vars(Call(c))
  /\ \A l \in Slots : /\ WF_vars(Loop(l))
                      /\ SF_vars(LoopStops(l)) /\ SF_vars(PollCounts(l))

-----------------------------------------------------------------------------
(* Properties *)

\* The poller's fields, the calls in progress and the goroutines stay in
\* their types.
TypeOK ==
  /\ phase \in {"boot", "serving", "stopping", "ended"}
  /\ {config, raw} \subseteq Intervals \cup {"n"}
  /\ stopCh \in SUBSET Slots /\ Cardinality(stopCh) <= 1
  /\ closed \in SUBSET Slots
  /\ loop \in [Slots -> [at : {"none", "poll", "counted", "notify", "publish",
                               "wait"},
                         first : BOOLEAN, prev : Counts, seen : Counts,
                         every : Intervals \cup {"n"}]]
  /\ lastSeen \in Counts /\ unseen \in Counts
  /\ checked \in BOOLEAN /\ known \in BOOLEAN
  /\ marker \in Nat
  /\ call \in [Procs -> [at : {"idle", "stop", "close", "closed", "wait",
                               "woken", "set", "start"},
                         want : Intervals \cup {"n"}, ch : SUBSET Slots]]
  /\ panicked \in BOOLEAN

\* Some API call is between its first step and its return.
Calling == \E c \in Procs : ~At(c, "idle")

\* Between calls the poller is what was last asked for.  With an interval set
\* one goroutine runs, with that interval, it is the one Stop can stop, and
\* the config file names the same interval; switched off, or once the server
\* has ended, there is neither a goroutine nor a stop channel.  And no Stop,
\* the one at shutdown included, has found its WaitGroup reused under it.
SettledPoller ==
  /\ ~panicked
  /\ phase \in {"serving", "ended"} /\ ~Calling =>
       IF raw = "n" \/ phase = "ended"
       THEN stopCh = {} /\ Live = {}
       ELSE \E l \in Slots : /\ stopCh = {l} /\ Live = {l} /\ l \notin closed
                             /\ loop[l].every = raw
                             /\ config = raw

\* If the mailbox settles at n while the poller runs, the marker settles at
\* n's bucket, after drops as after rises.
MarkerConverges ==
  \A n \in Counts :
    <>[](unseen = n /\ stopCh # {}) => <>[](marker = Bucket(n))
=============================================================================
