----------------------------- MODULE PruneLoop -----------------------------
(***************************************************************************)
(* Starting and stopping the prune goroutine (StartPruning, StopPruning in *)
(* internal/daemon/persist.go) from any number of goroutines.  Unlike the  *)
(* poller's Stop (Poller.tla), StopPruning keeps its mutex while it waits  *)
(* for the goroutine.                                                      *)
(***************************************************************************)
EXTENDS Naturals

CONSTANTS
  Callers,    \* goroutines that call StartPruning and StopPruning
  MaxLoops    \* bound on the prune goroutines started in one behaviour

ASSUME PruneAssumption == MaxLoops \in Nat \ {0}

VARIABLES
  mutex,      \* pruneMu: the set of the caller that holds it
  stop,       \* pruneStop: the goroutine it stops, 0 for nil
  closed,     \* goroutines whose stop channel is closed
  loops,      \* goroutines that have been added to pruneWG and are not Done
  ticking,    \* those of them that are inside a pruneTick
  next,       \* number of the next goroutine
  call,       \* call[c]: "idle", or where c is in its call
  misuse      \* pruneWG.Add met a waiter while the counter was zero

loopVars == <<mutex, stop, closed, loops, ticking, next, call, misuse>>

Loops == 1..MaxLoops
Go(c, a) == call' = [call EXCEPT ![c] = a]

-----------------------------------------------------------------------------
(* Calls *)

CallStart(c) ==
  /\ call[c] = "idle"
  /\ Go(c, "start")
  /\ UNCHANGED <<mutex, stop, closed, loops, ticking, next, misuse>>

CallStop(c) ==
  /\ call[c] = "idle"
  /\ Go(c, "stop")
  /\ UNCHANGED <<mutex, stop, closed, loops, ticking, next, misuse>>

\* A StartPruning that does not look for a running goroutine.
StartAlways(c) ==
  /\ call[c] = "start"
  /\ mutex = {}
  /\ next <= MaxLoops
  /\ stop' = next
  /\ loops' = loops \cup {next}
  /\ ticking' = ticking \cup {next}
  /\ next' = next + 1
  /\ Go(c, "idle")
  /\ UNCHANGED <<mutex, closed, misuse>>

\* StartPruning, under the mutex from end to end: nothing if a goroutine is
\* running; otherwise a fresh channel, Add, and the goroutine, whose first
\* tick comes at once.
Start(c) ==
  /\ call[c] = "start"
  /\ mutex = {}
  /\ \/ /\ stop # 0
        /\ UNCHANGED <<stop, loops, ticking, next, misuse>>
     \/ /\ stop = 0
        /\ next <= MaxLoops
        /\ stop' = next
        /\ loops' = loops \cup {next}
        /\ ticking' = ticking \cup {next}
        /\ next' = next + 1
        /\ misuse' = (misuse \/ \E d \in Callers : call[d] = "wait")
  /\ Go(c, "idle")
  /\ UNCHANGED <<mutex, closed>>

\* StopPruning up to the Wait; the mutex stays locked.
Stop(c) ==
  /\ call[c] = "stop"
  /\ mutex = {}
  /\ IF stop = 0
     THEN /\ Go(c, "idle")
          /\ UNCHANGED <<mutex, stop, closed>>
     ELSE /\ mutex' = {c}
          /\ closed' = closed \cup {stop}
          /\ stop' = 0
          /\ Go(c, "wait")
  /\ UNCHANGED <<loops, ticking, next, misuse>>

\* pruneWG.Wait returns, StopPruning with it.
Waited(c) ==
  /\ call[c] = "wait"
  /\ loops = {}
  /\ mutex' = mutex \ {c}
  /\ Go(c, "idle")
  /\ UNCHANGED <<stop, closed, loops, ticking, next, misuse>>

-----------------------------------------------------------------------------
(* The goroutine *)

Tick(l) ==
  /\ l \in loops \ ticking
  /\ ticking' = ticking \cup {l}
  /\ UNCHANGED <<mutex, stop, closed, loops, next, call, misuse>>

TickEnds(l) ==
  /\ l \in ticking
  /\ ticking' = ticking \ {l}
  /\ UNCHANGED <<mutex, stop, closed, loops, next, call, misuse>>

\* select takes the closed channel; deferred Done.
LoopEnds(l) ==
  /\ l \in (loops \cap closed) \ ticking
  /\ loops' = loops \ {l}
  /\ UNCHANGED <<mutex, stop, closed, ticking, next, call, misuse>>

LoopInit ==
  /\ mutex = {}
  /\ stop = 0
  /\ closed = {}
  /\ loops = {}
  /\ ticking = {}
  /\ next = 1
  /\ call = [c \in Callers |-> "idle"]
  /\ misuse = FALSE

Call(c) == Start(c) \/ Stop(c) \/ Waited(c)
Loop(l) == Tick(l) \/ TickEnds(l) \/ LoopEnds(l)

LoopNext ==
  \/ \E c \in Callers : CallStart(c) \/ CallStop(c) \/ Call(c)
  \/ \E l \in Loops : Loop(l)

LoopSpec == LoopInit /\ [][LoopNext]_loopVars

(***************************************************************************)
(* Fairness: a pass ends, select takes a closed channel in the end even if *)
(* the ticker is ready as well, a woken caller runs, and the mutex is      *)
(* handed to every caller in the end (Go's mutex does not starve).         *)
(***************************************************************************)
FairLoopSpec ==
  /\ LoopSpec
  /\ \A c \in Callers : SF_loopVars(Call(c))
  /\ \A l \in Loops : WF_loopVars(TickEnds(l)) /\ SF_loopVars(LoopEnds(l))

-----------------------------------------------------------------------------
(* Properties *)

\* The store's pruning fields and the calls stay in their types.
LoopTypeOK ==
  /\ mutex \in SUBSET Callers
  /\ stop \in 0..MaxLoops
  /\ closed \in SUBSET Loops
  /\ loops \in SUBSET Loops
  /\ ticking \in SUBSET loops
  /\ next \in 1..(MaxLoops + 1)
  /\ call \in [Callers -> {"idle", "start", "stop", "wait"}]
  /\ misuse \in BOOLEAN

\* However starts and stops overlap, no two goroutines prune the directory at
\* once, and one that was not told to stop is the one StopPruning can reach.
OneReachableLoop ==
  /\ \A l, k \in loops : l = k
  /\ \A l \in loops \ closed : stop = l

\* Add never meets a Wait: the WaitGroup is not misused.
NoMisuse == ~misuse

\* When nobody is inside a call, a goroutine runs exactly if the last
\* effective call was a start.
SettledPruning ==
  (\A c \in Callers : call[c] = "idle") => loops = IF stop = 0 THEN {} ELSE {stop}

(***************************************************************************)
(* The inductive invariant: the mutex is held exactly by a waiting caller, *)
(* and while it is free every goroutine is the one pruneStop names.        *)
(***************************************************************************)
LoopIInv ==
  /\ LoopTypeOK
  /\ OneReachableLoop
  /\ stop # 0 => stop \in loops \ closed
  /\ \A l \in loops \cup closed : l < next
  /\ \A c \in Callers : call[c] = "wait" => mutex = {c} /\ stop = 0
  /\ \A c \in mutex : call[c] = "wait"
  /\ mutex = {} /\ stop = 0 => loops = {}
  /\ misuse = FALSE

\* Every StopPruning returns.
StopReturns == \A c \in Callers : call[c] = "stop" ~> call[c] = "idle"
=============================================================================
