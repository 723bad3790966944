---------------------------- MODULE CompoundRun ----------------------------
(***************************************************************************)
(* CLIRunner.runCompound (internal/daemon/runner.go): the binaries of a    *)
(* compound command run side by side, each one's stdout joined to the next *)
(* one's stdin by an io.Pipe, all under one context with a timeout.        *)
(*                                                                         *)
(* os/exec (external) puts two goroutines around each process: one copies  *)
(* the step's Stdin into the process's stdin pipe, one copies its stdout   *)
(* pipe into the step's Stdout; Cmd.Wait returns when the process and both *)
(* of them have ended.  A write to an io.Pipe blocks until a reader takes  *)
(* it or an end is closed.  Data is counted in chunks.                     *)
(***************************************************************************)
EXTENDS Naturals, FiniteSets

CONSTANTS
  N,          \* number of steps
  Chunks,     \* bound on the chunks one step is fed or writes
  PipeSize,   \* chunks an operating-system pipe holds
  Cap,        \* chunks the capped buffer of the last step keeps
  Drains      \* do the binaries read all of their input before they exit?

ASSUME CompoundAssumption ==
  /\ N \in Nat \ {0, 1}
  /\ Chunks \in Nat /\ PipeSize \in Nat \ {0} /\ Cap \in Nat
  /\ Drains \in BOOLEAN

VARIABLES
  run,        \* runCompound: "start", "wait", "cleanup", "returned"
  started,    \* how many steps have been started
  cancelled,  \* the shared context is done
  expired,    \* history: it was the timeout or the caller that ended it
  proc,       \* proc[i]: "none", "run", "ok", "failed", "killed"
  made,       \* made[i]: chunks process i has written
  fed,        \* chunks of the input already read by the first copier
  inPipe,     \* inPipe[i]: chunks in process i's stdin pipe
  outPipe,    \* outPipe[i]: chunks in process i's stdout pipe
  inCopy,     \* inCopy[i]: stdin copier: "none", "read", "write", "done"
  outCopy,    \* outCopy[i]: stdout copier, likewise
  closedW,    \* steps whose PipeWriter is closed
  closedR,    \* steps whose PipeReader (the far end) is closed
  waited,     \* steps whose Cmd.Wait has returned
  firstErr,   \* the step firstErr names, 0 for nil, N + 1 for a start failure
  kept,       \* chunks in the last step's buffer
  total       \* chunks offered to it

vars == <<run, started, cancelled, expired, proc, made, fed, inPipe, outPipe,
          inCopy, outCopy, closedW, closedR, waited, firstErr, kept, total>>

Steps == 1..N

ctxVars  == <<cancelled, expired>>
procVars == <<proc, made>>
pipeVars == <<inPipe, outPipe>>
copyVars == <<inCopy, outCopy, fed>>
endVars  == <<closedW, closedR>>
resVars  == <<kept, total>>

-----------------------------------------------------------------------------
(* runCompound's own goroutine *)

\* c.Start of the next step: the process and its two copiers.
StartStep ==
  /\ run = "start"
  /\ started < N
  /\ ~cancelled
  /\ started' = started + 1
  /\ proc' = [proc EXCEPT ![started'] = "run"]
  /\ inCopy' = [inCopy EXCEPT ![started'] = "read"]
  /\ outCopy' = [outCopy EXCEPT ![started'] = "read"]
  /\ UNCHANGED <<run, ctxVars, made, fed, pipeVars, endVars, waited, firstErr,
                 resVars>>

\* Clean-up that leaves the pipes between the started steps open.
StartFailsPipesOpen ==
  /\ run = "start"
  /\ started < N
  /\ run' = "cleanup"
  /\ cancelled' = TRUE
  /\ firstErr' = N + 1
  /\ UNCHANGED <<started, expired, procVars, copyVars, pipeVars, endVars,
                 waited, resVars>>

\* c.Start fails: cancel, close every pipe end, then wait for the steps that
\* were started.
StartFails ==
  /\ run = "start"
  /\ started < N
  /\ run' = "cleanup"
  /\ cancelled' = TRUE
  /\ closedW' = 1..(N - 1)
  /\ closedR' = 1..(N - 1)
  /\ firstErr' = N + 1
  /\ UNCHANGED <<started, expired, procVars, copyVars, pipeVars, waited,
                 resVars>>

\* All started: one goroutine per step waits for it.
StartWaiters ==
  /\ run = "start"
  /\ started = N
  /\ run' = "wait"
  /\ UNCHANGED <<started, ctxVars, procVars, copyVars, pipeVars, endVars,
                 waited, firstErr, resVars>>

\* Cmd.Wait can return: process and copiers are done.
Ended(i) ==
  /\ proc[i] \notin {"none", "run"}
  /\ inCopy[i] = "done"
  /\ outCopy[i] = "done"

\* A waiter that reports every error, not only the first.
WaitStepLastError(i) ==
  /\ run = "wait"
  /\ i \notin waited
  /\ Ended(i)
  /\ waited' = waited \cup {i}
  /\ IF proc[i] # "ok"
     THEN firstErr' = i /\ cancelled' = TRUE
     ELSE UNCHANGED <<firstErr, cancelled>>
  /\ closedW' = closedW \cup ({i} \ {N})
  /\ UNCHANGED <<run, started, expired, procVars, copyVars, pipeVars, closedR,
                 resVars>>

\* A step's waiter: the first error is kept and cancels the context; the
\* step's write end is closed either way.
WaitStep(i) ==
  /\ run = "wait"
  /\ i \notin waited
  /\ Ended(i)
  /\ waited' = waited \cup {i}
  /\ IF proc[i] # "ok" /\ firstErr = 0
     THEN firstErr' = i /\ cancelled' = TRUE
     ELSE UNCHANGED <<firstErr, cancelled>>
  /\ closedW' = closedW \cup ({i} \ {N})
  /\ UNCHANGED <<run, started, expired, procVars, copyVars, pipeVars, closedR,
                 resVars>>

\* The clean-up waits for the started steps one after another.
CleanupStep(i) ==
  /\ run = "cleanup"
  /\ i <= started
  /\ i \notin waited
  /\ \A j \in 1..(i - 1) : j \in waited
  /\ Ended(i)
  /\ waited' = waited \cup {i}
  /\ UNCHANGED <<run, started, ctxVars, procVars, copyVars, pipeVars, endVars,
                 firstErr, resVars>>

\* A run that does not wait for the last step's copier.
ReturnEarly ==
  /\ run \in {"wait", "cleanup"}
  /\ \A i \in 1..started : proc[i] # "run"
  /\ run' = "returned"
  /\ UNCHANGED <<started, ctxVars, procVars, copyVars, pipeVars, endVars,
                 waited, firstErr, resVars>>

\* wg.Wait, or the clean-up, is over.
Return ==
  /\ run \in {"wait", "cleanup"}
  /\ waited = 1..started
  /\ run' = "returned"
  /\ UNCHANGED <<started, ctxVars, procVars, copyVars, pipeVars, endVars,
                 waited, firstErr, resVars>>

\* The timeout, or the caller's context.
Expire ==
  /\ run # "returned"
  /\ ~cancelled
  /\ cancelled' = TRUE
  /\ expired' = TRUE
  /\ UNCHANGED <<run, started, procVars, copyVars, pipeVars, endVars, waited,
                 firstErr, resVars>>

-----------------------------------------------------------------------------
(* The processes *)

Consume(i) ==
  /\ proc[i] = "run"
  /\ inPipe[i] > 0
  /\ inPipe' = [inPipe EXCEPT ![i] = @ - 1]
  /\ UNCHANGED <<run, started, ctxVars, procVars, copyVars, outPipe, endVars,
                 waited, firstErr, resVars>>

Produce(i) ==
  /\ proc[i] = "run"
  /\ made[i] < Chunks
  /\ outPipe[i] < PipeSize
  /\ made' = [made EXCEPT ![i] = @ + 1]
  /\ outPipe' = [outPipe EXCEPT ![i] = @ + 1]
  /\ UNCHANGED <<run, started, ctxVars, proc, copyVars, inPipe, endVars,
                 waited, firstErr, resVars>>

\* The process exits of itself; a well-behaved one has read its stdin to the
\* end first.
ExitProcess(i) ==
  /\ proc[i] = "run"
  /\ Drains => inCopy[i] = "done" /\ inPipe[i] = 0
  /\ \E s \in {"ok", "failed"} : proc' = [proc EXCEPT ![i] = s]
  /\ UNCHANGED <<run, started, ctxVars, made, copyVars, pipeVars, endVars,
                 waited, firstErr, resVars>>

\* CommandContext kills the process once the context is done.
KillProcess(i) ==
  /\ proc[i] = "run"
  /\ cancelled
  /\ proc' = [proc EXCEPT ![i] = "killed"]
  /\ UNCHANGED <<run, started, ctxVars, made, copyVars, pipeVars, endVars,
                 waited, firstErr, resVars>>

-----------------------------------------------------------------------------
(* The copiers of os/exec *)

\* The first step's copier reads the input text, up to its end.
FeedFirst ==
  /\ inCopy[1] = "read"
  /\ \/ /\ fed < Chunks
        /\ fed' = fed + 1
        /\ inCopy' = [inCopy EXCEPT ![1] = "write"]
     \/ /\ inCopy' = [inCopy EXCEPT ![1] = "done"]
        /\ UNCHANGED fed
  /\ UNCHANGED <<run, started, ctxVars, procVars, pipeVars, outCopy, endVars,
                 waited, firstErr, resVars>>

\* The stdin copier puts its chunk into the process's pipe, or meets a closed
\* one, which ends it.
CopyIn(i) ==
  /\ inCopy[i] = "write"
  /\ \/ /\ proc[i] = "run"
        /\ inPipe[i] < PipeSize
        /\ inPipe' = [inPipe EXCEPT ![i] = @ + 1]
        /\ inCopy' = [inCopy EXCEPT ![i] = "read"]
     \/ /\ proc[i] # "run"
        /\ inCopy' = [inCopy EXCEPT ![i] = "done"]
        /\ UNCHANGED inPipe
  /\ UNCHANGED <<run, started, ctxVars, procVars, fed, outPipe, outCopy,
                 endVars, waited, firstErr, resVars>>

\* A later step's stdin copier finds the io.Pipe closed at either end.
CopyInEnds(i) ==
  /\ i > 1
  /\ inCopy[i] = "read"
  /\ (i - 1) \in closedW \cup closedR
  /\ inCopy' = [inCopy EXCEPT ![i] = "done"]
  /\ UNCHANGED <<run, started, ctxVars, procVars, fed, pipeVars, outCopy,
                 endVars, waited, firstErr, resVars>>

\* The stdout copier takes a chunk from the process, or sees the end of it.
CopyOut(i) ==
  /\ outCopy[i] = "read"
  /\ \/ /\ outPipe[i] > 0
        /\ outPipe' = [outPipe EXCEPT ![i] = @ - 1]
        /\ outCopy' = [outCopy EXCEPT ![i] = "write"]
     \/ /\ outPipe[i] = 0
        /\ proc[i] # "run"
        /\ outCopy' = [outCopy EXCEPT ![i] = "done"]
        /\ UNCHANGED outPipe
  /\ UNCHANGED <<run, started, ctxVars, procVars, fed, inPipe, inCopy,
                 endVars, waited, firstErr, resVars>>

\* io.Pipe hands the chunk of step i's stdout copier to step i + 1's stdin
\* copier.
Transfer(i) ==
  /\ i < N
  /\ outCopy[i] = "write"
  /\ inCopy[i + 1] = "read"
  /\ i \notin closedW \cup closedR
  /\ outCopy' = [outCopy EXCEPT ![i] = "read"]
  /\ inCopy' = [inCopy EXCEPT ![i + 1] = "write"]
  /\ UNCHANGED <<run, started, ctxVars, procVars, fed, pipeVars, endVars,
                 waited, firstErr, resVars>>

\* A write to a closed io.Pipe fails and ends the copier.
CopyOutFails(i) ==
  /\ i < N
  /\ outCopy[i] = "write"
  /\ i \in closedW \cup closedR
  /\ outCopy' = [outCopy EXCEPT ![i] = "done"]
  /\ UNCHANGED <<run, started, ctxVars, procVars, fed, pipeVars, inCopy,
                 endVars, waited, firstErr, resVars>>

\* Counting only what is kept.
CaptureUncounted ==
  /\ outCopy[N] = "write"
  /\ total' = IF kept < Cap THEN total + 1 ELSE total
  /\ kept' = IF kept < Cap THEN kept + 1 ELSE kept
  /\ outCopy' = [outCopy EXCEPT ![N] = "read"]
  /\ UNCHANGED <<run, started, ctxVars, procVars, fed, pipeVars, inCopy,
                 endVars, waited, firstErr>>

\* cappedWriter.Write: everything is counted, Cap chunks are kept.
Capture ==
  /\ outCopy[N] = "write"
  /\ total' = total + 1
  /\ kept' = IF kept < Cap THEN kept + 1 ELSE kept
  /\ outCopy' = [outCopy EXCEPT ![N] = "read"]
  /\ UNCHANGED <<run, started, ctxVars, procVars, fed, pipeVars, inCopy,
                 endVars, waited, firstErr>>

\* cappedWriter.dropped() > 0
Truncated == total > Cap

-----------------------------------------------------------------------------
Init ==
  /\ run = "start"
  /\ started = 0
  /\ cancelled = FALSE /\ expired = FALSE
  /\ proc = [i \in Steps |-> "none"]
  /\ made = [i \in Steps |-> 0]
  /\ fed = 0
  /\ inPipe = [i \in Steps |-> 0] /\ outPipe = [i \in Steps |-> 0]
  /\ inCopy = [i \in Steps |-> "none"] /\ outCopy = [i \in Steps |-> "none"]
  /\ closedW = {} /\ closedR = {}
  /\ waited = {}
  /\ firstErr = 0
  /\ kept = 0 /\ total = 0

Caller == StartStep \/ StartFails \/ StartWaiters \/ Return

Process(i) == Consume(i) \/ Produce(i) \/ ExitProcess(i) \/ KillProcess(i)

\* The goroutines around the processes.
Waiter(i) == WaitStep(i) \/ CleanupStep(i)

StdinCopier(i) == (i = 1 /\ FeedFirst) \/ CopyIn(i) \/ CopyInEnds(i)

StdoutCopier(i) ==
  CopyOut(i) \/ Transfer(i) \/ CopyOutFails(i) \/ (i = N /\ Capture)

Next ==
  \/ Caller \/ Expire
  \/ \E i \in Steps :
       Process(i) \/ Waiter(i) \/ StdinCopier(i) \/ StdoutCopier(i)

Spec == Init /\ [][Next]_vars

(***************************************************************************)
(* Fairness: goroutines run, the timeout fires, a process is killed once   *)
(* the context is done.  Nothing is assumed of a process before that.      *)
(***************************************************************************)
FairSpec ==
  /\ Spec
  /\ WF_vars(Caller) /\ WF_vars(Expire)
  /\ \A i \in Steps :
       /\ WF_vars(KillProcess(i)) /\ WF_vars(Waiter(i))
       /\ WF_vars(StdinCopier(i)) /\ WF_vars(StdoutCopier(i))

-----------------------------------------------------------------------------
(* Properties *)

\* "The buffer is complete once wg.Wait returns": a run that reports success
\* has every step succeed and returns all the last step wrote, up to the cap,
\* flagged truncated exactly if some of it is missing.
SuccessIsWhole ==
  run = "returned" /\ firstErr = 0 =>
    /\ \A i \in Steps : proc[i] = "ok"
    /\ total = made[N]
    /\ Truncated <=> kept < made[N]

\* The error returned names a step that failed by itself or ran out of time,
\* never one that was only killed because another had failed.
CauseNotVictim ==
  firstErr \in Steps => proc[firstErr] = "failed" \/ expired

\* Whatever way runCompound returns, no process and no copier is left behind.
NothingLeaks ==
  run = "returned" => \A i \in 1..started : Ended(i)

\* A step that cannot be started does not leave the daemon waiting for the
\* ones that were: until the clean-up has returned, some goroutine can go on
\* or some process is about to be killed.  Nothing new is started by then and
\* each of them has finitely many steps left, so it does return.
CleanupNotStuck ==
  run = "cleanup" =>
    ENABLED (\/ Caller
             \/ \E i \in Steps : \/ KillProcess(i) \/ Waiter(i)
                                \/ StdinCopier(i) \/ StdoutCopier(i))

\* "running all steps concurrently under a shared context timeout": the run
\* comes to an end, at the latest after the timeout.  Fails, even if every
\* binary reads its input to the end before it exits: when the timeout kills
\* step i + 1, its stdin copier goes with it, the stdout copier of step i
\* blocks in a write to an io.Pipe nobody reads or closes any more, and
\* killing step i does not release it.
RunReturns == <>(run = "returned")
=============================================================================
