------------------------- MODULE CompoundRunProofs -------------------------
(***************************************************************************)
(* Proofs about CompoundRun.tla for every number of steps, every amount of *)
(* data, every pipe size and every cap, and for processes that read their  *)
(* input as well as for those that do not.                                 *)
(***************************************************************************)
EXTENDS CompoundRun, TLAPS

Copying == {"none", "read", "write", "done"}

\* The flags cancelled and expired only ever hold a Boolean; nothing needs it.
TypeInv ==
  /\ run \in {"start", "wait", "cleanup", "returned"}
  /\ started \in 0..N
  /\ proc \in [Steps -> {"none", "run", "ok", "failed", "killed"}]
  /\ made \in [Steps -> Nat]
  /\ fed \in Nat
  /\ inPipe \in [Steps -> Nat] /\ outPipe \in [Steps -> Nat]
  /\ inCopy \in [Steps -> Copying] /\ outCopy \in [Steps -> Copying]
  /\ waited \in SUBSET Steps
  /\ firstErr \in 0..(N + 1)
  /\ kept \in Nat /\ total \in Nat

\* A step is started as a whole, process and copiers, and in order.
StartedInv(i) ==
  IF i <= started
    THEN proc[i] # "none" /\ inCopy[i] # "none" /\ outCopy[i] # "none"
    ELSE proc[i] = "none" /\ inCopy[i] = "none" /\ outCopy[i] = "none"

\* Wait returned for this step: it has ended, and an error of it has been
\* noticed unless the run is being cleaned up.
WaitedInv(i) ==
  i \in waited =>
    /\ Ended(i) /\ i <= started
    /\ proc[i] # "ok" => firstErr # 0

\* A process is killed only after the timeout or after another's error.
KilledInv(i) == proc[i] = "killed" => expired \/ firstErr # 0

RunInv ==
  /\ run = "start" => waited = {}
  /\ run = "wait" => started = N
  /\ run = "cleanup" => firstErr # 0
  /\ run = "returned" =>
       /\ waited = 1..started
       /\ started = N \/ firstErr # 0
  /\ cancelled => expired \/ firstErr # 0
  /\ CauseNotVictim

\* Nothing the last step writes gets lost on its way to the buffer: it is in
\* the pipe, in the copier's hands or counted.
FlowInv ==
  /\ made[N] = total + outPipe[N] + (IF outCopy[N] = "write" THEN 1 ELSE 0)
  /\ outCopy[N] = "done" => outPipe[N] = 0 /\ proc[N] # "run"
  /\ kept = IF total <= Cap THEN total ELSE Cap

IInv ==
  /\ TypeInv /\ RunInv /\ FlowInv
  /\ \A i \in Steps : StartedInv(i) /\ WaitedInv(i) /\ KilledInv(i)

USE DEF Steps, ctxVars, procVars, pipeVars, copyVars, endVars, resVars
-----------------------------------------------------------------------------
\* The sizes, without the switch Drains.
LEMMA Sizes == N \in Nat \ {0, 1} /\ Cap \in Nat
BY CompoundAssumption

USE Sizes

\* Nothing has been started yet.
LEMMA Initially == Init => IInv
<1> SUFFICES ASSUME Init PROVE IInv
  OBVIOUS
<1>1. TypeInv
  BY DEF Init, TypeInv, Copying
<1>2. RunInv
  BY DEF Init, RunInv, CauseNotVictim
<1>3. FlowInv
  BY DEF Init, FlowInv
<1>4. ASSUME NEW i \in Steps
      PROVE  StartedInv(i) /\ WaitedInv(i) /\ KilledInv(i)
  BY DEF Init, StartedInv, WaitedInv, KilledInv
<1> QED
  BY <1>1, <1>2, <1>3, <1>4 DEF IInv

\* Starting a step, failing to, and handing over to the waiters.
LEMMA CallerSteps ==
  ASSUME IInv, Caller \/ Expire
  PROVE  IInv'
<1> USE DEF IInv
<1>1. CASE StartStep
  <2> DEFINE s == started + 1
  <2>1. /\ s \in Steps /\ started' = s /\ started \in Nat
        /\ run = "start" /\ waited = {} /\ ~cancelled
        /\ UNCHANGED <<run, cancelled, expired, made, fed, inPipe, outPipe,
                       waited, firstErr, kept, total>>
    BY <1>1 DEF StartStep, TypeInv, RunInv
  <2>2. /\ proc[s] = "none" /\ inCopy[s] = "none" /\ outCopy[s] = "none"
    BY <2>1 DEF StartedInv
  <2>3. /\ proc' = [proc EXCEPT ![s] = "run"]
        /\ inCopy' = [inCopy EXCEPT ![s] = "read"]
        /\ outCopy' = [outCopy EXCEPT ![s] = "read"]
    BY <1>1, <2>1 DEF StartStep
  <2>4. TypeInv'
    BY <2>1, <2>3 DEF TypeInv, Copying
  <2>5. RunInv'
    <3>1. CauseNotVictim'
      BY <2>1, <2>2, <2>3 DEF RunInv, CauseNotVictim, TypeInv
    <3> QED
      BY <2>1, <3>1 DEF RunInv
  <2>6. FlowInv'
    <3>1. \/ outCopy[N] = outCopy'[N] /\ proc[N] = proc'[N]
          \/ outCopy[N] = "none" /\ outCopy'[N] = "read"
      <4>1. CASE s = N
        BY <2>1, <2>2, <2>3, <4>1 DEF TypeInv
      <4>2. CASE s # N
        BY <2>1, <2>3, <4>2 DEF TypeInv
      <4> QED
        BY <4>1, <4>2
    <3> QED
      BY <2>1, <3>1 DEF FlowInv, TypeInv
  <2>7. ASSUME NEW i \in Steps
        PROVE  StartedInv(i)' /\ WaitedInv(i)' /\ KilledInv(i)'
    <3>1. StartedInv(i)'
      BY <2>1, <2>3 DEF StartedInv, TypeInv
    <3>2. KilledInv(i)'
      BY <2>1, <2>3 DEF KilledInv, TypeInv
    <3> QED
      BY <2>1, <3>1, <3>2 DEF WaitedInv
  <2> QED
    BY <2>4, <2>5, <2>6, <2>7
<1>2. CASE StartFails \/ StartWaiters \/ Return \/ Expire
  <2>1. UNCHANGED <<started, proc, made, fed, inPipe, outPipe, inCopy,
                    outCopy, waited, kept, total>>
    BY <1>2 DEF StartFails, StartWaiters, Return, Expire
  <2>2. \/ firstErr' = N + 1 /\ run = "start" /\ run' = "cleanup"
           /\ expired' = expired /\ cancelled' = TRUE
        \/ firstErr' = firstErr /\ run = "start" /\ started = N
           /\ run' = "wait" /\ UNCHANGED <<cancelled, expired>>
        \/ firstErr' = firstErr /\ run \in {"wait", "cleanup"}
           /\ waited = 1..started
           /\ run' = "returned" /\ UNCHANGED <<cancelled, expired>>
        \/ UNCHANGED <<firstErr, run>> /\ cancelled' = TRUE /\ expired' = TRUE
    BY <1>2 DEF StartFails, StartWaiters, Return, Expire
  <2>3. TypeInv'
    <3>1. firstErr' \in 0..(N + 1)
      BY <2>2 DEF TypeInv
    <3>2. run' \in {"start", "wait", "cleanup", "returned"}
      BY <2>2 DEF TypeInv
    <3> QED
      BY <2>1, <3>1, <3>2 DEF TypeInv
  <2>4. RunInv'
    <3>1. CauseNotVictim'
      BY <2>1, <2>2 DEF RunInv, CauseNotVictim
    <3> QED
      BY <2>1, <2>2, <3>1 DEF RunInv
  <2>5. FlowInv'
    BY <2>1 DEF FlowInv
  <2>6. firstErr # 0 => firstErr' # 0
    BY <2>2
  <2>7. expired => expired'
    BY <2>2
  <2>8. ASSUME NEW i \in Steps
        PROVE  StartedInv(i)' /\ WaitedInv(i)' /\ KilledInv(i)'
    BY <2>1, <2>6, <2>7 DEF StartedInv, WaitedInv, KilledInv, Ended
  <2> QED
    BY <2>3, <2>4, <2>5, <2>8
<1> QED
  BY <1>1, <1>2 DEF Caller

\* A waiter keeps the first error and closes the step's write end.
LEMMA WaiterSteps ==
  ASSUME IInv, NEW k \in Steps, Waiter(k)
  PROVE  IInv'
<1> USE DEF IInv
<1>1. /\ Ended(k) /\ k \notin waited /\ waited' = waited \cup {k}
      /\ UNCHANGED <<run, started, expired, proc, made, fed, inPipe, outPipe,
                     inCopy, outCopy, kept, total>>
  BY DEF Waiter, WaitStep, CleanupStep
<1>2. k <= started /\ run \in {"wait", "cleanup"}
  BY DEF Waiter, WaitStep, CleanupStep, RunInv
<1>3. \/ proc[k] # "ok" /\ firstErr = 0 /\ firstErr' = k /\ cancelled' = TRUE
      \/ /\ UNCHANGED <<firstErr, cancelled>>
         /\ proc[k] = "ok" \/ firstErr # 0
  BY DEF Waiter, WaitStep, CleanupStep, RunInv
<1>4. firstErr # 0 => firstErr' = firstErr
  BY <1>3
<1>5. proc[k] # "ok" => firstErr' # 0
  BY <1>3
<1>6. TypeInv'
  BY <1>1, <1>3, SMTT(30) DEF TypeInv
<1>7. RunInv'
  <2>1. CauseNotVictim'
    <3>1. CASE UNCHANGED firstErr
      BY <1>1, <3>1 DEF RunInv, CauseNotVictim
    <3>2. CASE proc[k] # "ok" /\ firstErr = 0 /\ firstErr' = k
      <4>1. proc[k] \in {"failed", "killed"}
        BY <1>1, <3>2 DEF Ended, TypeInv
      <4>2. proc[k] = "killed" => expired
        BY <3>2 DEF KilledInv
      <4> QED
        BY <1>1, <3>2, <4>1, <4>2 DEF CauseNotVictim
    <3> QED
      BY <1>3, <3>1, <3>2
  <2>2. cancelled' => expired' \/ firstErr' # 0
    <3>1. cancelled => expired \/ firstErr # 0
      BY DEF RunInv
    <3>2. CASE UNCHANGED <<firstErr, cancelled>>
      BY <1>1, <3>1, <3>2
    <3>3. CASE firstErr' = k
      BY <3>3
    <3> QED
      BY <1>3, <3>2, <3>3
  <2> QED
    BY <1>1, <1>2, <1>4, <2>1, <2>2 DEF RunInv
<1>8. FlowInv'
  BY <1>1 DEF FlowInv
<1>9. ASSUME NEW i \in Steps
      PROVE  StartedInv(i)' /\ WaitedInv(i)' /\ KilledInv(i)'
  <2>1. StartedInv(i)'
    BY <1>1 DEF StartedInv
  <2>2. KilledInv(i)'
    BY <1>1, <1>4 DEF KilledInv
  <2>3. WaitedInv(i)'
    <3>1. CASE i = k
      BY <1>1, <1>2, <1>5, <3>1 DEF WaitedInv, Ended
    <3>2. CASE i # k
      BY <1>1, <1>4, <3>2 DEF WaitedInv, Ended
    <3> QED
      BY <3>1, <3>2
  <2> QED
    BY <2>1, <2>2, <2>3
<1> QED
  BY <1>6, <1>7, <1>8, <1>9

\* Processes and copiers only go forward: what has ended stays so.
LEMMA Frame ==
  ASSUME IInv, TypeInv', FlowInv',
         UNCHANGED <<run, started, cancelled, expired, waited, firstErr>>,
         \A i \in Steps :
           /\ \/ proc'[i] = proc[i]
              \/ /\ proc[i] = "run"
                 /\ proc'[i] \in {"ok", "failed", "killed"}
                 /\ proc'[i] = "killed" => cancelled
           /\ \/ inCopy'[i] = inCopy[i]
              \/ /\ inCopy[i] \in {"read", "write"}
                 /\ inCopy'[i] \in {"read", "write", "done"}
           /\ \/ outCopy'[i] = outCopy[i]
              \/ /\ outCopy[i] \in {"read", "write"}
                 /\ outCopy'[i] \in {"read", "write", "done"}
  PROVE  IInv'
<1> USE DEF IInv
<1>1. RunInv'
  <2>1. CauseNotVictim'
    BY DEF RunInv, CauseNotVictim
  <2> QED
    BY <2>1 DEF RunInv
<1>2. ASSUME NEW i \in Steps
      PROVE  StartedInv(i)' /\ WaitedInv(i)' /\ KilledInv(i)'
  <2>1. StartedInv(i)'
    BY DEF StartedInv
  <2>2. KilledInv(i)'
    BY DEF KilledInv, RunInv
  <2>3. WaitedInv(i)'
    BY DEF WaitedInv, Ended
  <2> QED
    BY <2>1, <2>2, <2>3
<1> QED
  BY <1>1, <1>2

\* The processes read, write, exit and are killed.
LEMMA ProcessSteps ==
  ASSUME IInv, NEW k \in Steps, Process(k)
  PROVE  IInv'
<1> USE DEF IInv
<1>1. UNCHANGED <<run, started, cancelled, expired, waited, firstErr, inCopy,
                  outCopy, fed, kept, total>>
  BY DEF Process, Consume, Produce, ExitProcess, KillProcess
<1>2. CASE Consume(k)
  <2>1. UNCHANGED <<proc, made, outPipe>>
    BY <1>2 DEF Consume
  <2>2. TypeInv'
    <3>1. inPipe' \in [Steps -> Nat]
      BY <1>2, SMTT(30) DEF Consume, TypeInv
    <3> QED
      BY <1>1, <2>1, <3>1 DEF TypeInv
  <2>3. FlowInv'
    BY <1>1, <2>1 DEF FlowInv
  <2> QED
    BY <1>1, <2>1, <2>2, <2>3, Frame
<1>3. CASE Produce(k)
  <2>1. /\ UNCHANGED <<proc, inPipe>> /\ proc[k] = "run"
        /\ made' = [made EXCEPT ![k] = made[k] + 1]
        /\ outPipe' = [outPipe EXCEPT ![k] = outPipe[k] + 1]
    BY <1>3 DEF Produce
  <2>2. TypeInv'
    <3>1. made' \in [Steps -> Nat] /\ outPipe' \in [Steps -> Nat]
      <4>1. /\ made \in [Steps -> Nat] /\ outPipe \in [Steps -> Nat]
            /\ made[k] + 1 \in Nat /\ outPipe[k] + 1 \in Nat
        <5>1. made[k] \in Nat /\ outPipe[k] \in Nat
          BY DEF TypeInv
        <5>2. made[k] + 1 \in Nat /\ outPipe[k] + 1 \in Nat
          BY <5>1
        <5> QED
          BY <5>2 DEF TypeInv
      <4> QED
        BY <2>1, <4>1
    <3> QED
      BY <1>1, <2>1, <3>1 DEF TypeInv
  <2>3. FlowInv'
    <3>1. CASE k = N
      <4>1. /\ made'[N] = made[N] + 1 /\ outPipe'[N] = outPipe[N] + 1
            /\ total \in Nat /\ outPipe[N] \in Nat
        BY <2>1, <3>1 DEF TypeInv
      <4> QED
        BY <1>1, <2>1, <3>1, <4>1 DEF FlowInv
    <3>2. CASE k # N
      <4>1. made'[N] = made[N] /\ outPipe'[N] = outPipe[N]
        BY <2>1, <3>2 DEF TypeInv
      <4> QED
        BY <1>1, <2>1, <4>1 DEF FlowInv
    <3> QED
      BY <3>1, <3>2
  <2> QED
    BY <1>1, <2>1, <2>2, <2>3, Frame
<1>4. CASE ExitProcess(k) \/ KillProcess(k)
  <2>1. PICK s \in {"ok", "failed", "killed"} :
          /\ proc' = [proc EXCEPT ![k] = s]
          /\ s = "killed" => cancelled
    BY <1>4 DEF ExitProcess, KillProcess
  <2>2. UNCHANGED <<made, inPipe, outPipe>> /\ proc[k] = "run"
    BY <1>4 DEF ExitProcess, KillProcess
  <2>3. TypeInv'
    BY <1>1, <2>1, <2>2 DEF TypeInv
  <2>4. FlowInv'
    BY <1>1, <2>1, <2>2 DEF FlowInv, TypeInv
  <2>5. \A i \in Steps :
          \/ proc'[i] = proc[i]
          \/ /\ proc[i] = "run" /\ proc'[i] \in {"ok", "failed", "killed"}
             /\ proc'[i] = "killed" => cancelled
    BY <2>1, <2>2 DEF TypeInv
  <2> QED
    BY <1>1, <2>3, <2>4, <2>5, Frame
<1> QED
  BY <1>2, <1>3, <1>4 DEF Process

\* The copiers in front of the processes.
LEMMA StdinSteps ==
  ASSUME IInv, NEW k \in Steps, StdinCopier(k)
  PROVE  IInv'
<1> USE DEF IInv
<1>1. UNCHANGED <<run, started, cancelled, expired, waited, firstErr, proc,
                  made, outPipe, outCopy, kept, total>>
  BY DEF StdinCopier, FeedFirst, CopyIn, CopyInEnds
<1>2. PICK s \in {"read", "write", "done"} :
        inCopy' = [inCopy EXCEPT ![k] = s]
  BY DEF StdinCopier, FeedFirst, CopyIn, CopyInEnds
<1>3. inCopy[k] \in {"read", "write"}
  BY DEF StdinCopier, FeedFirst, CopyIn, CopyInEnds
<1>4. inPipe' \in [Steps -> Nat] /\ fed' \in Nat
  <2>1. inPipe \in [Steps -> Nat] /\ inPipe[k] + 1 \in Nat /\ fed \in Nat
    BY SMTT(30) DEF TypeInv
  <2>2. fed' \in {fed, fed + 1}
    BY DEF StdinCopier, FeedFirst, CopyIn, CopyInEnds
  <2>3. inPipe' = inPipe \/ inPipe' = [inPipe EXCEPT ![k] = inPipe[k] + 1]
    BY DEF StdinCopier, FeedFirst, CopyIn, CopyInEnds
  <2> QED
    BY <2>1, <2>2, <2>3, SMTT(30)
<1>5. TypeInv'
  BY <1>1, <1>2, <1>4 DEF TypeInv, Copying
<1>6. FlowInv'
  BY <1>1 DEF FlowInv
<1>7. \A i \in Steps :
        \/ inCopy'[i] = inCopy[i]
        \/ /\ inCopy[i] \in {"read", "write"}
           /\ inCopy'[i] \in {"read", "write", "done"}
  BY <1>2, <1>3 DEF TypeInv
<1> QED
  BY <1>1, <1>5, <1>6, <1>7, Frame

\* The copiers behind the processes: none but the last one's reaches the
\* buffer, and the last one's never fails.
LEMMA StdoutSteps ==
  ASSUME IInv, NEW k \in Steps, StdoutCopier(k)
  PROVE  IInv'
<1> USE DEF IInv
<1>1. UNCHANGED <<run, started, cancelled, expired, waited, firstErr, proc,
                  made, fed, inPipe>>
  BY DEF StdoutCopier, CopyOut, Transfer, CopyOutFails, Capture
<1>2. PICK s \in {"read", "write", "done"} :
        outCopy' = [outCopy EXCEPT ![k] = s]
  BY DEF StdoutCopier, CopyOut, Transfer, CopyOutFails, Capture
<1>3. outCopy[k] \in {"read", "write"}
  BY DEF StdoutCopier, CopyOut, Transfer, CopyOutFails, Capture
<1>4. \A i \in Steps :
        \/ outCopy'[i] = outCopy[i]
        \/ /\ outCopy[i] \in {"read", "write"}
           /\ outCopy'[i] \in {"read", "write", "done"}
  BY <1>2, <1>3 DEF TypeInv
<1>5. CASE CopyOut(k)
  <2>1. UNCHANGED <<inCopy, kept, total>> /\ outCopy[k] = "read"
    BY <1>5 DEF CopyOut
  <2>2. \/ /\ outPipe[k] > 0
           /\ outPipe' = [outPipe EXCEPT ![k] = outPipe[k] - 1]
           /\ outCopy' = [outCopy EXCEPT ![k] = "write"]
        \/ /\ outPipe[k] = 0 /\ proc[k] # "run" /\ outPipe' = outPipe
           /\ outCopy' = [outCopy EXCEPT ![k] = "done"]
    BY <1>5 DEF CopyOut
  <2>3. TypeInv'
    <3>1. outPipe' \in [Steps -> Nat]
      <4>1. outPipe[k] \in Nat /\ outPipe \in [Steps -> Nat]
        BY DEF TypeInv
      <4>2. outPipe[k] > 0 => outPipe[k] - 1 \in Nat
        BY <4>1
      <4> QED
        BY <2>2, <4>1, <4>2
    <3> QED
      BY <1>1, <1>2, <2>1, <3>1 DEF TypeInv, Copying
  <2>4. FlowInv'
    <3>1. CASE k = N
      <4>1. outPipe[N] \in Nat /\ total \in Nat /\ outCopy[N] = "read"
        BY <2>1, <3>1 DEF TypeInv
      <4>2. \/ /\ outPipe[N] > 0 /\ outPipe'[N] = outPipe[N] - 1
               /\ outCopy'[N] = "write"
            \/ /\ outPipe[N] = 0 /\ proc[N] # "run"
               /\ outPipe'[N] = outPipe[N] /\ outCopy'[N] = "done"
        BY <2>2, <3>1 DEF TypeInv
      <4> QED
        BY <1>1, <2>1, <4>1, <4>2 DEF FlowInv
    <3>2. CASE k # N
      <4>1. outPipe'[N] = outPipe[N] /\ outCopy'[N] = outCopy[N]
        BY <2>2, <3>2, SMTT(30) DEF TypeInv
      <4> QED
        BY <1>1, <2>1, <4>1 DEF FlowInv
    <3> QED
      BY <3>1, <3>2
  <2> QED
    BY <1>1, <1>4, <2>1, <2>3, <2>4, Frame
<1>6. CASE Transfer(k) \/ CopyOutFails(k)
  <2>1. k < N /\ UNCHANGED <<outPipe, kept, total>>
    BY <1>6 DEF Transfer, CopyOutFails
  <2>2. \A i \in Steps :
          \/ inCopy'[i] = inCopy[i]
          \/ inCopy[i] = "read" /\ inCopy'[i] = "write"
    BY <1>6 DEF Transfer, CopyOutFails, TypeInv
  <2>3. inCopy' \in [Steps -> Copying]
    BY <1>6 DEF Transfer, CopyOutFails, TypeInv, Copying
  <2>4. TypeInv'
    BY <1>1, <1>2, <2>1, <2>3 DEF TypeInv, Copying
  <2>5. outCopy'[N] = outCopy[N]
    BY <1>2, <2>1 DEF TypeInv
  <2>6. FlowInv'
    BY <1>1, <2>1, <2>5 DEF FlowInv
  <2> QED
    BY <1>1, <1>4, <2>2, <2>4, <2>6, Frame
<1>7. CASE k = N /\ Capture
  <2>1. /\ UNCHANGED <<inCopy, outPipe>> /\ outCopy[N] = "write"
        /\ total' = total + 1
        /\ kept' = IF kept < Cap THEN kept + 1 ELSE kept
        /\ outCopy' = [outCopy EXCEPT ![N] = "read"]
    BY <1>7 DEF Capture
  <2>2. TypeInv'
    BY <1>1, <2>1, SMTT(30) DEF TypeInv, Copying
  <2>3. FlowInv'
    BY <1>1, <2>1, SMTT(30) DEF FlowInv, TypeInv
  <2> QED
    BY <1>1, <1>4, <2>1, <2>2, <2>3, Frame
<1> QED
  BY <1>5, <1>6, <1>7 DEF StdoutCopier

\* IInv holds in every reachable state.
THEOREM Inductive == Spec => []IInv
<1>1. IInv /\ [Next]_vars => IInv'
  <2> SUFFICES ASSUME IInv, [Next]_vars PROVE IInv'
    OBVIOUS
  <2>1. CASE UNCHANGED vars
    BY <2>1 DEF vars, IInv, TypeInv, RunInv, FlowInv, StartedInv, WaitedInv,
                KilledInv, Ended, CauseNotVictim
  <2> QED
    BY <2>1, CallerSteps, WaiterSteps, ProcessSteps, StdinSteps, StdoutSteps
    DEF Next
<1> QED
  BY <1>1, Initially, PTL DEF Spec

\* A compound run that reports success had every step succeed and returns
\* what the last one wrote, up to the cap, with a truthful flag.
THEOREM WholeOutput == Spec => []SuccessIsWhole
<1>1. IInv => SuccessIsWhole
  <2> SUFFICES ASSUME IInv, run = "returned", firstErr = 0
               PROVE  /\ \A i \in Steps : proc[i] = "ok"
                      /\ total = made[N]
                      /\ Truncated <=> kept < made[N]
    BY DEF SuccessIsWhole
  <2>1. waited = Steps
    BY DEF IInv, RunInv
  <2>2. \A i \in Steps : proc[i] = "ok" /\ Ended(i)
    BY <2>1 DEF IInv, WaitedInv
  <2>3. outCopy[N] = "done"
    BY <2>2 DEF Ended
  <2>4. total = made[N] /\ total \in Nat
    BY <2>3 DEF IInv, FlowInv, TypeInv
  <2>5. Truncated <=> kept < made[N]
    BY <2>4 DEF IInv, FlowInv, TypeInv, Truncated
  <2> QED
    BY <2>2, <2>4, <2>5
<1> QED
  BY <1>1, Inductive, PTL

\* The error a compound run returns names a culprit, not a casualty.
THEOREM ErrorNamesTheCause == Spec => []CauseNotVictim
<1>1. IInv => CauseNotVictim
  BY DEF IInv, RunInv
<1> QED
  BY <1>1, Inductive, PTL

\* No process and no copier outlives a compound run.
THEOREM NoLeak == Spec => []NothingLeaks
<1>1. IInv => NothingLeaks
  <2> SUFFICES ASSUME IInv, run = "returned", NEW i \in 1..started
               PROVE  Ended(i)
    BY DEF NothingLeaks
  <2>1. i \in waited /\ i \in Steps
    BY DEF IInv, RunInv, TypeInv
  <2> QED
    BY <2>1 DEF IInv, WaitedInv
<1> QED
  BY <1>1, Inductive, PTL
=============================================================================
