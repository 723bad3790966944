--------------------------- MODULE ExecutorProofs ---------------------------
(***************************************************************************)
(* Proofs about Executor.tla for every set of pipelines, every set of      *)
(* command kinds and every bound on the length of a plan.                  *)
(***************************************************************************)
EXTENDS Executor, TLAPS

InLoop  == {"stage", "invoke", "running"}
InReply == {"reply", "replying"}

\* The stages invoked so far are exactly the first m.
RanUpTo(p, m) ==
  \A k \in 1..MaxStages : ran[p][k] = IF k <= m THEN 1 ELSE 0

\* Where a worker is in the plan, and what it has recorded by then.
ProgressInv(p) ==
  /\ pc[p] \in InLoop => stage[p] <= Len(plan[p])
  /\ pc[p] \in InReply => stage[p] = Len(plan[p]) + 1
  /\ pc[p] \in InLoop \cup InReply =>
       /\ plan[p] \in Plans
       /\ Admissible(plan[p])
       /\ mem[p].results = stage[p] - 1
  /\ pc[p] = "plan" => mem[p].results = 0
  /\ pc[p] \in Active \ {"failed", "else"} =>
       mem[p] \in Record /\ mem[p].status = "running"

\* Which stages have been invoked, by the worker's position.
RanInv(p) ==
  /\ \E m \in 0..MaxStages : RanUpTo(p, m)
  /\ pc[p] \in {"idle", "plan"} => RanUpTo(p, 0)
  /\ pc[p] \in {"stage", "invoke"} \cup InReply => RanUpTo(p, stage[p] - 1)
  /\ pc[p] = "running" => RanUpTo(p, stage[p])
  /\ (\E k \in 1..MaxStages : ran[p][k] > 0) => Admissible(plan[p])

\* Which answers have been sent, by the worker's position.
AnswerInv(p) ==
  /\ auto[p] + apology[p] <= 1
  /\ pc[p] \in {"idle", "plan", "reply", "failed"} \cup InLoop =>
       auto[p] = 0 /\ apology[p] = 0
  /\ pc[p] = "replying" => auto[p] = 1 /\ reply[p] = "ok"
  /\ pc[p] = "else" => apology[p] = 1

\* What the directory can hold, by the worker's position.
DiskInv(p) ==
  /\ pc[p] = "idle" => disk[p] = NoRecord
  /\ pc[p] \in Active \ {"failed", "else"} =>
       disk[p].status \in {"none", "running"}
  /\ pc[p] \in {"failed", "else"} => disk[p].status # "completed"
  /\ disk[p].status = "completed" =>
       /\ pc[p] = "done"
       /\ \A k \in DOMAIN plan[p] : ran[p][k] = 1
       /\ disk[p].results >= Len(plan[p])
       /\ apology[p] = 0
       /\ (reply[p] = "ok") <=> (auto[p] = 1)

\* Workers live only between the sweep and the exit of the process, and the
\* sweep holds only records that are still "running".
ProcInv ==
  /\ up \in {"down", "sweep"} => \A p \in Pipelines : pc[p] \notin Active
  /\ up # "sweep" => stale = {}
  /\ \A p \in stale : disk[p].status = "running"

WorkerInv(p) == ProgressInv(p) /\ RanInv(p) /\ AnswerInv(p) /\ DiskInv(p)

\* The inductive invariant.
IInv == TypeOK /\ ProcInv /\ \A p \in Pipelines : WorkerInv(p)
-----------------------------------------------------------------------------
\* A plan is a nonempty sequence of at most MaxStages calls.
LEMMA PlanShape ==
  ASSUME NEW s \in Plans
  PROVE  /\ s \in Seq(Kinds)
         /\ Len(s) \in 1..MaxStages
         /\ DOMAIN s = 1..Len(s)
<1>1. PICK n \in 1..MaxStages : s \in [1..n -> Kinds]
  BY DEF Plans
<1>2. n \in Nat
  BY ExecutorAssumption, <1>1
<1> QED
  BY <1>1, <1>2

\* A worker's invariant depends on that worker's state only: a step that
\* leaves the state of q alone preserves q's invariant.
LEMMA Frame ==
  ASSUME NEW q \in Pipelines, WorkerInv(q),
         pc'[q] = pc[q], plan'[q] = plan[q], stage'[q] = stage[q],
         mem'[q] = mem[q], disk'[q] = disk[q], ran'[q] = ran[q],
         auto'[q] = auto[q], apology'[q] = apology[q], reply'[q] = reply[q]
  PROVE  WorkerInv(q)'
<1>1. ProgressInv(q)'
  BY DEF WorkerInv, ProgressInv, InLoop, InReply
<1>2. RanInv(q)'
  BY DEF WorkerInv, RanInv, RanUpTo, InReply
<1>3. AnswerInv(q)'
  BY DEF WorkerInv, AnswerInv, InLoop
<1>4. DiskInv(q)'
  BY DEF WorkerInv, DiskInv
<1> QED
  BY <1>1, <1>2, <1>3, <1>4 DEF WorkerInv

\* Save keeps the directory well typed and touches no record but p's.
LEMMA SaveEffect ==
  ASSUME TypeOK, NEW p \in Pipelines, NEW r \in Record, Save(p, r)
  PROVE  /\ disk' \in [Pipelines -> Record \cup {NoRecord}]
         /\ faulty' \in SUBSET Pipelines
         /\ disk'[p] \in {disk[p], r}
         /\ \A q \in Pipelines \ {p} : disk'[q] = disk[q]
<1>1. disk \in [Pipelines -> Record \cup {NoRecord}] /\ faulty \in SUBSET Pipelines
  BY DEF TypeOK
<1>2. CASE disk' = [disk EXCEPT ![p] = r] /\ UNCHANGED faulty
  <2> HIDE DEF Record, NoRecord
  <2> QED
    BY <1>1, <1>2
<1>3. CASE faulty' = faulty \cup {p} /\ UNCHANGED disk
  BY <1>1, <1>3
<1> QED
  BY <1>2, <1>3 DEF Save

\* What a worker in the loop or in the reply knows of its plan and record.
LEMMA AtStage ==
  ASSUME IInv, NEW p \in Pipelines, pc[p] \in InLoop \cup InReply
  PROVE  /\ plan[p] \in Plans
         /\ Admissible(plan[p])
         /\ Len(plan[p]) \in 1..MaxStages
         /\ DOMAIN plan[p] = 1..Len(plan[p])
         /\ pc[p] \in InLoop => stage[p] \in 1..Len(plan[p])
         /\ pc[p] \in InReply => stage[p] = Len(plan[p]) + 1
         /\ mem[p] \in Record
         /\ mem[p].status = "running"
         /\ mem[p].results = stage[p] - 1
<1>1. /\ plan[p] \in Plans
      /\ Admissible(plan[p])
      /\ pc[p] \in InLoop => stage[p] <= Len(plan[p])
      /\ pc[p] \in InReply => stage[p] = Len(plan[p]) + 1
      /\ mem[p] \in Record
      /\ mem[p].status = "running"
      /\ mem[p].results = stage[p] - 1
  BY DEF IInv, WorkerInv, ProgressInv, InLoop, InReply, Active
<1>2. Len(plan[p]) \in 1..MaxStages /\ DOMAIN plan[p] = 1..Len(plan[p])
  BY <1>1, PlanShape
<1>3. stage[p] \in Nat \ {0}
  BY DEF IInv, TypeOK
<1> QED
  BY <1>1, <1>2, <1>3, ExecutorAssumption

\* A worker's first save: the new pipeline satisfies the invariant.
LEMMA StartStep ==
  ASSUME IInv, NEW p \in Pipelines, Start(p)
  PROVE  IInv'
<1> DEFINE r == PipelineOf("running", 0, 0, "none")
<1> USE DEF IInv
<1>1. r \in Record /\ r.status = "running" /\ r.results = 0
  BY ExecutorAssumption DEF PipelineOf, Record, Statuses, Errors
<1>2. /\ disk' \in [Pipelines -> Record \cup {NoRecord}]
      /\ faulty' \in SUBSET Pipelines
      /\ disk'[p] \in {disk[p], r}
      /\ \A q \in Pipelines \ {p} : disk'[q] = disk[q]
  BY <1>1, SaveEffect DEF Start
<1>3. TypeOK'
  BY <1>1, <1>2 DEF TypeOK, Start, Active, procVars, callVars
<1>4. ProcInv'
  BY <1>2 DEF TypeOK, ProcInv, Start, procVars
<1>5. ProgressInv(p)'
  BY <1>1 DEF TypeOK, Start, ProgressInv, InLoop, InReply, Active
<1>6. RanInv(p)'
  BY DEF TypeOK, Start, WorkerInv, RanInv, RanUpTo, InReply, callVars
<1>7. AnswerInv(p)'
  BY DEF TypeOK, Start, WorkerInv, AnswerInv, InLoop, callVars
<1>8. DiskInv(p)'
  BY <1>2 DEF TypeOK, Start, WorkerInv, DiskInv, NoRecord, PipelineOf, Active
<1>9. ASSUME NEW q \in Pipelines, q # p PROVE WorkerInv(q)'
  BY <1>2, <1>9, Frame DEF TypeOK, Start, callVars
<1> QED
  BY <1>3, <1>4, <1>5, <1>6, <1>7, <1>8, <1>9 DEF WorkerInv

\* Every error return of Run (the callers of Fail) preserves the invariant.
LEMMA FailStep ==
  ASSUME IInv, NEW p \in Pipelines, NEW e \in Errors,
         pc[p] \in {"plan", "invoke", "running"},
         Fail(p, e),
         \/ plan' = plan
         \/ pc[p] = "plan" /\ \E s \in Plans : plan' = [plan EXCEPT ![p] = s],
         cut' \in [Pipelines -> SUBSET (1..MaxStages)],
         UNCHANGED <<up, stale, reply, stage, pipe, ran, auto, apology>>
  PROVE  IInv'
<1> DEFINE r == PipelineOf("failed", mem[p].current, mem[p].results, e)
<1> USE DEF IInv
<1>1. r \in Record
  BY DEF WorkerInv, ProgressInv, Active, PipelineOf, Record, Statuses
<1>2. /\ disk' \in [Pipelines -> Record \cup {NoRecord}]
      /\ faulty' \in SUBSET Pipelines
      /\ disk'[p] \in {disk[p], r}
      /\ \A q \in Pipelines \ {p} : disk'[q] = disk[q]
  BY <1>1, SaveEffect DEF Fail
<1>3. TypeOK'
  <2>1. plan' \in [Pipelines -> Plans \cup {<<>>}]
    BY DEF TypeOK
  <2> QED
    BY <1>1, <1>2, <2>1 DEF TypeOK, Fail, Active
<1>4. ProcInv'
  BY <1>2 DEF TypeOK, ProcInv, Fail, Active
<1>5. ProgressInv(p)'
  BY DEF TypeOK, Fail, ProgressInv, InLoop, InReply, Active
<1>6. RanInv(p)'
  BY DEF TypeOK, Fail, WorkerInv, RanInv, RanUpTo, InReply
<1>7. AnswerInv(p)'
  BY DEF TypeOK, Fail, WorkerInv, AnswerInv, InLoop
<1>8. DiskInv(p)'
  BY <1>2 DEF TypeOK, Fail, WorkerInv, DiskInv, NoRecord, PipelineOf, Active
<1>9. ASSUME NEW q \in Pipelines, q # p PROVE WorkerInv(q)'
  BY <1>2, <1>9, Frame DEF TypeOK, Fail
<1> QED
  BY <1>3, <1>4, <1>5, <1>6, <1>7, <1>8, <1>9 DEF WorkerInv

\* The two ways to complete preserve the invariant.
LEMMA CompleteStep ==
  ASSUME IInv, NEW p \in Pipelines, NEW n, NEW e \in Errors,
         pc[p] \in InReply,
         n \in {mem[p].results, mem[p].results + 1},
         (reply[p] = "ok") <=> (auto[p] = 1),
         apology[p] = 0,
         Complete(p, n, e),
         UNCHANGED <<up, stale, reply, plan, stage, pipe, cut, ran, auto,
                     apology>>
  PROVE  IInv'
<1> DEFINE c == PipelineOf("completed", mem[p].current, n, e)
<1> USE DEF IInv
<1>0. /\ stage[p] = Len(plan[p]) + 1
      /\ mem[p].results = stage[p] - 1
      /\ mem[p] \in Record
      /\ Len(plan[p]) \in 1..MaxStages
      /\ DOMAIN plan[p] = 1..Len(plan[p])
  BY AtStage
<1>1. c \in Record /\ c.results >= Len(plan[p]) /\ c.status = "completed"
  BY <1>0, ExecutorAssumption DEF PipelineOf, Record, Statuses, Errors
<1>2. /\ disk' \in [Pipelines -> Record \cup {NoRecord}]
      /\ faulty' \in SUBSET Pipelines
      /\ disk'[p] \in {disk[p], c}
      /\ \A q \in Pipelines \ {p} : disk'[q] = disk[q]
  BY <1>1, SaveEffect DEF Complete
<1>3. TypeOK'
  BY <1>1, <1>2 DEF TypeOK, Complete, Active
<1>4. ProcInv'
  BY <1>2 DEF TypeOK, ProcInv, Complete, Active, InReply
<1>5. ProgressInv(p)'
  BY DEF TypeOK, Complete, ProgressInv, InLoop, InReply, Active
<1>6. RanInv(p)'
  BY DEF TypeOK, Complete, WorkerInv, RanInv, RanUpTo, InReply
<1>7. AnswerInv(p)'
  BY DEF TypeOK, Complete, WorkerInv, AnswerInv, InLoop
<1>8. DiskInv(p)'
  <2>1. \A k \in DOMAIN plan[p] : ran[p][k] = 1
    <3>1. RanUpTo(p, Len(plan[p]))
      BY <1>0 DEF WorkerInv, RanInv, InReply
    <3> QED
      BY <1>0, <3>1, ExecutorAssumption DEF RanUpTo
  <2>2. pc'[p] = "done" /\ disk[p].status # "completed"
    BY DEF TypeOK, Complete, WorkerInv, DiskInv, Active, InReply
  <2> QED
    BY <1>1, <1>2, <2>1, <2>2 DEF DiskInv, Active
<1>9. ASSUME NEW q \in Pipelines, q # p PROVE WorkerInv(q)'
  BY <1>2, <1>9, Frame DEF TypeOK, Complete
<1> QED
  BY <1>3, <1>4, <1>5, <1>6, <1>7, <1>8, <1>9 DEF WorkerInv

\* Accepting or refusing a plan preserves the invariant.
LEMMA PlanReturnsStep ==
  ASSUME IInv, NEW p \in Pipelines, PlanReturns(p)
  PROVE  IInv'
<1> USE DEF IInv
<1>1. PICK s \in Plans :
        /\ plan' = [plan EXCEPT ![p] = s]
        /\ \/ /\ Admissible(s)
              /\ pc' = [pc EXCEPT ![p] = "stage"]
              /\ stage' = [stage EXCEPT ![p] = 1]
              /\ pipe' = [pipe EXCEPT ![p] = [src |-> 0, trunc |-> FALSE]]
              /\ UNCHANGED <<mem, disk, faulty>>
           \/ /\ ~Admissible(s)
              /\ Fail(p, Defect(s))
              /\ UNCHANGED <<stage, pipe>>
  BY DEF PlanReturns
<1>2. /\ pc[p] = "plan"
      /\ UNCHANGED <<up, stale, reply, cut, ran, auto, apology>>
  BY DEF PlanReturns, procVars, callVars
<1>3. CASE ~Admissible(s)
  <2>1. Defect(s) \in Errors
    BY DEF Defect, Errors
  <2> QED
    BY <1>1, <1>2, <1>3, <2>1, FailStep DEF TypeOK
<1>4. CASE Admissible(s)
  <2>1. Len(s) \in 1..MaxStages
    BY PlanShape
  <2>2. TypeOK'
    <3>1. plan' \in [Pipelines -> Plans \cup {<<>>}]
      BY <1>1 DEF TypeOK
    <3>2. pipe' \in [Pipelines -> [src : 0..MaxStages, trunc : BOOLEAN]]
      <4>1. [src |-> 0, trunc |-> FALSE] \in
              [src : 0..MaxStages, trunc : BOOLEAN]
        BY ExecutorAssumption
      <4>2. pipe' = [pipe EXCEPT ![p] = [src |-> 0, trunc |-> FALSE]]
        BY <1>1, <1>4
      <4> QED
        BY <4>1, <4>2 DEF TypeOK
    <3>3. stage' \in [Pipelines -> 1..(MaxStages + 1)]
      <4>1. stage' = [stage EXCEPT ![p] = 1]
        BY <1>1, <1>4
      <4> QED
        BY <4>1, ExecutorAssumption DEF TypeOK
    <3> QED
      BY <1>1, <1>2, <1>4, <3>1, <3>2, <3>3 DEF TypeOK, Active
  <2>3. ProcInv'
    BY <1>1, <1>2, <1>4 DEF TypeOK, ProcInv, Active
  <2>4. ProgressInv(p)'
    <3>1. /\ pc'[p] = "stage" /\ stage'[p] = 1 /\ plan'[p] = s
          /\ mem'[p] = mem[p]
      BY <1>1, <1>4 DEF TypeOK
    <3>2. /\ mem[p] \in Record /\ mem[p].status = "running"
          /\ mem[p].results = 0
      BY <1>2 DEF WorkerInv, ProgressInv, Active
    <3> QED
      BY <1>4, <2>1, <3>1, <3>2
      DEF ProgressInv, InLoop, InReply, Active, Admissible
  <2>5. RanInv(p)'
    BY <1>1, <1>2, <1>4 DEF TypeOK, WorkerInv, RanInv, RanUpTo, InReply
  <2>6. AnswerInv(p)'
    BY <1>1, <1>2, <1>4 DEF TypeOK, WorkerInv, AnswerInv, InLoop
  <2>7. DiskInv(p)'
    BY <1>1, <1>2, <1>4 DEF TypeOK, WorkerInv, DiskInv, Active
  <2>8. ASSUME NEW q \in Pipelines, q # p PROVE WorkerInv(q)'
    BY <1>1, <1>2, <1>4, <2>8, Frame DEF TypeOK
  <2> QED
    BY <2>2, <2>3, <2>4, <2>5, <2>6, <2>7, <2>8 DEF WorkerInv
<1> QED
  BY <1>3, <1>4

\* Saving Current at the top of the loop preserves the invariant.
LEMMA EnterStageStep ==
  ASSUME IInv, NEW p \in Pipelines, EnterStage(p)
  PROVE  IInv'
<1> DEFINE r == PipelineOf("running", stage[p] - 1, mem[p].results, "none")
<1> USE DEF IInv
<1>1. /\ mem[p] \in Record
      /\ mem[p].status = "running"
      /\ stage[p] \in 1..MaxStages
  BY AtStage, ExecutorAssumption DEF EnterStage, InLoop
<1>2. r \in Record /\ r.status = "running" /\ r.results = mem[p].results
  BY <1>1, ExecutorAssumption DEF PipelineOf, Record, Statuses, Errors
<1>3. /\ disk' \in [Pipelines -> Record \cup {NoRecord}]
      /\ faulty' \in SUBSET Pipelines
      /\ disk'[p] \in {disk[p], r}
      /\ \A q \in Pipelines \ {p} : disk'[q] = disk[q]
  BY <1>2, SaveEffect DEF EnterStage
<1>4. TypeOK'
  BY <1>2, <1>3 DEF TypeOK, EnterStage, Active, procVars, callVars
<1>5. ProcInv'
  BY <1>3 DEF TypeOK, ProcInv, EnterStage, procVars, Active
<1>6. ProgressInv(p)'
  BY <1>2
  DEF TypeOK, EnterStage, WorkerInv, ProgressInv, InLoop, InReply, Active
<1>7. RanInv(p)'
  BY DEF TypeOK, EnterStage, WorkerInv, RanInv, RanUpTo, InReply, callVars
<1>8. AnswerInv(p)'
  BY DEF TypeOK, EnterStage, WorkerInv, AnswerInv, InLoop, callVars
<1>9. DiskInv(p)'
  BY <1>2, <1>3 DEF TypeOK, EnterStage, WorkerInv, DiskInv, Active
<1>10. ASSUME NEW q \in Pipelines, q # p PROVE WorkerInv(q)'
  BY <1>3, <1>10, Frame DEF TypeOK, EnterStage, callVars
<1> QED
  BY <1>4, <1>5, <1>6, <1>7, <1>8, <1>9, <1>10 DEF WorkerInv

\* Counting one more invocation of stage k keeps the counters well typed.
LEMMA CountUp ==
  ASSUME NEW f \in [1..MaxStages -> Nat], NEW k \in 1..MaxStages
  PROVE  [f EXCEPT ![k] = @ + 1] \in [1..MaxStages -> Nat]
OBVIOUS

\* Invoking a stage's runner counts it once: it had not run before.
LEMMA InvokeRunnerStep ==
  ASSUME IInv, NEW p \in Pipelines, InvokeRunner(p)
  PROVE  IInv'
<1> USE DEF IInv
<1>1. /\ pc[p] = "invoke"
      /\ stage[p] \in 1..MaxStages
      /\ RanUpTo(p, stage[p] - 1)
      /\ Admissible(plan[p])
  BY AtStage, ExecutorAssumption
  DEF InvokeRunner, InLoop, WorkerInv, RanInv
<1>2. RanUpTo(p, stage[p])'
  BY <1>1, ExecutorAssumption, SMTT(30) DEF TypeOK, InvokeRunner, RanUpTo
<1>3. TypeOK'
  <2>1. ran' \in [Pipelines -> [1..MaxStages -> Nat]]
    <3> DEFINE f == [ran[p] EXCEPT ![stage[p]] = @ + 1]
    <3>1. ran' = [ran EXCEPT ![p] = f]
      BY DEF InvokeRunner
    <3>2. ran \in [Pipelines -> [1..MaxStages -> Nat]]
      BY DEF TypeOK
    <3>3. f \in [1..MaxStages -> Nat]
      <4>1. ran[p] \in [1..MaxStages -> Nat] /\ stage[p] \in 1..MaxStages
        BY <1>1, <3>2
      <4> QED
        BY <4>1, CountUp
    <3> QED
      BY <3>1, <3>2, <3>3
  <2> QED
    BY <2>1 DEF TypeOK, InvokeRunner, Active, procVars
<1>4. ProcInv'
  BY <1>1 DEF TypeOK, ProcInv, InvokeRunner, procVars, Active
<1>5. ProgressInv(p)'
  BY <1>1
  DEF TypeOK, InvokeRunner, WorkerInv, ProgressInv, InLoop, InReply, Active
<1>6. RanInv(p)'
  <2>1. \E m \in 0..MaxStages : RanUpTo(p, m)'
    BY <1>1, <1>2, ExecutorAssumption DEF TypeOK, InvokeRunner
  <2>2. pc'[p] = "running" /\ Admissible(plan[p])' /\ stage'[p] = stage[p]
    BY <1>1 DEF TypeOK, InvokeRunner
  <2> QED
    BY <1>2, <2>1, <2>2 DEF RanInv, RanUpTo, InReply
<1>7. AnswerInv(p)'
  BY <1>1 DEF TypeOK, InvokeRunner, WorkerInv, AnswerInv, InLoop
<1>8. DiskInv(p)'
  BY <1>1 DEF TypeOK, InvokeRunner, WorkerInv, DiskInv, Active
<1>9. ASSUME NEW q \in Pipelines, q # p PROVE WorkerInv(q)'
  BY <1>9, Frame DEF TypeOK, InvokeRunner
<1> QED
  BY <1>3, <1>4, <1>5, <1>6, <1>7, <1>8, <1>9 DEF WorkerInv

\* A stage that returns is recorded, and the worker moves to the next one.
LEMMA StageReturnsStep ==
  ASSUME IInv, NEW p \in Pipelines, StageReturns(p)
  PROVE  IInv'
<1> DEFINE r == PipelineOf("running", mem[p].current, mem[p].results + 1,
                           "none")
<1> USE DEF IInv
<1>1. /\ pc[p] = "running"
      /\ plan[p] \in Plans
      /\ Admissible(plan[p])
      /\ stage[p] \in 1..Len(plan[p])
      /\ Len(plan[p]) \in 1..MaxStages
      /\ mem[p] \in Record
      /\ mem[p].results = stage[p] - 1
      /\ RanUpTo(p, stage[p])
  BY AtStage DEF StageReturns, InLoop, WorkerInv, RanInv
<1>2. r \in Record /\ r.status = "running" /\ r.results = stage[p]
  BY <1>1, ExecutorAssumption DEF PipelineOf, Record, Statuses, Errors
<1>3. /\ disk' \in [Pipelines -> Record \cup {NoRecord}]
      /\ faulty' \in SUBSET Pipelines
      /\ disk'[p] \in {disk[p], r}
      /\ \A q \in Pipelines \ {p} : disk'[q] = disk[q]
  BY <1>2, SaveEffect DEF StageReturns
<1>4. /\ stage' = [stage EXCEPT ![p] = stage[p] + 1]
      /\ mem' = [mem EXCEPT ![p] = r]
      /\ pc' = [pc EXCEPT ![p] = IF stage[p] < Len(plan[p]) THEN "stage"
                                                            ELSE "reply"]
      /\ UNCHANGED <<up, stale, reply, plan, ran, auto, apology>>
  BY DEF StageReturns, procVars, callVars
<1>5. TypeOK'
  <2>1. PICK t \in BOOLEAN :
          /\ cut' = [cut EXCEPT ![p] = IF t THEN @ \cup {stage[p]} ELSE @]
          /\ pipe' = [pipe EXCEPT ![p] = NextPipe(@, plan[p], stage[p], t)]
    BY DEF StageReturns
  <2>2. stage[p] \in 1..MaxStages
    BY <1>1, ExecutorAssumption
  <2>3. cut' \in [Pipelines -> SUBSET (1..MaxStages)]
    BY <2>1, <2>2 DEF TypeOK
  <2>4. pipe' \in [Pipelines -> [src : 0..MaxStages, trunc : BOOLEAN]]
    <3>1. NextPipe(pipe[p], plan[p], stage[p], t) \in
            [src : 0..MaxStages, trunc : BOOLEAN]
      BY <2>2, ExecutorAssumption DEF NextPipe, TypeOK
    <3> QED
      BY <2>1, <3>1 DEF TypeOK
  <2>5. stage' \in [Pipelines -> 1..(MaxStages + 1)]
    BY <1>4, <2>2, ExecutorAssumption DEF TypeOK
  <2> QED
    BY <1>2, <1>3, <1>4, <2>3, <2>4, <2>5 DEF TypeOK, Active
<1>6. /\ pc'[p] \in {"stage", "reply"}
      /\ pc'[p] = "stage" => stage[p] < Len(plan[p])
      /\ pc'[p] = "reply" => ~(stage[p] < Len(plan[p]))
      /\ stage'[p] = stage[p] + 1 /\ mem'[p] = r /\ plan'[p] = plan[p]
      /\ ran'[p] = ran[p] /\ auto'[p] = auto[p] /\ apology'[p] = apology[p]
      /\ reply'[p] = reply[p]
  BY <1>4 DEF TypeOK
<1>7. ProcInv'
  BY <1>1, <1>3, <1>4, <1>6 DEF TypeOK, ProcInv, Active
<1>8. ProgressInv(p)'
  BY <1>1, <1>2, <1>6, ExecutorAssumption
  DEF ProgressInv, InLoop, InReply, Active, Admissible
<1>9. RanInv(p)'
  <2>1. stage[p] \in 0..MaxStages /\ stage'[p] - 1 = stage[p]
    BY <1>1, <1>6, ExecutorAssumption
  <2>2. \E m \in 0..MaxStages : RanUpTo(p, m)'
    BY <1>1, <1>6, <2>1 DEF RanUpTo
  <2>3. Admissible(plan[p])'
    BY <1>1, <1>4 DEF Admissible
  <2>4. RanUpTo(p, stage[p] - 1)'
    BY <1>1, <1>6, <2>1 DEF RanUpTo
  <2> QED
    BY <1>6, <2>2, <2>3, <2>4 DEF RanInv, InReply
<1>10. AnswerInv(p)'
  BY <1>1, <1>6 DEF WorkerInv, AnswerInv, InLoop
<1>11. DiskInv(p)'
  BY <1>1, <1>2, <1>3, <1>6 DEF WorkerInv, DiskInv, Active
<1>12. ASSUME NEW q \in Pipelines, q # p PROVE WorkerInv(q)'
  BY <1>3, <1>4, <1>12, Frame DEF TypeOK
<1> QED
  BY <1>5, <1>7, <1>8, <1>9, <1>10, <1>11, <1>12 DEF WorkerInv

\* The result is sent once, by a worker that has sent nothing yet.
LEMMA InvokeReplyStep ==
  ASSUME IInv, NEW p \in Pipelines, InvokeReply(p)
  PROVE  IInv'
<1> USE DEF IInv
<1>1. TypeOK'
  BY DEF TypeOK, InvokeReply, Active, procVars
<1>2. ProcInv'
  BY DEF TypeOK, ProcInv, InvokeReply, procVars, Active
<1>3. ProgressInv(p)'
  BY DEF TypeOK, InvokeReply, WorkerInv, ProgressInv, InLoop, InReply, Active
<1>4. RanInv(p)'
  BY DEF TypeOK, InvokeReply, WorkerInv, RanInv, RanUpTo, InReply
<1>5. AnswerInv(p)'
  BY DEF TypeOK, InvokeReply, WorkerInv, AnswerInv, InLoop
<1>6. DiskInv(p)'
  BY DEF TypeOK, InvokeReply, WorkerInv, DiskInv, Active
<1>7. ASSUME NEW q \in Pipelines, q # p PROVE WorkerInv(q)'
  BY <1>7, Frame DEF TypeOK, InvokeReply
<1> QED
  BY <1>1, <1>2, <1>3, <1>4, <1>5, <1>6, <1>7 DEF WorkerInv

\* fireElse apologises once, for a pipeline whose result was not sent.
LEMMA ElseStep ==
  ASSUME IInv, NEW p \in Pipelines, FireElse(p) \/ ElseReturns(p)
  PROVE  IInv'
<1> USE DEF IInv
<1>1. TypeOK'
  <2>1. pc' \in [Pipelines -> Active \cup {"idle", "done", "lost"}]
    <3>1. pc \in [Pipelines -> Active \cup {"idle", "done", "lost"}]
      BY DEF TypeOK
    <3>2. \E x \in {"else", "done"} : pc' = [pc EXCEPT ![p] = x]
      BY DEF FireElse, ElseReturns
    <3>3. "else" \in Active
      BY DEF Active
    <3> QED
      BY <3>1, <3>2, <3>3
  <2>2. apology' \in [Pipelines -> Nat]
    BY DEF TypeOK, FireElse, ElseReturns, callVars
  <2> QED
    BY <2>1, <2>2 DEF TypeOK, FireElse, ElseReturns, procVars, callVars
<1>2. ProcInv'
  BY DEF TypeOK, ProcInv, FireElse, ElseReturns, procVars, Active
<1>3. ProgressInv(p)'
  BY DEF TypeOK, FireElse, ElseReturns, WorkerInv, ProgressInv, InLoop,
         InReply, Active
<1>4. RanInv(p)'
  BY DEF TypeOK, FireElse, ElseReturns, WorkerInv, RanInv, RanUpTo, InReply,
         callVars
<1>5. AnswerInv(p)'
  BY DEF TypeOK, FireElse, ElseReturns, WorkerInv, AnswerInv, InLoop, callVars
<1>6. DiskInv(p)'
  BY DEF TypeOK, FireElse, ElseReturns, WorkerInv, DiskInv, Active
<1>7. ASSUME NEW q \in Pipelines, q # p PROVE WorkerInv(q)'
  BY <1>7, Frame DEF TypeOK, FireElse, ElseReturns, callVars
<1> QED
  BY <1>1, <1>2, <1>3, <1>4, <1>5, <1>6, <1>7 DEF WorkerInv

\* Every step of Run preserves the invariant.
LEMMA WorkerStep ==
  ASSUME IInv, NEW p \in Pipelines, Worker(p)
  PROVE  IInv'
<1>1. CASE PlanFails(p)
  BY <1>1, FailStep
  DEF PlanFails, IInv, TypeOK, Errors, procVars, callVars
<1>2. CASE NoRunner(p)
  BY <1>2, FailStep DEF NoRunner, IInv, TypeOK, Errors, procVars, callVars
<1>3. CASE StageFails(p)
  BY <1>3, FailStep DEF StageFails, IInv, TypeOK, Errors, procVars, callVars
<1>4. CASE OutputInvalid(p)
  <2>1. stage[p] \in 1..MaxStages
    BY <1>4, AtStage, ExecutorAssumption DEF OutputInvalid, InLoop
  <2>2. cut' \in [Pipelines -> SUBSET (1..MaxStages)]
    <3>1. PICK t \in SUBSET {stage[p]} : cut' = [cut EXCEPT ![p] = @ \cup t]
      BY <1>4 DEF OutputInvalid
    <3>2. cut \in [Pipelines -> SUBSET (1..MaxStages)]
      BY DEF IInv, TypeOK
    <3>3. cut[p] \cup t \in SUBSET (1..MaxStages)
      BY <2>1, <3>2
    <3> QED
      BY <3>1, <3>2, <3>3
  <2> QED
    BY <1>4, <2>2, FailStep DEF OutputInvalid, Errors, procVars, callVars
<1>5. CASE SkipReply(p)
  <2>1. auto[p] = 0 /\ apology[p] = 0
    BY <1>5 DEF SkipReply, IInv, WorkerInv, AnswerInv
  <2>2. (IF reply[p] = "absent" THEN "none" ELSE "reply") \in Errors
    BY DEF Errors
  <2> QED
    BY <1>5, <2>1, <2>2, CompleteStep
    DEF SkipReply, InReply, procVars, callVars
<1>6. CASE ReplyReturns(p)
  <2>1. auto[p] = 1 /\ apology[p] = 0 /\ reply[p] = "ok"
    BY <1>6 DEF ReplyReturns, IInv, TypeOK, WorkerInv, AnswerInv
  <2> QED
    BY <1>6, <2>1, CompleteStep
    DEF ReplyReturns, InReply, Errors, procVars, callVars
<1> QED
  BY <1>1, <1>2, <1>3, <1>4, <1>5, <1>6, PlanReturnsStep, EnterStageStep,
     InvokeRunnerStep, StageReturnsStep, InvokeReplyStep, ElseStep DEF Worker

\* Relabelling a stale record disturbs no worker: none is active then.
LEMMA SweepStep ==
  ASSUME IInv, NEW p \in Pipelines, Sweep(p)
  PROVE  IInv'
<1> DEFINE r == PipelineOf("failed", disk[p].current, disk[p].results,
                           "stopped")
<1> USE DEF IInv
<1>1. disk[p] \in Record /\ disk[p].status = "running"
  BY DEF TypeOK, Sweep, ProcInv, NoRecord, PipelineOf
<1>2. r \in Record /\ r.status = "failed"
  BY <1>1 DEF PipelineOf, Record, Statuses, Errors
<1>3. /\ disk' \in [Pipelines -> Record \cup {NoRecord}]
      /\ faulty' \in SUBSET Pipelines
      /\ disk'[p] \in {disk[p], r}
      /\ \A q \in Pipelines \ {p} : disk'[q] = disk[q]
  BY <1>2, SaveEffect DEF Sweep
<1>4. TypeOK'
  BY <1>3 DEF TypeOK, Sweep, workVars, callVars
<1>5. ProcInv'
  BY <1>3 DEF TypeOK, ProcInv, Sweep, workVars
<1>6. pc[p] \notin Active /\ pc[p] # "idle"
  BY <1>1 DEF ProcInv, Sweep, WorkerInv, DiskInv, NoRecord, PipelineOf
<1>7. ProgressInv(p)'
  BY <1>6 DEF Sweep, ProgressInv, InLoop, InReply, Active, workVars
<1>8. RanInv(p)'
  BY DEF Sweep, WorkerInv, RanInv, RanUpTo, Admissible, workVars, callVars
<1>9. AnswerInv(p)'
  BY DEF Sweep, WorkerInv, AnswerInv, workVars, callVars
<1>10. DiskInv(p)'
  BY <1>1, <1>2, <1>3, <1>6 DEF Sweep, DiskInv, Active, workVars
<1>11. ASSUME NEW q \in Pipelines, q # p PROVE WorkerInv(q)'
  BY <1>3, <1>11, Frame DEF Sweep, workVars, callVars
<1> QED
  BY <1>4, <1>5, <1>7, <1>8, <1>9, <1>10, <1>11 DEF WorkerInv

\* A crash loses every active worker and nothing on disk.
LEMMA CrashStep ==
  ASSUME IInv, Crash
  PROVE  IInv'
<1> USE DEF IInv
<1>1. TypeOK'
  BY DEF TypeOK, Crash, Active, callVars
<1>2. ProcInv'
  BY DEF TypeOK, ProcInv, Crash, Active
<1>3. ASSUME NEW q \in Pipelines PROVE WorkerInv(q)'
  <2>1. CASE pc[q] \notin Active
    BY <2>1, Frame DEF TypeOK, Crash, callVars
  <2>2. CASE pc[q] \in Active
    <3>1. pc'[q] = "lost"
      BY <2>2 DEF TypeOK, Crash
    <3>2. disk[q].status # "completed"
      BY <2>2 DEF WorkerInv, DiskInv, Active
    <3>3. ProgressInv(q)'
      BY <3>1 DEF ProgressInv, InLoop, InReply, Active
    <3>4. RanInv(q)'
      BY <3>1 DEF Crash, WorkerInv, RanInv, RanUpTo, Admissible, InReply,
                  callVars
    <3>5. AnswerInv(q)'
      BY <3>1 DEF Crash, WorkerInv, AnswerInv, InLoop, callVars
    <3>6. DiskInv(q)'
      BY <3>1, <3>2 DEF Crash, DiskInv, Active
    <3> QED
      BY <3>3, <3>4, <3>5, <3>6 DEF WorkerInv
  <2> QED
    BY <2>1, <2>2
<1> QED
  BY <1>1, <1>2, <1>3

\* Boot, Ready, Stop and Exit move the process and no worker.
LEMMA ProcessStep ==
  ASSUME IInv, Boot \/ Ready \/ Stop \/ Exit
  PROVE  IInv'
<1> USE DEF IInv
<1>1. UNCHANGED <<reply, pc, plan, stage, mem, pipe, cut, disk, ran, auto,
                  apology>>
  BY DEF Boot, Ready, Stop, Exit, workVars, callVars
<1>2. TypeOK'
  BY <1>1 DEF TypeOK, Boot, Ready, Stop, Exit
<1>3. ProcInv'
  BY <1>1 DEF TypeOK, ProcInv, Boot, Ready, Stop, Exit
<1>4. ASSUME NEW q \in Pipelines PROVE WorkerInv(q)'
  BY <1>1, Frame
<1> QED
  BY <1>2, <1>3, <1>4

\* The state before the first start satisfies the invariant.
LEMMA Initially == Init => IInv
<1> SUFFICES ASSUME Init PROVE IInv
  OBVIOUS
<1>1. TypeOK
  BY ExecutorAssumption DEF Init, TypeOK, Active
<1>2. ProcInv
  BY DEF Init, ProcInv, Active
<1>3. ASSUME NEW p \in Pipelines PROVE WorkerInv(p)
  <2>1. ProgressInv(p)
    BY DEF Init, ProgressInv, InLoop, InReply, Active
  <2>2. RanInv(p)
    <3>1. RanUpTo(p, 0) /\ pc[p] = "idle"
      BY DEF Init, RanUpTo
    <3>2. ~ \E k \in 1..MaxStages : ran[p][k] > 0
      BY DEF Init
    <3>3. 0 \in 0..MaxStages
      BY ExecutorAssumption
    <3> QED
      BY <3>1, <3>2, <3>3 DEF RanInv, InReply
  <2>3. AnswerInv(p)
    BY DEF Init, AnswerInv
  <2>4. DiskInv(p)
    BY DEF Init, DiskInv, Active, NoRecord, PipelineOf
  <2> QED
    BY <2>1, <2>2, <2>3, <2>4 DEF WorkerInv
<1> QED
  BY <1>1, <1>2, <1>3 DEF IInv

\* IInv holds in every reachable state, for every number of pipelines and
\* stages and however crashes, failed saves and restarts interleave.
THEOREM Inductive == Spec => []IInv
<1>1. IInv /\ [Next]_vars => IInv'
  <2> SUFFICES ASSUME IInv, [Next]_vars PROVE IInv'
    OBVIOUS
  <2>1. CASE UNCHANGED vars
    <3>1. TypeOK'
      BY <2>1 DEF IInv, TypeOK, vars
    <3>2. ProcInv'
      BY <2>1 DEF IInv, ProcInv, vars
    <3>3. ASSUME NEW q \in Pipelines PROVE WorkerInv(q)'
      BY <2>1, Frame DEF IInv, vars
    <3> QED
      BY <3>1, <3>2, <3>3 DEF IInv
  <2> QED
    BY <2>1, StartStep, WorkerStep, SweepStep, ProcessStep, CrashStep DEF Next
<1> QED
  BY <1>1, Initially, PTL DEF Spec

\* Type correctness of the executor.
THEOREM TypeCorrect == Spec => []TypeOK
<1>1. IInv => TypeOK
  BY DEF IInv
<1> QED
  BY <1>1, Inductive, PTL

\* At most one answer per pipeline, over any number of crashes and restarts.
THEOREM AtMostOneAnswer == Spec => []OneAnswer
<1>1. IInv => OneAnswer
  BY DEF IInv, WorkerInv, AnswerInv, OneAnswer
<1> QED
  BY <1>1, Inductive, PTL

\* Stages run in order and never twice: no restart resumes a pipeline.
THEOREM NoStageTwice == Spec => []StagesOnceInOrder
<1>1. IInv => StagesOnceInOrder
  BY ExecutorAssumption
  DEF IInv, WorkerInv, RanInv, RanUpTo, StagesOnceInOrder
<1> QED
  BY <1>1, Inductive, PTL

\* No runner is invoked for a plan with an inadmissible call anywhere in it.
THEOREM NoRunBeforeValidation == Spec => []ValidatedBeforeRun
<1>1. IInv => ValidatedBeforeRun
  BY DEF IInv, WorkerInv, RanInv, ValidatedBeforeRun
<1> QED
  BY <1>1, Inductive, PTL

\* A record that says "completed" tells the truth about the run.
THEOREM CompletedRecordsAreTrue == Spec => []CompletedIsTrue
<1>1. IInv => CompletedIsTrue
  BY DEF IInv, WorkerInv, DiskInv, CompletedIsTrue
<1> QED
  BY <1>1, Inductive, PTL
-----------------------------------------------------------------------------
(* Refinement: the executor implements PipelineLifecycle *)

Recs    == [p \in Pipelines |-> disk[p].status]
Answers == [p \in Pipelines |-> Answer(p)]

\* A save that follows the lifecycle is a Record step or invisible.
LEMMA SaveRefines ==
  ASSUME TypeOK, NEW p \in Pipelines, NEW r,
         Save(p, r),
         r.status \in {"running", "completed", "failed"},
         disk[p].status \notin {"completed", "failed"},
         r.status = "completed" => Answer(p) # "apology",
         UNCHANGED <<auto, apology>>
  PROVE  [Lifecycle!Next]_(Lifecycle!vars)
<1>1. Answers' = Answers
  BY DEF Answers, Answer
<1>2. CASE UNCHANGED disk
  BY <1>1, <1>2 DEF Answers, Lifecycle!vars
<1>3. CASE disk' = [disk EXCEPT ![p] = r]
  <2>1. Recs' = [Recs EXCEPT ![p] = r.status]
    BY <1>3 DEF TypeOK, Recs
  <2>2. Lifecycle!Record(p, r.status)
    BY <1>1, <2>1 DEF Lifecycle!Record, Lifecycle!Final, Recs, Answers
  <2> QED
    BY <2>2 DEF Lifecycle!Next
<1> QED
  BY <1>2, <1>3 DEF Save

\* One more invocation of the reply, of either sort, is the answer it names.
LEMMA AnswerChange ==
  ASSUME TypeOK, NEW p \in Pipelines, auto[p] = 0, apology[p] = 0
  PROVE  /\ auto' = [auto EXCEPT ![p] = 1] /\ apology' = apology
              => Answers' = [Answers EXCEPT ![p] = "result"]
         /\ apology' = [apology EXCEPT ![p] = 1] /\ auto' = auto
              => Answers' = [Answers EXCEPT ![p] = "apology"]
<1>1. ASSUME auto' = [auto EXCEPT ![p] = 1], apology' = apology
      PROVE  Answers' = [Answers EXCEPT ![p] = "result"]
  <2>1. \A q \in Pipelines :
          Answer(q)' = IF q = p THEN "result" ELSE Answer(q)
    BY <1>1 DEF TypeOK, Answer
  <2> QED
    BY <2>1 DEF Answers
<1>2. ASSUME apology' = [apology EXCEPT ![p] = 1], auto' = auto
      PROVE  Answers' = [Answers EXCEPT ![p] = "apology"]
  <2>1. \A q \in Pipelines :
          Answer(q)' = IF q = p THEN "apology" ELSE Answer(q)
    BY <1>2 DEF TypeOK, Answer
  <2> QED
    BY <2>1 DEF Answers
<1> QED
  BY <1>1, <1>2

\* A step that neither saves nor answers is invisible.
LEMMA SilentRefines ==
  ASSUME UNCHANGED <<disk, auto, apology>>
  PROVE  [Lifecycle!Next]_(Lifecycle!vars)
BY DEF Lifecycle!vars, Answer

\* Every step is a step of PipelineLifecycle or leaves its state unchanged.
LEMMA StepRefines ==
  ASSUME IInv, [Next]_vars
  PROVE  [Lifecycle!Next]_(Lifecycle!vars)
<1> USE DEF IInv
<1>1. ASSUME NEW p \in Pipelines, Start(p)
      PROVE  [Lifecycle!Next]_(Lifecycle!vars)
  BY <1>1, SaveRefines
  DEF Start, WorkerInv, DiskInv, NoRecord, PipelineOf, callVars
<1>2. ASSUME NEW p \in Pipelines, NEW e, Fail(p, e),
             pc[p] \in Active \ {"failed", "else"},
             UNCHANGED <<auto, apology>>
      PROVE  [Lifecycle!Next]_(Lifecycle!vars)
  BY <1>2, SaveRefines DEF Fail, WorkerInv, DiskInv, PipelineOf
<1>3. ASSUME NEW p \in Pipelines, NEW n, NEW e, Complete(p, n, e),
             pc[p] \in InReply, UNCHANGED <<auto, apology>>
      PROVE  [Lifecycle!Next]_(Lifecycle!vars)
  <2>1. apology[p] = 0
    BY <1>3 DEF TypeOK, WorkerInv, AnswerInv, InReply
  <2>2. disk[p].status \notin {"completed", "failed"}
    BY <1>3 DEF WorkerInv, DiskInv, InReply, Active
  <2> QED
    BY <1>3, <2>1, <2>2, SaveRefines DEF Complete, PipelineOf, Answer
<1>4. ASSUME NEW p \in Pipelines, Worker(p)
      PROVE  [Lifecycle!Next]_(Lifecycle!vars)
  <2>1. CASE PlanFails(p) \/ NoRunner(p) \/ StageFails(p) \/ OutputInvalid(p)
    BY <1>2, <2>1
    DEF PlanFails, NoRunner, StageFails, OutputInvalid, Active, callVars
  <2>2. CASE PlanReturns(p)
    BY <1>2, <2>2, SilentRefines DEF PlanReturns, Active, callVars
  <2>3. CASE EnterStage(p) \/ StageReturns(p)
    <3>1. disk[p].status \notin {"completed", "failed"}
      BY <2>3 DEF EnterStage, StageReturns, WorkerInv, DiskInv, Active
    <3> QED
      BY <2>3, <3>1, SaveRefines
      DEF EnterStage, StageReturns, PipelineOf, callVars
  <2>4. CASE InvokeRunner(p) \/ ElseReturns(p)
    BY <2>4, SilentRefines DEF InvokeRunner, ElseReturns, callVars
  <2>5. CASE SkipReply(p) \/ ReplyReturns(p)
    BY <1>3, <2>5 DEF SkipReply, ReplyReturns, InReply, callVars
  <2>6. CASE InvokeReply(p)
    <3>1. /\ auto[p] = 0 /\ apology[p] = 0
          /\ auto' = [auto EXCEPT ![p] = 1]
          /\ UNCHANGED <<disk, apology>>
      <4>1. auto[p] = 0 /\ apology[p] = 0
        BY <2>6 DEF InvokeReply, WorkerInv, AnswerInv
      <4>2. auto' = [auto EXCEPT ![p] = auto[p] + 1] /\ auto[p] + 1 = 1
        BY <2>6, <4>1 DEF InvokeReply
      <4> QED
        BY <2>6, <4>1, <4>2 DEF InvokeReply
    <3>2. Answer(p) = "none"
      BY <3>1 DEF Answer
    <3>3. Answers' = [Answers EXCEPT ![p] = "result"]
      BY <3>1, AnswerChange
    <3>4. disk[p].status \notin {"completed", "failed"}
      BY <2>6 DEF InvokeReply, WorkerInv, DiskInv, Active
    <3>5. Lifecycle!SendResult(p)
      BY <3>1, <3>2, <3>3, <3>4
      DEF Lifecycle!SendResult, Lifecycle!Final, Answers
    <3> QED
      BY <3>5 DEF Lifecycle!Next
  <2>7. CASE FireElse(p)
    <3>1. CASE reply[p] # "ok"
      BY <2>7, <3>1, SilentRefines DEF FireElse
    <3>2. CASE reply[p] = "ok"
      <4>1. /\ auto[p] = 0 /\ apology[p] = 0
            /\ apology' = [apology EXCEPT ![p] = 1]
            /\ UNCHANGED <<disk, auto>>
        <5>1. auto[p] = 0 /\ apology[p] = 0
          BY <2>7 DEF FireElse, WorkerInv, AnswerInv
        <5>2. apology' = [apology EXCEPT ![p] = apology[p] + 1]
          BY <2>7, <3>2 DEF FireElse
        <5>3. apology[p] + 1 = 1
          BY <5>1
        <5> QED
          BY <2>7, <5>1, <5>2, <5>3 DEF FireElse
      <4>2. Answers' = [Answers EXCEPT ![p] = "apology"]
        BY <4>1, AnswerChange
      <4>3. Answer(p) = "none"
        BY <4>1 DEF Answer
      <4>4. disk[p].status # "completed"
        BY <2>7 DEF FireElse, WorkerInv, DiskInv
      <4>5. Lifecycle!SendApology(p)
        BY <4>1, <4>2, <4>3, <4>4 DEF Lifecycle!SendApology, Answers
      <4> QED
        BY <4>5 DEF Lifecycle!Next
    <3> QED
      BY <3>1, <3>2
  <2> QED
    BY <1>4, <2>1, <2>2, <2>3, <2>4, <2>5, <2>6, <2>7 DEF Worker
<1>5. ASSUME NEW p \in Pipelines, Sweep(p)
      PROVE  [Lifecycle!Next]_(Lifecycle!vars)
  BY <1>5, SaveRefines DEF Sweep, ProcInv, PipelineOf, callVars
<1>6. CASE Boot \/ Ready \/ Stop \/ Exit \/ Crash \/ UNCHANGED vars
  BY <1>6, SilentRefines
  DEF Boot, Ready, Stop, Exit, Crash, vars, callVars
<1> QED
  BY <1>1, <1>4, <1>5, <1>6 DEF Next

\* Every behaviour of the executor, crashes included, is one PipelineLifecycle
\* allows: terminal records are final, one answer, no apology for a success.
THEOREM Refinement == Spec => ImplementsLifecycle
<1>1. Init => Lifecycle!Init
  BY DEF Init, Lifecycle!Init, Answer, NoRecord, PipelineOf
<1>2. IInv /\ [Next]_vars => [Lifecycle!Next]_(Lifecycle!vars)
  BY StepRefines
<1> QED
  BY <1>1, <1>2, Inductive, PTL DEF Spec, ImplementsLifecycle, Lifecycle!Spec
-----------------------------------------------------------------------------
(* Second layer: what a worker hands on, whom it answers, what it leaves *)

\* The pipe of a worker in its plan, and where truncated outputs can lie.
PipeInv(p) ==
  /\ pc[p] \in {"idle", "plan"} => cut[p] = {}
  /\ pc[p] \in InLoop \cup InReply =>
       /\ cut[p] \subseteq 1..(stage[p] - 1)
       /\ pipe[p].src < stage[p]
       /\ pipe[p].src = LastProcess(plan[p], stage[p])
       /\ pipe[p].trunc = (pipe[p].src \in cut[p])

\* A worker that returned has answered, if the reply command is usable.
DoneInv(p) == pc[p] = "done" /\ reply[p] = "ok" => auto[p] + apology[p] = 1

\* Who accounts for a record that says "running": a worker that is still to
\* save its end, the coming or current sweep, or a failed file operation.
RunningInv(p) ==
  disk[p].status = "running" =>
    \/ pc[p] \in Active \ {"failed", "else"}
    \/ up = "down" \/ p \in stale \/ p \in faulty

IInv2 == \A p \in Pipelines : PipeInv(p) /\ DoneInv(p) /\ RunningInv(p)

\* The last process stage before stage k + 1 is k itself or the last before k.
LEMMA LastProcessStep ==
  ASSUME NEW s, NEW k \in Nat \ {0}
  PROVE  LastProcess(s, k + 1) =
           IF s[k] = "process" THEN k ELSE LastProcess(s, k)
<1> DEFINE procs(n) == {j \in 1..(n - 1) : s[j] = "process"}
<1>1. CASE s[k] = "process"
  <2>1. k \in procs(k + 1) /\ \A i \in procs(k + 1) : i <= k
    BY <1>1
  <2>2. \A j \in procs(k + 1) : (\A i \in procs(k + 1) : i <= j) => j = k
    BY <2>1
  <2>3. (CHOOSE j \in procs(k + 1) : \A i \in procs(k + 1) : i <= j) = k
    BY <2>1, <2>2
  <2> QED
    BY <1>1, <2>1, <2>3 DEF LastProcess
<1>2. CASE s[k] # "process"
  <2>1. procs(k + 1) = procs(k)
    BY <1>2
  <2> DEFINE last(S) == IF S = {} THEN 0
                        ELSE CHOOSE j \in S : \A i \in S : i <= j
  <2>2. /\ LastProcess(s, k + 1) = last(procs(k + 1))
        /\ LastProcess(s, k) = last(procs(k))
    BY DEF LastProcess
  <2> HIDE DEF last, procs
  <2> QED
    BY <1>2, <2>1, <2>2
<1> QED
  BY <1>1, <1>2

\* Before the first stage the pipe holds the email metadata.
LEMMA LastProcessFirst ==
  ASSUME NEW s
  PROVE  LastProcess(s, 1) = 0
<1>1. {j \in 1..(1 - 1) : s[j] = "process"} = {}
  OBVIOUS
<1> QED
  BY <1>1 DEF LastProcess

\* A worker's pipe depends on that worker's state only, and on no part of it
\* that a save, an answer or the sweep touches.
LEMMA PipeFrame ==
  ASSUME NEW q \in Pipelines, PipeInv(q),
         \/ pc'[q] = pc[q]
         \/ pc'[q] \notin {"idle", "plan"} \cup InLoop \cup InReply
         \/ pc'[q] = "plan" /\ pc[q] = "idle"
         \/ /\ pc[q] \in InLoop \cup InReply
            /\ pc'[q] \in InLoop \cup InReply,
         pc'[q] \in {"idle", "plan"} \cup InLoop \cup InReply =>
           /\ plan'[q] = plan[q] /\ stage'[q] = stage[q]
           /\ pipe'[q] = pipe[q] /\ cut'[q] = cut[q]
  PROVE  PipeInv(q)'
BY DEF PipeInv, InLoop, InReply

\* Every step keeps pipe and flag together.
LEMMA PipeStep ==
  ASSUME IInv, [Next]_vars, NEW q \in Pipelines, PipeInv(q)
  PROVE  PipeInv(q)'
<1> USE DEF IInv
<1>1. CASE UNCHANGED vars
  BY <1>1, PipeFrame DEF vars
<1>2. CASE Boot \/ Ready \/ Stop \/ Exit
  <2>1. UNCHANGED <<pc, plan, stage, pipe, cut>>
    BY <1>2 DEF Boot, Ready, Stop, Exit, workVars
  <2> QED
    BY <2>1, PipeFrame
<1>3. CASE Crash
  <2>1. /\ pc'[q] = pc[q] \/ pc'[q] = "lost"
        /\ UNCHANGED <<plan, stage, pipe, cut>>
    BY <1>3 DEF TypeOK, Crash
  <2> QED
    BY <2>1, PipeFrame DEF InLoop, InReply
<1>4. ASSUME NEW p \in Pipelines, Start(p) \/ Worker(p) \/ Sweep(p)
      PROVE  PipeInv(q)'
  <2>1. CASE Sweep(p)
    BY <2>1, PipeFrame DEF Sweep, workVars
  <2>2. CASE Start(p)
    <3>1. /\ \/ pc'[q] = pc[q]
             \/ pc'[q] = "plan" /\ pc[q] = "idle"
          /\ UNCHANGED <<plan, stage, pipe, cut>>
      BY <2>2 DEF TypeOK, Start
    <3> QED
      BY <3>1, PipeFrame
  <2>3. CASE PlanFails(p) \/ NoRunner(p) \/ StageFails(p) \/ SkipReply(p)
             \/ ReplyReturns(p) \/ FireElse(p) \/ ElseReturns(p)
    <3>1. UNCHANGED <<plan, stage, pipe, cut>>
      BY <2>3 DEF PlanFails, NoRunner, StageFails, SkipReply, ReplyReturns,
                  FireElse, ElseReturns
    <3>2. pc'[q] = pc[q] \/ pc'[q] \in {"failed", "done", "else"}
      BY <2>3 DEF TypeOK, PlanFails, NoRunner, StageFails, SkipReply,
                  ReplyReturns, FireElse, ElseReturns, Fail, Complete
    <3> QED
      BY <3>1, <3>2, PipeFrame DEF InLoop, InReply
  <2>4. CASE EnterStage(p) \/ InvokeRunner(p) \/ InvokeReply(p)
    <3>1. UNCHANGED <<plan, stage, pipe, cut>>
      BY <2>4 DEF EnterStage, InvokeRunner, InvokeReply
    <3>2. \/ pc'[q] = pc[q]
          \/ /\ pc[q] \in InLoop \cup InReply
             /\ pc'[q] \in InLoop \cup InReply
      BY <2>4 DEF TypeOK, EnterStage, InvokeRunner, InvokeReply, InLoop,
                  InReply
    <3> QED
      BY <3>1, <3>2, PipeFrame
  <2>5. CASE OutputInvalid(p)
    <3>1. /\ UNCHANGED <<plan, stage, pipe>>
          /\ q # p => pc'[q] = pc[q] /\ cut'[q] = cut[q]
          /\ q = p => pc'[q] = "failed"
      BY <2>5 DEF TypeOK, OutputInvalid, Fail
    <3> QED
      BY <3>1, PipeFrame DEF InLoop, InReply
  <2>6. CASE PlanReturns(p)
    <3>1. UNCHANGED cut
      BY <2>6 DEF PlanReturns
    <3>2. q # p => /\ pc'[q] = pc[q] /\ plan'[q] = plan[q]
                   /\ stage'[q] = stage[q] /\ pipe'[q] = pipe[q]
      BY <2>6 DEF TypeOK, PlanReturns, Fail
    <3>3. q = p => \/ pc'[q] = "failed"
                   \/ /\ pc'[q] = "stage" /\ stage'[q] = 1
                      /\ pipe'[q] = [src |-> 0, trunc |-> FALSE]
      BY <2>6 DEF TypeOK, PlanReturns, Fail
    <3>4. q = p => cut[q] = {}
      BY <2>6 DEF PlanReturns, PipeInv
    <3>5. CASE pc'[q] = "stage" /\ q = p
      <4>1. /\ pc'[q] = "stage" /\ stage'[q] = 1 /\ cut'[q] = {}
            /\ pipe'[q].src = 0 /\ pipe'[q].trunc = FALSE
        BY <3>1, <3>3, <3>4, <3>5
      <4>2. LastProcess(plan'[q], 1) = 0
        BY LastProcessFirst
      <4>3. /\ cut'[q] \subseteq 1..(stage'[q] - 1)
            /\ pipe'[q].src < stage'[q]
            /\ pipe'[q].src = LastProcess(plan'[q], stage'[q])
            /\ pipe'[q].trunc = (pipe'[q].src \in cut'[q])
        <5> DEFINE x == pipe'[q].trunc  y == pipe'[q].src \in cut'[q]
        <5>0. x = FALSE /\ y = FALSE
          BY <4>1
        <5> HIDE DEF x, y
        <5>1. x = y
          BY <5>0
        <5> QED
          BY <4>1, <4>2, <5>1 DEF x, y
      <4>4. pc'[q] \notin {"idle", "plan"}
        BY <4>1
      <4> HIDE DEF IInv
      <4> QED
        BY <4>3, <4>4, Zenon DEF PipeInv
    <3> QED
      BY <3>1, <3>2, <3>3, <3>5, PipeFrame DEF InLoop, InReply
  <2>7. CASE StageReturns(p)
    <3>1. CASE q # p
      <4>1. /\ pc'[q] = pc[q] /\ plan'[q] = plan[q] /\ stage'[q] = stage[q]
            /\ pipe'[q] = pipe[q] /\ cut'[q] = cut[q]
        BY <2>7, <3>1 DEF TypeOK, StageReturns
      <4> QED
        BY <4>1, PipeFrame
    <3>2. CASE q = p
      <4> DEFINE k == stage[q]
      <4>1. /\ k \in Nat \ {0}
            /\ cut[q] \subseteq 1..(k - 1)
            /\ pipe[q].src \in Nat /\ pipe[q].src < k
            /\ pipe[q].src = LastProcess(plan[q], k)
            /\ pipe[q].trunc = (pipe[q].src \in cut[q])
        BY <2>7, <3>2 DEF TypeOK, StageReturns, PipeInv, InLoop
      <4>2. PICK t \in BOOLEAN :
              /\ cut'[q] = IF t THEN cut[q] \cup {k} ELSE cut[q]
              /\ pipe'[q] = NextPipe(pipe[q], plan[q], k, t)
        BY <2>7, <3>2 DEF TypeOK, StageReturns
      <4>3. /\ stage'[q] = k + 1 /\ plan'[q] = plan[q]
            /\ pc'[q] \in {"stage", "reply"}
        BY <2>7, <3>2 DEF TypeOK, StageReturns
      <4>4. LastProcess(plan[q], k + 1) =
              IF plan[q][k] = "process" THEN k ELSE LastProcess(plan[q], k)
        BY <4>1, LastProcessStep
      <4>5. cut'[q] \subseteq 1..((k + 1) - 1)
        BY <4>1, <4>2
      <4>6. /\ pipe'[q].src < k + 1
            /\ pipe'[q].src = LastProcess(plan[q], k + 1)
        <5>1. CASE plan[q][k] = "process"
          BY <4>1, <4>2, <4>4, <5>1 DEF NextPipe
        <5>2. CASE plan[q][k] # "process"
          BY <4>1, <4>2, <4>4, <5>2 DEF NextPipe
        <5> QED
          BY <5>1, <5>2
      <4>7. pipe'[q].trunc = (pipe'[q].src \in cut'[q])
        <5>1. k \notin cut[q]
          BY <4>1
        <5>2. CASE plan[q][k] = "process"
          BY <4>2, <5>1, <5>2 DEF NextPipe
        <5>3. CASE plan[q][k] # "process"
          <6>1. pipe'[q] = pipe[q] /\ pipe[q].src # k
            BY <4>1, <4>2, <5>3 DEF NextPipe
          <6>2. (pipe[q].src \in cut'[q]) = (pipe[q].src \in cut[q])
            BY <4>2, <6>1
          <6> QED
            BY <4>1, <6>1, <6>2
        <5> QED
          BY <5>2, <5>3
      <4> QED
        BY <4>3, <4>5, <4>6, <4>7 DEF PipeInv, InLoop, InReply
    <3> QED
      BY <3>1, <3>2
  <2> QED
    BY <1>4, <2>1, <2>2, <2>3, <2>4, <2>5, <2>6, <2>7 DEF Worker
<1> QED
  BY <1>1, <1>2, <1>3, <1>4 DEF Next

\* No step returns from Run in silence.
LEMMA DoneStep ==
  ASSUME IInv, [Next]_vars, NEW q \in Pipelines, DoneInv(q)
  PROVE  DoneInv(q)'
<1> USE DEF IInv
<1>1. reply' = reply
  BY DEF Next, vars, Start, Worker, PlanFails, PlanReturns, EnterStage,
         NoRunner, InvokeRunner, StageFails, OutputInvalid, StageReturns,
         SkipReply, InvokeReply, ReplyReturns, FireElse, ElseReturns, Sweep,
         Boot, Ready, Stop, Exit, Crash
<1>2. CASE UNCHANGED vars
  BY <1>2 DEF DoneInv, vars
<1>3. CASE Boot \/ Ready \/ Stop \/ Exit
  BY <1>1, <1>3 DEF Boot, Ready, Stop, Exit, workVars, callVars, DoneInv
<1>4. CASE Crash
  BY <1>1, <1>4 DEF TypeOK, Crash, callVars, DoneInv
<1>5. ASSUME NEW p \in Pipelines, Start(p) \/ Worker(p) \/ Sweep(p)
      PROVE  DoneInv(q)'
  <2>1. CASE Sweep(p)
    BY <1>1, <2>1 DEF Sweep, workVars, callVars, DoneInv
  <2>2. CASE \/ Start(p) \/ PlanFails(p) \/ PlanReturns(p) \/ EnterStage(p)
             \/ NoRunner(p) \/ StageFails(p) \/ OutputInvalid(p)
             \/ StageReturns(p)
    <3>1. /\ UNCHANGED <<auto, apology>>
      BY <2>2 DEF Start, PlanFails, PlanReturns, EnterStage, NoRunner,
                  StageFails, OutputInvalid, StageReturns, callVars
    <3>2. pc'[q] = pc[q] \/ pc'[q] # "done"
      BY <2>2 DEF TypeOK, Start, PlanFails, PlanReturns, EnterStage, NoRunner,
                  StageFails, OutputInvalid, StageReturns, Fail
    <3> QED
      BY <1>1, <3>1, <3>2 DEF DoneInv
  <2>3. CASE InvokeRunner(p)
    BY <1>1, <2>3 DEF TypeOK, InvokeRunner, DoneInv
  <2>4. CASE SkipReply(p)
    BY <1>1, <2>4 DEF TypeOK, SkipReply, Complete, DoneInv, callVars
  <2>5. CASE InvokeReply(p)
    BY <1>1, <2>5 DEF TypeOK, InvokeReply, DoneInv
  <2>6. CASE ReplyReturns(p)
    <3>1. UNCHANGED <<auto, apology>> /\ (q = p \/ pc'[q] = pc[q])
      BY <2>6 DEF TypeOK, ReplyReturns, Complete, callVars
    <3>2. auto[p] + apology[p] = 1
      BY <2>6 DEF TypeOK, ReplyReturns, WorkerInv, AnswerInv
    <3> QED
      BY <1>1, <3>1, <3>2 DEF DoneInv
  <2>7. CASE FireElse(p)
    <3>1. CASE q = p
      BY <1>1, <2>7, <3>1 DEF TypeOK, FireElse, DoneInv
    <3>2. CASE q # p
      BY <1>1, <2>7, <3>2 DEF TypeOK, FireElse, DoneInv
    <3> QED
      BY <3>1, <3>2
  <2>8. CASE ElseReturns(p)
    <3>1. UNCHANGED <<auto, apology>> /\ (q = p \/ pc'[q] = pc[q])
      BY <2>8 DEF TypeOK, ElseReturns, callVars
    <3>2. auto[p] + apology[p] = 1
      BY <2>8 DEF TypeOK, ElseReturns, WorkerInv, AnswerInv
    <3> QED
      BY <1>1, <3>1, <3>2 DEF DoneInv
  <2> QED
    BY <1>5, <2>1, <2>2, <2>3, <2>4, <2>5, <2>6, <2>7, <2>8 DEF Worker
<1> QED
  BY <1>2, <1>3, <1>4, <1>5 DEF Next

\* A save that fails marks the pipeline; one that succeeds writes the record.
LEMMA SaveOutcome ==
  ASSUME TypeOK, NEW p \in Pipelines, NEW r, Save(p, r)
  PROVE  /\ faulty \subseteq faulty'
         /\ disk'[p] = r \/ p \in faulty'
         /\ \A q \in Pipelines \ {p} : disk'[q] = disk[q]
BY DEF Save, TypeOK

\* Every step leaves somebody to account for a record that says "running".
LEMMA RunningStep ==
  ASSUME IInv, [Next]_vars, NEW q \in Pipelines, RunningInv(q)
  PROVE  RunningInv(q)'
<1> USE DEF IInv
<1>1. CASE UNCHANGED vars
  BY <1>1 DEF RunningInv, vars
<1>2. CASE Boot
  BY <1>2 DEF Boot, RunningInv
<1>3. CASE Ready \/ Stop
  <2>1. /\ UNCHANGED <<stale, disk, faulty, pc>> /\ up' # "down"
        /\ up # "down"
    BY <1>3 DEF Ready, Stop, workVars
  <2> QED
    BY <2>1 DEF RunningInv
<1>4. CASE Exit \/ Crash
  BY <1>4 DEF Exit, Crash, RunningInv
<1>5. ASSUME NEW p \in Pipelines, Start(p) \/ Worker(p) \/ Sweep(p)
      PROVE  RunningInv(q)'
  <2>1. CASE Sweep(p)
    <3>1. /\ faulty \subseteq faulty' /\ UNCHANGED <<up, pc>>
          /\ disk'[p].status = "failed" \/ p \in faulty'
          /\ q # p => disk'[q] = disk[q]
          /\ stale' = stale \ {p}
      BY <2>1, SaveOutcome DEF Sweep, PipelineOf, workVars
    <3> QED
      BY <3>1 DEF RunningInv
  <2>2. ASSUME NEW r, Save(p, r), UNCHANGED <<up, stale>>,
               r.status # "running" \/
                 pc'[p] \in {"plan", "stage", "invoke", "reply"},
               q # p => pc'[q] = pc[q]
        PROVE  RunningInv(q)'
    <3>1. /\ faulty \subseteq faulty'
          /\ disk'[p] = r \/ p \in faulty'
          /\ q # p => disk'[q] = disk[q]
      BY <2>2, SaveOutcome
    <3>2. CASE q = p
      BY <2>2, <3>1, <3>2 DEF RunningInv, Active
    <3>3. CASE q # p
      BY <2>2, <3>1, <3>3 DEF RunningInv
    <3> QED
      BY <3>2, <3>3
  <2>3. ASSUME NEW e, Fail(p, e), UNCHANGED <<up, stale>>
        PROVE  RunningInv(q)'
    BY <2>2, <2>3 DEF TypeOK, Fail, PipelineOf
  <2>4. ASSUME NEW n, NEW e, Complete(p, n, e), UNCHANGED <<up, stale>>
        PROVE  RunningInv(q)'
    BY <2>2, <2>4 DEF TypeOK, Complete, PipelineOf
  <2>5. CASE Start(p) \/ EnterStage(p) \/ StageReturns(p)
    <3>1. /\ UNCHANGED <<up, stale>>
          /\ pc'[p] \in {"plan", "stage", "invoke", "reply"}
          /\ q # p => pc'[q] = pc[q]
      BY <2>5 DEF TypeOK, Start, EnterStage, StageReturns, procVars
    <3>2. \E r : Save(p, r)
      BY <2>5 DEF Start, EnterStage, StageReturns
    <3> QED
      BY <2>2, <3>1, <3>2
  <2>6. CASE PlanFails(p) \/ NoRunner(p) \/ StageFails(p) \/ OutputInvalid(p)
    BY <2>3, <2>6
    DEF PlanFails, NoRunner, StageFails, OutputInvalid, procVars
  <2>7. CASE SkipReply(p) \/ ReplyReturns(p)
    BY <2>4, <2>7 DEF SkipReply, ReplyReturns, procVars
  <2>8. CASE PlanReturns(p)
    <3>1. UNCHANGED <<up, stale>>
      BY <2>8 DEF PlanReturns, procVars
    <3>2. \/ \E e : Fail(p, e)
          \/ UNCHANGED <<disk, faulty>> /\ pc' = [pc EXCEPT ![p] = "stage"]
      BY <2>8 DEF PlanReturns
    <3> QED
      BY <2>3, <3>1, <3>2 DEF TypeOK, RunningInv, Active
  <2>9. CASE InvokeRunner(p) \/ InvokeReply(p)
    <3>1. /\ UNCHANGED <<up, stale, disk, faulty>>
          /\ pc'[q] = pc[q] \/ pc'[q] \in {"running", "replying"}
      BY <2>9 DEF TypeOK, InvokeRunner, InvokeReply, procVars
    <3> QED
      BY <3>1 DEF RunningInv, Active
  <2>10. CASE FireElse(p) \/ ElseReturns(p)
    <3>1. /\ UNCHANGED <<up, stale, disk, faulty>>
          /\ pc[p] \in {"failed", "else"} /\ (q # p => pc'[q] = pc[q])
      BY <2>10 DEF TypeOK, FireElse, ElseReturns, procVars
    <3> QED
      BY <3>1 DEF RunningInv
  <2> QED
    BY <1>5, <2>1, <2>5, <2>6, <2>7, <2>8, <2>9, <2>10 DEF Worker
<1> QED
  BY <1>1, <1>2, <1>3, <1>4, <1>5 DEF Next

\* The second layer holds in every reachable state as well.
THEOREM Inductive2 == Spec => []IInv2
<1>1. Init => IInv2
  <2> SUFFICES ASSUME Init, NEW p \in Pipelines
               PROVE  PipeInv(p) /\ DoneInv(p) /\ RunningInv(p)
    BY DEF IInv2
  <2> QED
    BY DEF Init, PipeInv, DoneInv, RunningInv, InLoop, InReply
<1>2. IInv /\ IInv2 /\ [Next]_vars => IInv2'
  BY PipeStep, DoneStep, RunningStep DEF IInv2
<1> QED
  BY <1>1, <1>2, Inductive, PTL DEF Spec

\* Every runner, the reply included, gets the output of the last process stage
\* before it, with the truncation flag of that very output.
THEOREM PipeAndFlagAgree == Spec => []PipeCarriesItsFlag
<1>1. IInv2 => PipeCarriesItsFlag
  BY DEF IInv2, PipeInv, PipeCarriesItsFlag, InLoop, InReply
<1> QED
  BY <1>1, Inductive2, PTL

\* No failure path of Run is silent towards the sender.
THEOREM NoSilentEnd == Spec => []DoneMeansAnswered
<1>1. IInv2 => DoneMeansAnswered
  BY DEF IInv2, DoneInv, DoneMeansAnswered
<1> QED
  BY <1>1, Inductive2, PTL

\* Once the sweep is over no record of an earlier process still says
\* "running", failed file operations apart.
THEOREM SweepLeavesNoneRunning == Spec => []NoStaleRunning
<1>1. IInv /\ IInv2 => NoStaleRunning
  BY DEF IInv, ProcInv, IInv2, RunningInv, NoStaleRunning
<1> QED
  BY <1>1, Inductive, Inductive2, PTL
=============================================================================
