------------------------------ MODULE Executor ------------------------------
(***************************************************************************)
(* The pipeline executor of beadle-daemon (internal/daemon/pipeline.go),   *)
(* one worker goroutine per pipeline, together with the startup sweep      *)
(* (cmd/beadle-daemon/main.go) that relabels the records a dead daemon     *)
(* left behind.  A worker plans, validates, runs its stages one after the  *)
(* other, saves its record at every turn, and answers the sender either    *)
(* with the result or with a fixed apology.  The daemon may crash between  *)
(* any two effects, and any Save may fail.                                 *)
(***************************************************************************)
EXTENDS Naturals, Sequences

CONSTANTS
  Pipelines,     \* one identifier (uuid) per accepted email
  Kinds,         \* the kinds of command call the planner may emit
  Replies,       \* the states of the "reply" command considered
  MaxStages      \* bound on the number of calls in a plan

ASSUME ExecutorAssumption ==
  /\ MaxStages \in Nat \ {0}
  /\ Kinds \subseteq {"process", "passthrough", "unknown", "badargs",
                      "badschema", "norunner"}
  /\ Replies \subseteq {"absent", "badargs", "norunner", "ok"}

VARIABLES
  up,        \* the daemon: "down", "sweep" (startup), "up", "stopping"
  stale,     \* records LoadRunning returned, still to be relabelled
  reply,     \* reply[p]: the "reply" command as p's worker finds it: "absent"
             \* from the registry, "badargs" (the sender's address fails the
             \* argument check), "norunner" (not registered) or "ok"
  pc,        \* pc[p]: where p's worker goroutine is in Run
  plan,      \* plan[p]: the kinds of the calls the planner returned
  stage,     \* stage[p]: the stage the worker is at, counted from 1
  mem,       \* mem[p]: the Pipeline struct in the worker's memory
  pipe,      \* pipe[p]: the stage whose output the pipe holds (0: the email
             \* metadata) and the truncation flag carried with it
  disk,      \* disk[p]: the record in the pipeline directory
  cut,       \* cut[p]: history, the stages whose output hit the output cap
  ran,       \* ran[p]: history, how often each stage's runner was invoked
  auto,      \* auto[p]: history, how often the result reply was invoked
  apology,   \* apology[p]: history, how often the else reply was invoked
  faulty     \* history, the pipelines one of whose saves or loads failed

procVars == <<up, stale>>
workVars == <<pc, plan, stage, mem, pipe, cut>>
callVars == <<ran, auto, apology>>
vars == <<up, stale, reply, pc, plan, stage, mem, pipe, disk, cut, ran, auto,
          apology, faulty>>

Statuses  == {"running", "completed", "failed"}
Errors    == {"none", "plan", "validate", "schema", "runner", "stage",
              "output", "reply", "stopped"}

\* Pipeline.Status, Current, len(Results) and the cause named by Error.
Record    == [status : Statuses, current : 0..MaxStages,
              results : 0..(MaxStages + 1), err : Errors]

PipelineOf(s, c, n, e) ==
  [status |-> s, current |-> c, results |-> n, err |-> e]

\* Stands for a pipeline with no file in the directory.
NoRecord == PipelineOf("none", 0, 0, "none")

Active == {"plan", "stage", "invoke", "running", "reply", "replying",
           "failed", "else"}

Plans == UNION {[1..n -> Kinds] : n \in 1..MaxStages}

(***************************************************************************)
(* Executor.save and PipelineStore.Save: the record is replaced by an      *)
(* atomic rename or, when any file operation fails, the old one stays and  *)
(* the error is only logged.  PipelineStore.tla opens this step up.        *)
(***************************************************************************)
Save(p, r) ==
  \/ /\ disk' = [disk EXCEPT ![p] = r]
     /\ UNCHANGED faulty
  \/ /\ faulty' = faulty \cup {p}
     /\ UNCHANGED disk

\* Every error return of Run: status, error, save; fireElse comes next.
Fail(p, e) ==
  LET r == PipelineOf("failed", mem[p].current, mem[p].results, e)
  IN  /\ mem' = [mem EXCEPT ![p] = r]
      /\ Save(p, r)
      /\ pc' = [pc EXCEPT ![p] = "failed"]

\* The end of Run: status "completed" whatever became of the reply; n counts
\* the results, the reply's included, e is what the reply left in Error.
Complete(p, n, e) ==
  LET r == PipelineOf("completed", mem[p].current, n, e)
  IN  /\ mem' = [mem EXCEPT ![p] = r]
      /\ Save(p, r)
      /\ pc' = [pc EXCEPT ![p] = "done"]

-----------------------------------------------------------------------------
(* The worker goroutine *)

\* Run up to its first save.  OnNewMail starts workers only while the daemon
\* polls; each Run draws a fresh uuid.
Start(p) ==
  /\ up = "up"
  /\ pc[p] = "idle"
  /\ LET r == PipelineOf("running", 0, 0, "none")
     IN  /\ mem' = [mem EXCEPT ![p] = r]
         /\ Save(p, r)
  /\ pc' = [pc EXCEPT ![p] = "plan"]
  /\ UNCHANGED <<procVars, reply, plan, stage, pipe, cut, callVars>>

\* Planner.Plan failed, or returned an empty list.
PlanFails(p) ==
  /\ pc[p] = "plan"
  /\ Fail(p, "plan")
  /\ UNCHANGED <<procVars, reply, plan, stage, pipe, cut, callVars>>

\* The plan is accepted: every call names a known command with valid args,
\* and every output schema compiles.  The pipe starts as email metadata.
Admissible(s) ==
  \A k \in DOMAIN s : s[k] \notin {"unknown", "badargs", "badschema"}

\* The first defect Run reports: all calls are looked up and their args
\* checked before the first schema is compiled.
Defect(s) ==
  IF \E k \in DOMAIN s : s[k] \in {"unknown", "badargs"}
  THEN "validate" ELSE "schema"

PlanReturns(p) ==
  /\ pc[p] = "plan"
  /\ \E s \in Plans :
       /\ plan' = [plan EXCEPT ![p] = s]
       /\ \/ /\ Admissible(s)
             /\ pc' = [pc EXCEPT ![p] = "stage"]
             /\ stage' = [stage EXCEPT ![p] = 1]
             /\ pipe' = [pipe EXCEPT ![p] = [src |-> 0, trunc |-> FALSE]]
             /\ UNCHANGED <<mem, disk, faulty>>
          \/ /\ ~Admissible(s)
             /\ Fail(p, Defect(s))
             /\ UNCHANGED <<stage, pipe>>
  /\ UNCHANGED <<procVars, reply, cut, callVars>>

\* Top of the loop body: Current = i, save.
EnterStage(p) ==
  /\ pc[p] = "stage"
  /\ LET r == PipelineOf("running", stage[p] - 1, mem[p].results, "none")
     IN  /\ mem' = [mem EXCEPT ![p] = r]
         /\ Save(p, r)
  /\ pc' = [pc EXCEPT ![p] = "invoke"]
  /\ UNCHANGED <<procVars, reply, plan, stage, pipe, cut, callVars>>

\* A missing runner that ends the loop instead of failing the pipeline.
NoRunnerCompletes(p) ==
  /\ pc[p] = "invoke"
  /\ plan[p][stage[p]] = "norunner"
  /\ Complete(p, mem[p].results, "runner")
  /\ UNCHANGED <<procVars, reply, plan, stage, pipe, cut, callVars>>

\* The command's runner is not registered.
NoRunner(p) ==
  /\ pc[p] = "invoke"
  /\ plan[p][stage[p]] = "norunner"
  /\ Fail(p, "runner")
  /\ UNCHANGED <<procVars, reply, plan, stage, pipe, cut, callVars>>

\* runner.Run is called with the pipe and its truncation flag.
InvokeRunner(p) ==
  /\ pc[p] = "invoke"
  /\ plan[p][stage[p]] # "norunner"
  /\ ran' = [ran EXCEPT ![p][stage[p]] = @ + 1]
  /\ pc' = [pc EXCEPT ![p] = "running"]
  /\ UNCHANGED <<procVars, reply, plan, stage, mem, pipe, disk, cut, auto,
                 apology, faulty>>

\* An error return that forgets fireElse.
StageFailsSilently(p) ==
  LET r == PipelineOf("failed", mem[p].current, mem[p].results, "stage")
  IN  /\ pc[p] = "running"
      /\ mem' = [mem EXCEPT ![p] = r]
      /\ Save(p, r)
      /\ pc' = [pc EXCEPT ![p] = "done"]
      /\ UNCHANGED <<procVars, reply, plan, stage, pipe, cut, callVars>>

\* runner.Run returned an error: a failed stage, a timeout, or the context
\* cancelled by Stop.
StageFails(p) ==
  /\ pc[p] = "running"
  /\ Fail(p, "stage")
  /\ UNCHANGED <<procVars, reply, plan, stage, pipe, cut, callVars>>

\* A process stage whose output does not match its schema.
OutputInvalid(p) ==
  /\ pc[p] = "running"
  /\ plan[p][stage[p]] = "process"
  /\ \E t \in SUBSET {stage[p]} : cut' = [cut EXCEPT ![p] = @ \cup t]
  /\ Fail(p, "output")
  /\ UNCHANGED <<procVars, reply, plan, stage, pipe, callVars>>

\* The slip pipeline.go:203-213 describes: the flag describes whichever
\* stage ran last, not the one the pipe came from.
NextPipeFlagOfLastStage(old, s, k, t) ==
  [src |-> IF s[k] = "process" THEN k ELSE old.src, trunc |-> t]

\* The pipe after stage k of plan s returned, truncated or not: a process
\* stage replaces pipe and flag together, a passthrough stage neither.
NextPipe(old, s, k, t) ==
  IF s[k] = "process" THEN [src |-> k, trunc |-> t] ELSE old

StageReturns(p) ==
  /\ pc[p] = "running"
  /\ \E t \in BOOLEAN :
       /\ cut' = [cut EXCEPT ![p] = IF t THEN @ \cup {stage[p]} ELSE @]
       /\ pipe' = [pipe EXCEPT ![p] = NextPipe(@, plan[p], stage[p], t)]
  /\ LET r == PipelineOf("running", mem[p].current, mem[p].results + 1,
                         "none")
     IN  /\ mem' = [mem EXCEPT ![p] = r]
         /\ Save(p, r)
  /\ stage' = [stage EXCEPT ![p] = @ + 1]
  /\ pc' = [pc EXCEPT ![p] = IF stage[p] < Len(plan[p]) THEN "stage"
                                                        ELSE "reply"]
  /\ UNCHANGED <<procVars, reply, plan, callVars>>

\* No usable reply command: absent is only logged, a bad argument or a
\* missing runner is recorded in Error; the pipeline completes all the same.
SkipReply(p) ==
  /\ pc[p] = "reply"
  /\ reply[p] # "ok"
  /\ Complete(p, mem[p].results,
              IF reply[p] = "absent" THEN "none" ELSE "reply")
  /\ UNCHANGED <<procVars, reply, plan, stage, pipe, cut, callVars>>

\* The auto-appended reply stage is invoked with the final pipe, the
\* truncation notice added when the flag says so.
InvokeReply(p) ==
  /\ pc[p] = "reply"
  /\ reply[p] = "ok"
  /\ auto' = [auto EXCEPT ![p] = @ + 1]
  /\ pc' = [pc EXCEPT ![p] = "replying"]
  /\ UNCHANGED <<procVars, reply, plan, stage, mem, pipe, disk, cut, ran,
                 apology, faulty>>

\* A failed result reply treated like a failed stage.
ReplyReturnsFailing(p) ==
  /\ pc[p] = "replying"
  /\ Complete(p, mem[p].results + 1, "none") \/ Fail(p, "reply")
  /\ UNCHANGED <<procVars, reply, plan, stage, pipe, cut, callVars>>

ReplyReturns(p) ==
  /\ pc[p] = "replying"
  /\ \/ Complete(p, mem[p].results + 1, "none")
     \/ Complete(p, mem[p].results, "reply")
  /\ UNCHANGED <<procVars, reply, plan, stage, pipe, cut, callVars>>

\* A fireElse that waits for a usable reply command.
FireElseWaits(p) ==
  /\ pc[p] = "failed"
  /\ reply[p] = "ok"
  /\ apology' = [apology EXCEPT ![p] = @ + 1]
  /\ pc' = [pc EXCEPT ![p] = "else"]
  /\ UNCHANGED <<procVars, reply, plan, stage, mem, pipe, disk, cut, ran,
                 auto, faulty>>

\* fireElse: the fixed failure text goes through the same reply command,
\* under its own context, if that command is usable.
FireElse(p) ==
  /\ pc[p] = "failed"
  /\ IF reply[p] = "ok"
     THEN /\ apology' = [apology EXCEPT ![p] = @ + 1]
          /\ pc' = [pc EXCEPT ![p] = "else"]
     ELSE /\ pc' = [pc EXCEPT ![p] = "done"]
          /\ UNCHANGED apology
  /\ UNCHANGED <<procVars, reply, plan, stage, mem, pipe, disk, cut, ran,
                 auto, faulty>>

\* The else reply ended; an error is only logged.
ElseReturns(p) ==
  /\ pc[p] = "else"
  /\ pc' = [pc EXCEPT ![p] = "done"]
  /\ UNCHANGED <<procVars, reply, plan, stage, mem, pipe, disk, cut,
                 callVars, faulty>>

Worker(p) ==
  \/ PlanFails(p) \/ PlanReturns(p)
  \/ EnterStage(p) \/ NoRunner(p) \/ InvokeRunner(p)
  \/ StageFails(p) \/ OutputInvalid(p) \/ StageReturns(p)
  \/ SkipReply(p) \/ InvokeReply(p) \/ ReplyReturns(p)
  \/ FireElse(p) \/ ElseReturns(p)

-----------------------------------------------------------------------------
(* The daemon process *)

\* A LoadRunning without its status filter.
BootAll ==
  /\ up = "down"
  /\ up' = "sweep"
  /\ stale' = {p \in Pipelines : disk[p] # NoRecord}
  /\ UNCHANGED <<reply, workVars, disk, callVars, faulty>>

\* Startup: LoadRunning.  Unreadable files are skipped, and a directory that
\* cannot be read at all yields none.
Boot ==
  LET running == {p \in Pipelines : disk[p].status = "running"}
  IN  /\ up = "down"
      /\ up' = "sweep"
      /\ stale' \in SUBSET running
      /\ faulty' = faulty \cup (running \ stale')
      /\ UNCHANGED <<reply, workVars, disk, callVars>>

\* sweepStalePipelines relabels one loaded record and saves it.
Sweep(p) ==
  /\ up = "sweep"
  /\ p \in stale
  /\ stale' = stale \ {p}
  /\ Save(p, PipelineOf("failed", disk[p].current, disk[p].results, "stopped"))
  /\ UNCHANGED <<up, reply, workVars, callVars>>

\* A sweep that resumes what it loads (what the TRUST BOUNDARY comment of
\* LoadRunning rules out) would put the workers back where they were.
ReadyResuming ==
  /\ up = "sweep"
  /\ up' = "up"
  /\ stale' = {}
  /\ pc' = [p \in Pipelines |-> IF p \in stale THEN "plan" ELSE pc[p]]
  /\ UNCHANGED <<reply, plan, stage, mem, pipe, cut, disk, callVars, faulty>>

\* A Ready that does not wait for the sweep.
ReadyEarly ==
  /\ up = "sweep"
  /\ up' = "up"
  /\ UNCHANGED <<stale, reply, workVars, disk, callVars, faulty>>

\* The sweep is over: poller and workers may start.
Ready ==
  /\ up = "sweep"
  /\ stale = {}
  /\ up' = "up"
  /\ UNCHANGED <<stale, reply, workVars, disk, callVars, faulty>>

\* SIGTERM or SIGINT: the poller stops, MailHandler.Stop cancels the workers'
\* context and waits for them.
Stop ==
  /\ up = "up"
  /\ up' = "stopping"
  /\ UNCHANGED <<stale, reply, workVars, disk, callVars, faulty>>

Exit ==
  /\ up = "stopping"
  /\ \A p \in Pipelines : pc[p] \notin Active
  /\ up' = "down"
  /\ UNCHANGED <<stale, reply, workVars, disk, callVars, faulty>>

\* The process dies: every goroutine and every in-memory record is gone.
Crash ==
  /\ up # "down"
  /\ up' = "down"
  /\ stale' = {}
  /\ pc' = [p \in Pipelines |-> IF pc[p] \in Active THEN "lost" ELSE pc[p]]
  /\ UNCHANGED <<reply, plan, stage, mem, pipe, cut, disk, callVars, faulty>>

Init ==
  /\ up = "down"
  /\ stale = {}
  /\ reply \in [Pipelines -> Replies]
  /\ pc = [p \in Pipelines |-> "idle"]
  /\ plan = [p \in Pipelines |-> <<>>]
  /\ stage = [p \in Pipelines |-> 1]
  /\ mem = [p \in Pipelines |-> NoRecord]
  /\ pipe = [p \in Pipelines |-> [src |-> 0, trunc |-> FALSE]]
  /\ disk = [p \in Pipelines |-> NoRecord]
  /\ cut = [p \in Pipelines |-> {}]
  /\ ran = [p \in Pipelines |-> [k \in 1..MaxStages |-> 0]]
  /\ auto = [p \in Pipelines |-> 0]
  /\ apology = [p \in Pipelines |-> 0]
  /\ faulty = {}

Next ==
  \/ \E p \in Pipelines : Start(p) \/ Worker(p) \/ Sweep(p)
  \/ Boot \/ Ready \/ Stop \/ Exit \/ Crash

Spec == Init /\ [][Next]_vars

\* Where a worker waits for the planner or a runner, which may never return:
\* a timeout kills processes, but not the goroutines that copy their output
\* (CompoundRun.tla).
Calls == {"plan", "running", "replying", "else"}

(***************************************************************************)
(* Fairness: a goroutine that can run does run.  Nothing is assumed of the *)
(* calls a worker makes, of signals, crashes or new mail.                  *)
(***************************************************************************)
FairSpec ==
  /\ Spec
  /\ \A p \in Pipelines :
       WF_vars(pc[p] \notin Calls /\ Worker(p)) /\ WF_vars(Sweep(p))
  /\ WF_vars(Ready) /\ WF_vars(Exit)

-----------------------------------------------------------------------------
(* Properties *)

\* Every variable stays in its type: Run never writes a record outside
\* Pipeline's fields and a worker is always at one of Run's steps.
TypeOK ==
  /\ up \in {"down", "sweep", "up", "stopping"}
  /\ stale \in SUBSET Pipelines
  /\ reply \in [Pipelines -> Replies]
  /\ pc \in [Pipelines -> Active \cup {"idle", "done", "lost"}]
  /\ plan \in [Pipelines -> Plans \cup {<<>>}]
  /\ stage \in [Pipelines -> 1..(MaxStages + 1)]
  /\ mem \in [Pipelines -> Record \cup {NoRecord}]
  /\ pipe \in [Pipelines -> [src : 0..MaxStages, trunc : BOOLEAN]]
  /\ disk \in [Pipelines -> Record \cup {NoRecord}]
  /\ cut \in [Pipelines -> SUBSET (1..MaxStages)]
  /\ ran \in [Pipelines -> [1..MaxStages -> Nat]]
  /\ auto \in [Pipelines -> Nat]
  /\ apology \in [Pipelines -> Nat]
  /\ faulty \in SUBSET Pipelines

\* However the daemon crashes and restarts, a sender gets at most one answer
\* for one pipeline: never the result and the else handler's apology, and
\* neither of them twice.
OneAnswer ==
  \A p \in Pipelines : auto[p] + apology[p] <= 1

\* Stages run in plan order and each at most once over all restarts of the
\* daemon: a record found "running" at startup is never resumed.
StagesOnceInOrder ==
  \A p \in Pipelines : \A k \in 1..MaxStages :
    /\ ran[p][k] <= 1
    /\ ran[p][k] = 1 => \A j \in 1..(k - 1) : ran[p][j] = 1

\* "Validate all commands before execution": no stage's runner is invoked
\* when some later call of the plan is unknown, has bad arguments or an
\* output schema that does not compile.
ValidatedBeforeRun ==
  \A p \in Pipelines :
    (\E k \in 1..MaxStages : ran[p][k] > 0) => Admissible(plan[p])

\* The last process stage before stage k, 0 if there is none.
LastProcess(s, k) ==
  LET procs == {j \in 1..(k - 1) : s[j] = "process"}
  IN  IF procs = {} THEN 0 ELSE CHOOSE j \in procs : \A i \in procs : i <= j

\* What a runner is handed, stages and auto-reply alike, is the output of the
\* last process stage before it, flagged truncated exactly if that very
\* output was cut at the cap: the sender of a partial result is told so, and
\* the sender of a whole one is not.
PipeCarriesItsFlag ==
  \A p \in Pipelines :
    pc[p] \in {"stage", "invoke", "running", "reply", "replying"} =>
      /\ pipe[p].src = LastProcess(plan[p], stage[p])
      /\ pipe[p].trunc = (pipe[p].src \in cut[p])

\* A record that says "completed" is true: every stage of the plan ran, its
\* output was recorded, no apology went out, and if Error is empty and a
\* usable reply command exists the sender was sent the result.
CompletedIsTrue ==
  \A p \in Pipelines :
    disk[p].status = "completed" =>
      /\ \A k \in DOMAIN plan[p] : ran[p][k] = 1
      /\ disk[p].results >= Len(plan[p])
      /\ apology[p] = 0
      /\ (reply[p] = "ok") <=> (auto[p] = 1)

\* A worker that ran to its end has answered the sender whenever the reply
\* command is usable: no failure path of Run is silent.
DoneMeansAnswered ==
  \A p \in Pipelines :
    pc[p] = "done" /\ reply[p] = "ok" => auto[p] + apology[p] = 1

\* Once the sweep is over, a "running" record belongs to a worker of this
\* process; the only others are those whose save or load failed.
NoStaleRunning ==
  \A p \in Pipelines :
    up \in {"up", "stopping"} /\ disk[p].status = "running" =>
      pc[p] \in Active \/ p \in faulty

\* Nothing but a call of the planner or of a runner that never returns can keep
\* MailHandler.Stop waiting: if every call a worker is in returns, by whatever
\* path the worker goes on, a stopping daemon exits.  Such a call does keep it
\* waiting for ever, and CompoundRun.tla has one.
StopEnds ==
  (\A p \in Pipelines : []<>(pc[p] \notin Calls)) =>
    (up = "stopping" ~> up = "down")

\* Run and sweep together implement the observer's view of a pipeline.
Answer(p) ==
  IF auto[p] > 0 THEN "result" ELSE IF apology[p] > 0 THEN "apology" ELSE "none"

Lifecycle == INSTANCE PipelineLifecycle WITH
  rec <- [p \in Pipelines |-> disk[p].status],
  answer <- [p \in Pipelines |-> Answer(p)]

\* The executor implements PipelineLifecycle: terminal records are final, one
\* answer per pipeline, no apology for a completed one.
ImplementsLifecycle == Lifecycle!Spec
=============================================================================
