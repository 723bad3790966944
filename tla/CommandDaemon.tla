--------------------------- MODULE CommandDaemon ---------------------------
(***************************************************************************)
(* Command files and stages together: the daemon loads signed commands at  *)
(* its start and runs stages of them while the files go on changing.       *)
(***************************************************************************)
EXTENDS CommandSigning, StageRun

CONSTANTS
    Given,      \* the arguments a planner may give
    MaxStages

VARIABLES ran,      \* ghost: the recipes run, with the owner in force
          stages
vars == <<signingVars, stageVars, ran, stages>>

Init == SigningInit /\ StageInit /\ ran = {} /\ stages = 0

\* The executor starts a stage of a loaded command whose arguments validate.
\* Commands with steps belong to CompoundRun.
RunStage ==
    /\ stages < MaxStages /\ stages' = stages + 1
    /\ \E c \in commands, g \in Given :
         /\ ValidateArgs(c.cmd, g) /\ c.cmd.steps = <<>>
         /\ Begin([runner |-> c.cmd.runner, env |-> c.cmd.env, servers |-> c.cmd.servers,
                   binary |-> c.cmd.name])
         /\ ran' = ran \cup {[owner |-> owner, written |-> c.written]}
    /\ UNCHANGED signingVars

Quiescent == pc = "idle" /\ step = "idle" /\ UNCHANGED vars

Next ==
    \/ SigningNext /\ UNCHANGED <<stageVars, ran, stages>>
    \/ step = "idle" /\ StartDaemon /\ UNCHANGED <<stageVars, ran, stages>>
    \/ RunStage \/ Quiescent
    \/ StageNext /\ UNCHANGED <<signingVars, ran, stages>>

Spec == Init /\ [][Next]_vars

-----------------------------------------------------------------------------
\* What runs is exactly what the owner of that start signed, whatever became
\* of the file, the key or daemon.json since (loadCommand, Executor.Run).
RunsAsSigned ==
    \A r \in ran : \E m \in made : m.sig.by = r.owner /\ m.sig.over = r.written
=============================================================================
