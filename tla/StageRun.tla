------------------------------ MODULE StageRun ------------------------------
(***************************************************************************)
(* One stage of a pipeline as its runner executes it: ClaudeRunner         *)
(* (runner.go, templates.go, mission.go, spawner.go) starts a worker for a *)
(* mission, CLIRunner a binary of the whitelist.  Every call to the        *)
(* system, to ethos and to the worker may fail; a timeout or a shutdown    *)
(* kills the child.  Output is counted in units, up to MaxOutput.          *)
(***************************************************************************)
EXTENDS Naturals, Sequences, FiniteSets

CONSTANTS
    Servers,            \* the MCP servers of the registry that can be resolved
    EnvVars,            \* the variables of the daemon's environment
    Binaries,           \* the binaries that resolve inside the whitelist
    OutputCap, MaxOutput

ASSUME StageAssumption == OutputCap \in Nat /\ MaxOutput \in Nat /\ OutputCap < MaxOutput

VARIABLES
    step,       \* where the runner is
    call,       \* the command it runs and what it was given
    temps,      \* the temporary files of this stage
    stuck,      \* observed: the files whose removal the system refused
    mission,    \* "none", "open" or "closed"
    child,      \* the child process: state, exit, report, what it printed
    result      \* what the runner returned

stageVars == <<step, call, temps, stuck, mission, child, result>>

NoChild == [state |-> "none"]
NoResult == [ok |-> FALSE, out |-> 0, truncated |-> FALSE]
NoCall == [env |-> {}]

StageInit ==
    /\ step = "idle" /\ call = NoCall /\ temps = {} /\ stuck = {}
    /\ mission = "none" /\ child = NoChild /\ result = NoResult

\* A removal that fails is at most logged.
RemoveTemps(fs) ==
    \E kept \in SUBSET (fs \ stuck) :
        temps' = (temps \ fs) \cup stuck \cup kept /\ stuck' = stuck \cup kept

\* The runner's return runs its deferred removals.
Return(r) ==
    /\ step' = "returned" /\ result' = r /\ RemoveTemps(temps)
    /\ UNCHANGED <<call, child>>

Failed(missionAfter) == Return(NoResult) /\ mission' = missionAfter
Goto(s) == step' = s /\ UNCHANGED <<call, child, result>>

Begin(c) ==
    /\ step = "idle"
    /\ call' = c /\ UNCHANGED <<temps, stuck, mission, child, result>>
    /\ step' = IF c.runner = "claude" THEN "env" ELSE "resolve"

\* A declared variable that is not set fails the stage.
ClaudeEnv ==
    /\ step = "env"
    /\ IF call.env \subseteq EnvVars THEN Goto("mcp") /\ UNCHANGED <<temps, stuck, mission>> ELSE Failed(mission)

\* BuildMCPConfig: every server must be known and resolve; the file is gone
\* again when it cannot be written.
BuildMCPConfig ==
    /\ step = "mcp"
    /\ \/ Failed(mission)
       \/ /\ call.servers \subseteq Servers
          /\ temps' = temps \cup {"mcp"} /\ Goto("contract") /\ UNCHANGED <<stuck, mission>>

\* createMissionFromContract writes the contract, ...
WriteContract ==
    /\ step = "contract"
    /\ \/ Failed(mission)
       \/ temps' = temps \cup {"contract"} /\ Goto("create") /\ UNCHANGED <<stuck, mission>>

\* ... calls ethos and reads the id from its output.  A mission whose id
\* cannot be read exists all the same.
CreateMission ==
    /\ step = "create"
    /\ \/ Failed("none")
       \/ Failed("open")
       \/ RemoveTemps({"contract"}) /\ mission' = "open" /\ Goto("prompt")

\* BuildSystemPromptForTools.
BuildSystemPrompt ==
    /\ step = "prompt"
    /\ \/ Failed(mission)
       \/ temps' = temps \cup {"prompt"} /\ Goto("spawn") /\ UNCHANGED <<stuck, mission>>

Starts(after) ==
    /\ child' = [state |-> "running", printed |-> 0, exit |-> 0, said |-> "fine"]
    /\ step' = after /\ UNCHANGED <<call, temps, stuck, mission, result>>

\* WorkerSpawner.Run up to the end of the worker.
Spawn == step = "spawn" /\ (Failed(mission) \/ Starts("worker"))

\* CLIRunner.Run from the environment on.
StartBinary == step = "start" /\ (Failed(mission) \/ Starts("output"))

\* The child (external) prints.
ChildPrints ==
    /\ child.state = "running" /\ child.printed < MaxOutput
    /\ child' = [child EXCEPT !.printed = @ + 1]
    /\ UNCHANGED <<step, call, temps, stuck, mission, result>>

\* The child ends by itself or is killed at the timeout or the shutdown; a
\* worker's report says it is fine, an error, or cannot be read.
ChildEnds ==
    /\ child.state = "running"
    /\ \E x \in {0, 1}, said \in {"fine", "error", "unreadable"}, killed \in BOOLEAN :
         /\ killed => x = 1
         /\ call.runner = "cli" => said = "fine"
         /\ child' = [state |-> "ended", printed |-> child.printed, exit |-> x, said |-> said]
    /\ UNCHANGED <<step, call, temps, stuck, mission, result>>

\* parseWorkerOutput: no output and output that does not parse are errors.
parseWorkerOutput(c) == c.printed > 0 /\ c.said # "unreadable"

\* Mutant: the exit status is not looked at.
IgnoreExit(c) == parseWorkerOutput(c) /\ c.said = "fine"

\* A worker that exits with an error has failed whatever it reports.
WorkerSucceeded(c) == parseWorkerOutput(c) /\ c.said = "fine" /\ c.exit = 0

\* After an error the mission stays open for whoever looks into it.
WorkerEnds ==
    /\ step = "worker" /\ child.state = "ended"
    /\ IF WorkerSucceeded(child) THEN Goto("close") /\ UNCHANGED <<temps, stuck, mission>>
       ELSE Failed(mission)

\* A mission that cannot be closed is only logged.
CloseMission ==
    /\ step = "close"
    /\ mission' \in {"open", "closed"}
    /\ Return([ok |-> TRUE, out |-> child.printed, truncated |-> FALSE])

\* BinaryWhitelist.Resolve and envForCommand.
ResolveBinary ==
    /\ step = "resolve"
    /\ IF call.binary \in Binaries /\ call.env \subseteq EnvVars
         THEN Goto("start") /\ UNCHANGED <<temps, stuck, mission>> ELSE Failed(mission)

\* readCapped: the first OutputCap units, and whether there were more.
Captured(c) == [ok |-> TRUE, out |-> IF c.printed < OutputCap THEN c.printed ELSE OutputCap,
                truncated |-> c.printed > OutputCap]

\* runOutput: the exit status first, then a read error, then the output.
RunOutput ==
    /\ step = "output" /\ child.state = "ended"
    /\ \/ Failed(mission)
       \/ child.exit = 0 /\ Return(Captured(child)) /\ UNCHANGED mission

\* The executor takes the result; the next stage starts with nothing of this one.
Collect ==
    /\ step = "returned" /\ step' = "idle"
    /\ call' = NoCall /\ temps' = {} /\ stuck' = {} /\ mission' = "none"
    /\ child' = NoChild /\ result' = NoResult

StageNext ==
    \/ ClaudeEnv \/ BuildMCPConfig \/ WriteContract \/ CreateMission \/ BuildSystemPrompt
    \/ Spawn \/ ChildPrints \/ ChildEnds \/ WorkerEnds \/ CloseMission
    \/ ResolveBinary \/ StartBinary \/ RunOutput \/ Collect

-----------------------------------------------------------------------------
\* A stage that returned left no running child behind and no temporary file
\* but one that could not be removed, and its answer is true: success only
\* for a child that exited cleanly with everything the stage was given
\* present, output complete unless flagged, and a mission open only after a
\* failure or a failed close.
StageAnswerTrue ==
    step = "returned" =>
        /\ temps \subseteq stuck /\ child.state # "running"
        /\ result.ok =>
             /\ child.exit = 0 /\ child.said = "fine" /\ call.env \subseteq EnvVars
             /\ result.truncated <=> result.out < child.printed
             /\ call.runner = "claude" => mission # "none" /\ result.out > 0
        /\ call.runner = "cli" => mission = "none"
=============================================================================
