----------------------------- MODULE EnableRepo -----------------------------
(***************************************************************************)
(* Enabling and disabling beadle in a repository (internal/enable,         *)
(* internal/permissions, internal/claudemd), from the command line and the *)
(* MCP tool, while other punt tools edit the same CLAUDE.md and            *)
(* settings.json.  Every write may fail and every process may die between  *)
(* two writes.  Lock A is beadle's own per-repository lock, lock B guards  *)
(* CLAUDE.md and lock C settings.json, both for every tool.                *)
(*                                                                         *)
(* Locking and reading are one step: nothing between them is visible to    *)
(* anybody else.                                                           *)
(***************************************************************************)
EXTENDS ClaudeMd

CONSTANTS
    Procs,      \* beadle processes
    Tool,       \* another tool that follows the same standard
    Rules,      \* the allow rules of beadle
    Foreign,    \* allow rules of others
    HostFiles,  \* initial CLAUDE.md: [file, link, prose], or absent
    MaxCalls, MaxFaults, MaxEdits   \* bounds: calls, crashes and write errors, edits by hand

NoOne == "no one"
ImportLine == "import"

Imports == {ImportLine, "other"}

\* The user's lines: all but the imports at top level, which are the tools'.
Prose(lines) == Without(lines, {i \in scanTopLevel(lines) : lines[i] \in Imports})

ASSUME EnableAssumption ==
    /\ Tool \notin Procs /\ NoOne \notin Procs \cup {Tool} /\ Rules \cap Foreign = {}
    /\ \A h \in HostFiles :
         /\ h.file \in [lines : Seq(STRING), ended : BOOLEAN]
         /\ h.prose = Prose(h.file.lines)

All == Procs \cup {Tool}
Absent == File(<<>>, TRUE)
Unread == [allow |-> {}, record |-> {}]
NoCall == [grants |-> {}, marker |-> FALSE]

VARIABLES
    host, there, link,          \* CLAUDE.md: content, existence, is it a symlink
    guide, marker,              \* .punt-labs/beadle/CLAUDE.md and enabled
    settings, allow,            \* settings.json: "absent", "good" or "bad"; its rules
    record, recordBad,          \* .beadle-granted.json: rules; unreadable
    lockA, lockB, lockC,
    op, at, phase, out,         \* each process: operation, stage, step, outcome
    view, seen, added,          \* what it read under B and C; what it granted
    calls, faults, edits,
    prose,                      \* ghosts: the lines of CLAUDE.md that are the user's;
    grants, theirs, toolIn,     \*   rules beadle wrote; rules others rely on; the other
    before                      \*   tool's line is in; state at the call

files == <<host, there, link, guide, marker, settings, allow, record, recordBad>>
locks == <<lockA, lockB, lockC>>
local == <<op, at, phase, out, view, seen, added, before>>
ghosts == <<prose, grants, theirs, toolIn>>
bounds == <<calls, faults, edits>>
vars == <<files, locks, local, ghosts, bounds>>

Line(p) == IF p = Tool THEN "other" ELSE ImportLine

\* Mutant: the import goes before the marker.
PruneFirst == <<"revoke", "prune", "clear">>

enableLocked  == <<"preflight", "guide", "register", "grant", "marker">>
disableLocked == <<"revoke", "clear", "prune">>

Stages == [enable |-> enableLocked, disable |-> disableLocked, purge |-> disableLocked,
           register |-> <<"register">>, unregister |-> <<"prune">>]

\* Mutant: the record follows the settings.
GrantSettingsFirst == <<"settings", "record">>

\* The order of the two writes of a grant and of a removal.
GrantWrites == <<"record", "settings">>
RemoveWrites == <<"settings", "record">>

At(p, stage, ph) ==
    op[p] # "idle" /\ out[p] = "run" /\ Stages[op[p]][at[p]] = stage /\ phase[p] = ph

Init ==
    /\ \E h \in HostFiles :
         /\ host = h.file /\ link = h.link /\ prose = h.prose
         /\ there = (h.file # Absent \/ h.link)
    /\ guide = "absent" /\ marker = FALSE
    /\ settings \in {"absent", "good"}
    /\ allow \in IF settings = "absent" THEN {{}} ELSE SUBSET Rules
    /\ record = {} /\ recordBad = FALSE
    /\ lockA = NoOne /\ lockB = NoOne /\ lockC = NoOne
    /\ op = [p \in All |-> "idle"] /\ out = [p \in All |-> "run"]
    /\ at = [p \in All |-> 1] /\ phase = [p \in All |-> 0]
    /\ view = [p \in All |-> Absent] /\ seen = [p \in All |-> Unread]
    /\ added = [p \in All |-> {}] /\ before = [p \in All |-> NoCall]
    /\ calls = 0 /\ faults = 0 /\ edits = 0
    /\ grants = {} /\ theirs = allow /\ toolIn = FALSE

-----------------------------------------------------------------------------
\* The end of a stage: the next one, or the operation has succeeded.
Advance(p) ==
    /\ phase' = [phase EXCEPT ![p] = 0]
    /\ IF at[p] < Len(Stages[op[p]])
         THEN at' = [at EXCEPT ![p] = @ + 1] /\ UNCHANGED out
         ELSE out' = [out EXCEPT ![p] = "ok"] /\ UNCHANGED at

\* An error return; every lock but A is released on the way out.
Abort(p, how) ==
    /\ out' = [out EXCEPT ![p] = how]
    /\ lockB' = (IF lockB = p THEN NoOne ELSE lockB)
    /\ lockC' = (IF lockC = p THEN NoOne ELSE lockC)
    /\ UNCHANGED <<at, phase>>

\* A write error, within the bound.
Fault == faults < MaxFaults /\ faults' = faults + 1

Goto(p, ph) == phase' = [phase EXCEPT ![p] = ph] /\ UNCHANGED <<at, out>>

StepOnly == UNCHANGED <<op, before, lockA, calls, edits, prose>>

\* The locals of a call end with it.
Forget(p) ==
    /\ op' = [op EXCEPT ![p] = "idle"] /\ out' = [out EXCEPT ![p] = "run"]
    /\ at' = [at EXCEPT ![p] = 1] /\ phase' = [phase EXCEPT ![p] = 0]
    /\ view' = [view EXCEPT ![p] = Absent] /\ seen' = [seen EXCEPT ![p] = Unread]
    /\ added' = [added EXCEPT ![p] = {}] /\ before' = [before EXCEPT ![p] = NoCall]

\* A call: beadle's own hold lock A from here to the return.
Begin(p) ==
    /\ op[p] = "idle" /\ calls < MaxCalls
    /\ IF p = Tool THEN UNCHANGED lockA ELSE lockA = NoOne /\ lockA' = p
    /\ \E o \in IF p = Tool THEN {"register", "unregister"} ELSE {"enable", "disable", "purge"} :
         op' = [op EXCEPT ![p] = o]
    /\ before' = [before EXCEPT ![p] = [grants |-> grants, marker |-> marker]]
    /\ calls' = calls + 1
    /\ UNCHANGED <<files, lockB, lockC, at, phase, out, view, seen, added, ghosts, faults, edits>>

Return(p) ==
    /\ out[p] # "run" /\ Forget(p)
    /\ lockA' = IF lockA = p THEN NoOne ELSE lockA
    /\ UNCHANGED <<files, lockB, lockC, ghosts, bounds>>

\* Preflight: what Grant would refuse, without the lock and without a write.
Refused == settings = "bad" \/ recordBad

Preflight(p) ==
    /\ At(p, "preflight", 0)
    /\ IF settings # "absent" /\ Refused THEN Abort(p, "error")
       ELSE Advance(p) /\ UNCHANGED <<lockB, lockC>>
    /\ StepOnly /\ UNCHANGED <<files, view, seen, added, faults, grants, theirs, toolIn>>

\* MkdirAll and WriteFile of the guide: a plain write may be torn.
WriteGuide(p) ==
    /\ At(p, "guide", 0)
    /\ \/ /\ guide' = "whole" /\ Advance(p) /\ UNCHANGED <<lockB, lockC, faults>>
       \/ /\ Fault /\ guide' \in {guide, "torn"} /\ Abort(p, "error")
    /\ StepOnly
    /\ UNCHANGED <<host, there, link, marker, settings, allow, record, recordBad,
                   view, seen, added, grants, theirs, toolIn>>

-----------------------------------------------------------------------------
\* Mutant: lock B is not taken.
ReadHostUnlocked(p) ==
    /\ At(p, "register", 0) \/ At(p, "prune", 0)
    /\ view' = [view EXCEPT ![p] = host] /\ Goto(p, 1)
    /\ StepOnly
    /\ UNCHANGED <<files, lockB, lockC, seen, added, faults, grants, theirs, toolIn>>

\* withLock and read: the file as every tool sees it under lock B.
ReadHost(p) ==
    /\ At(p, "register", 0) \/ At(p, "prune", 0)
    /\ lockB = NoOne /\ lockB' = p
    /\ view' = [view EXCEPT ![p] = host] /\ Goto(p, 1)
    /\ StepOnly
    /\ UNCHANGED <<files, lockC, seen, added, faults, grants, theirs, toolIn>>

HostOnly == UNCHANGED <<link, guide, marker, settings, allow, record, recordBad,
                        lockC, view, seen, added, grants, theirs>>

\* Register: append unless there already, then replace the file.
Register(p) ==
    /\ At(p, "register", 1)
    /\ \/ /\ IF present(view[p].lines, Line(p)) THEN UNCHANGED <<host, there>>
             ELSE host' = appended(view[p], Line(p)) /\ there' = TRUE
          /\ lockB' = NoOne /\ Advance(p) /\ UNCHANGED faults
          /\ toolIn' = (toolIn \/ p = Tool)
       \/ /\ ~present(view[p].lines, Line(p)) /\ Fault /\ Abort(p, "error")
          /\ UNCHANGED <<host, there, toolIn, lockC>>
    /\ StepOnly /\ HostOnly

\* prune: nothing to drop, or replace the file; an emptied one is kept under
\* the lock for the next step.
Prune(p) ==
    LET kept == remove(view[p], Line(p))
    IN  /\ At(p, "prune", 1)
        /\ \/ /\ kept = view[p] /\ UNCHANGED host /\ lockB' = NoOne
              /\ Advance(p) /\ UNCHANGED <<faults, toolIn>>
           \/ /\ kept # view[p] /\ host' = kept
              /\ IF kept.lines = <<>> /\ ~link
                   THEN Goto(p, 2) /\ UNCHANGED lockB
                   ELSE Advance(p) /\ lockB' = NoOne
              /\ UNCHANGED faults /\ toolIn' = (toolIn /\ p # Tool)
           \/ /\ kept # view[p] /\ Fault /\ Abort(p, "error")
              /\ UNCHANGED <<host, toolIn, lockC>>
        /\ StepOnly /\ HostOnly /\ UNCHANGED there

\* The emptied file goes while the lock is still held.
DiscardEmpty(p) ==
    /\ At(p, "prune", 2)
    /\ \/ host' = Absent /\ there' = FALSE /\ lockB' = NoOne /\ Advance(p) /\ UNCHANGED faults
       \/ Fault /\ Abort(p, "error") /\ UNCHANGED <<host, there, lockC>>
    /\ StepOnly /\ HostOnly /\ UNCHANGED toolIn

-----------------------------------------------------------------------------
\* withLock of the settings and the reads of transact.
ReadSettings(p, ph) ==
    /\ lockC = NoOne
    /\ IF Refused THEN Abort(p, IF ph = 0 THEN "error" ELSE "both") /\ UNCHANGED seen
       ELSE /\ lockC' = p /\ Goto(p, ph + 1) /\ UNCHANGED lockB
            /\ seen' = [seen EXCEPT ![p] = [allow |-> allow, record |-> record]]
    /\ StepOnly
    /\ UNCHANGED <<files, view, added, faults, grants, theirs, toolIn>>

GrantReads(p) == At(p, "grant", 0) /\ ReadSettings(p, 0)

Changed(p) == Rules \ seen[p].allow

PermsOnly == UNCHANGED <<host, there, link, guide, recordBad, view, seen, theirs, toolIn>>

\* One write of a grant.  When the settings cannot be written the record is
\* put back, which may fail as well.
Grant(p) ==
    \E ph \in 1..2 :
      /\ At(p, "grant", ph)
      /\ \/ /\ Changed(p) = {} \/ GrantWrites[ph] = "record"
            /\ record' = IF Changed(p) = {} THEN record ELSE seen[p].record \cup Changed(p)
            /\ UNCHANGED <<settings, allow, grants, faults>>
            /\ IF Changed(p) # {} /\ ph = 1 THEN Goto(p, 2) /\ UNCHANGED <<lockB, lockC>>
               ELSE Advance(p) /\ lockC' = NoOne /\ UNCHANGED lockB
         \/ /\ Changed(p) # {} /\ GrantWrites[ph] = "settings"
            /\ settings' = "good" /\ allow' = seen[p].allow \cup Rules
            /\ grants' = grants \cup Changed(p)
            /\ UNCHANGED <<record, faults>>
            /\ IF ph = 1 THEN Goto(p, 2) /\ UNCHANGED <<lockB, lockC>>
               ELSE Advance(p) /\ lockC' = NoOne /\ UNCHANGED lockB
         \/ /\ Changed(p) # {} /\ Fault /\ Abort(p, "error")
            /\ record' \in IF GrantWrites[ph] = "settings" THEN {record, seen[p].record} ELSE {record}
            /\ UNCHANGED <<settings, allow, grants>>
      /\ added' = [added EXCEPT ![p] = Changed(p)]
      /\ StepOnly /\ PermsOnly /\ UNCHANGED marker

\* Revoke: nothing to do without a settings file.
RevokeReads(p) ==
    /\ At(p, "revoke", 0)
    /\ \/ settings # "absent" /\ ReadSettings(p, 0)
       \/ /\ settings = "absent" /\ Advance(p) /\ StepOnly
          /\ UNCHANGED <<files, lockB, lockC, view, seen, added, faults, grants, theirs, toolIn>>

\* One write of a removal: of what is recorded, or of what this run added.
\* A file that would not change is not written, so its write cannot fail.
Withdraw(p, ph, rules, last, how) ==
    LET file == RemoveWrites[ph]
        writes == IF file = "settings" THEN seen[p].allow \cap rules # {}
                  ELSE seen[p].record \cap rules # {}
    IN  /\ \/ /\ allow' = IF file = "settings" /\ writes THEN seen[p].allow \ rules ELSE allow
              /\ grants' = IF file = "settings" /\ writes THEN grants \ rules ELSE grants
              /\ record' = IF file = "record" /\ writes THEN seen[p].record \ rules ELSE record
              /\ UNCHANGED <<faults, lockB>>
              /\ IF ph = 1 THEN phase' = [phase EXCEPT ![p] = @ + 1] /\ UNCHANGED <<at, out, lockC>>
                 ELSE last /\ lockC' = NoOne
           \/ /\ writes /\ Fault /\ Abort(p, how) /\ UNCHANGED <<allow, record, grants>>
        /\ StepOnly /\ PermsOnly /\ UNCHANGED <<settings, marker, added>>

Revoke(p) ==
    \E ph \in 1..2 :
      At(p, "revoke", ph) /\ Withdraw(p, ph, seen[p].record \cap Rules, Advance(p), "error")

\* The enabled marker, the last write; when it fails, be the file there or
\* not, the grants of this run are withdrawn.
Marker(p) ==
    /\ At(p, "marker", 0)
    /\ \/ marker' = TRUE /\ Advance(p) /\ UNCHANGED <<faults, lockB, lockC>>
       \/ /\ Fault /\ marker' \in {marker, TRUE}
          /\ IF added[p] = {} \/ settings = "absent" THEN Abort(p, "error")
             ELSE Goto(p, 1) /\ UNCHANGED <<lockB, lockC>>
    /\ StepOnly /\ PermsOnly /\ UNCHANGED <<settings, allow, record, added, grants>>

RollbackReads(p) == At(p, "marker", 1) /\ ReadSettings(p, 1)

\* Mutant: the rollback withdraws all that is recorded.
RollbackAll(p) ==
    \E ph \in 1..2 :
      At(p, "marker", ph + 1)
        /\ Withdraw(p, ph, seen[p].record, UNCHANGED <<at, phase>> /\ out' = [out EXCEPT ![p] = "error"],
                  "both")

Rollback(p) ==
    \E ph \in 1..2 :
      At(p, "marker", ph + 1)
        /\ Withdraw(p, ph, added[p], UNCHANGED <<at, phase>> /\ out' = [out EXCEPT ![p] = "error"],
                  "both")

\* Remove of the marker, or RemoveAll of the directory, which may stop midway.
Clear(p) ==
    /\ At(p, "clear", 0)
    /\ \/ /\ marker' = FALSE /\ guide' = IF op[p] = "purge" THEN "absent" ELSE guide
          /\ Advance(p) /\ UNCHANGED <<faults, lockB, lockC>>
       \/ /\ Fault /\ Abort(p, "error")
          /\ IF op[p] = "purge" THEN marker' \in {marker, FALSE} /\ guide' \in {guide, "absent"}
             ELSE UNCHANGED <<marker, guide>>
    /\ StepOnly
    /\ UNCHANGED <<host, there, link, settings, allow, record, recordBad,
                   view, seen, added, grants, theirs, toolIn>>

-----------------------------------------------------------------------------
\* The process dies: the kernel drops its locks, the files stay as they are.
Crash(p) ==
    /\ op[p] # "idle" /\ Fault /\ Forget(p)
    /\ lockA' = (IF lockA = p THEN NoOne ELSE lockA)
    /\ lockB' = (IF lockB = p THEN NoOne ELSE lockB)
    /\ lockC' = (IF lockC = p THEN NoOne ELSE lockC)
    /\ UNCHANGED <<files, ghosts, calls, edits>>

\* Another tool allows rules under lock C, its own or one of beadle's.  One
\* the record already lists counts as beadle's from then on.
ToolAllows ==
    /\ lockC = NoOne /\ edits < MaxEdits /\ settings # "bad"
    /\ \E r \in (Rules \cup Foreign) \ allow :
         /\ allow' = allow \cup {r}
         /\ theirs' = IF r \in record THEN theirs ELSE theirs \cup {r}
    /\ settings' = "good" /\ edits' = edits + 1
    /\ UNCHANGED <<host, there, link, guide, marker, record, recordBad, locks, local,
                   prose, grants, toolIn, calls, faults>>

\* Between two calls the owner deletes a rule or the settings, or breaks a file.
OwnerEdits ==
    /\ lockA = NoOne /\ edits < MaxEdits /\ edits' = edits + 1
    /\ \/ settings # "absent" /\ settings' = "absent" /\ allow' = {}
          /\ grants' = {} /\ theirs' = {} /\ UNCHANGED recordBad
       \/ \E r \in allow : allow' = allow \ {r} /\ grants' = grants \ {r} /\ theirs' = theirs \ {r}
          /\ UNCHANGED <<settings, recordBad>>
       \/ settings' = "bad" /\ settings = "good" /\ UNCHANGED <<allow, grants, theirs, recordBad>>
       \/ recordBad' = TRUE /\ ~recordBad /\ UNCHANGED <<settings, allow, grants, theirs>>
    /\ UNCHANGED <<host, there, link, guide, marker, record, locks, local,
                   prose, toolIn, calls, faults>>

Quiescent == (\A p \in All : op[p] = "idle") /\ UNCHANGED vars

Step(p) ==
    \/ Begin(p) \/ Return(p) \/ Preflight(p) \/ WriteGuide(p)
    \/ ReadHost(p) \/ Register(p) \/ Prune(p) \/ DiscardEmpty(p)
    \/ GrantReads(p) \/ Grant(p) \/ RevokeReads(p) \/ Revoke(p)
    \/ Marker(p) \/ RollbackReads(p) \/ Rollback(p) \/ Clear(p) \/ Crash(p)

Next == (\E p \in All : Step(p)) \/ ToolAllows \/ OwnerEdits \/ Quiescent

Spec == Init /\ [][Next]_vars

-----------------------------------------------------------------------------
\* A repository that looks enabled imports the guide: the marker is never
\* there without a top-level import, whoever dies, fails or interleaves, in
\* enable and in disable (Enable, Disable and the two nested locks).
MarkerMeansImport == marker => present(host.lines, ImportLine)

\* Every rule beadle wrote into settings.json is in its record, at every
\* instant and so after every crash: disable can always find it (transact).
GrantsRecorded == grants \subseteq record

\* What beadle does not own survives every interleaving, failure and crash:
\* the rules others allowed, the other tool's import, and every line of the
\* user's, none changed and in their order, what a code block quotes included;
\* whatever else is in the file is an import of a tool (plan, remove, appended,
\* PruneAndDiscardEmpty).
ForeignSurvives ==
    /\ theirs \subseteq allow
    /\ toolIn => "other" \in Range(host.lines)
    /\ \E ours \in SUBSET {i \in DOMAIN host.lines : host.lines[i] \in Imports} :
         Without(host.lines, ours) = prose

\* What a call reports is what it left.  Success is whole; a failed enable
\* leaves the grants as it found them unless it reports that the rollback
\* failed too; a failed disable never leaves a repository that looks
\* disabled while rules of beadle remain.
OutcomeHonest ==
    \A p \in Procs :
      /\ op[p] = "enable" /\ out[p] = "ok" =>
           marker /\ guide = "whole" /\ present(host.lines, ImportLine) /\ Rules \subseteq allow
      /\ op[p] = "enable" /\ out[p] = "error" => grants = before[p].grants
      /\ op[p] \in {"disable", "purge"} /\ out[p] = "ok" =>
           ~marker /\ grants = {} /\ ~present(host.lines, ImportLine)
      /\ op[p] \in {"disable", "purge"} /\ out[p] = "error" =>
           marker \/ grants = {} \/ ~before[p].marker
=============================================================================
