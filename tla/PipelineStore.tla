--------------------------- MODULE PipelineStore ---------------------------
(***************************************************************************)
(* The pipeline directory (internal/daemon/persist.go): Save's temp file   *)
(* and rename, the startup sweep, and the prune goroutine that runs beside *)
(* the workers without a lock.  Executor.tla treats Save as one step; here *)
(* it is the file operations it consists of, any of which may fail or be   *)
(* cut short by a crash.  Time is what the code can tell of it: whether a  *)
(* record is past its retention and whether a temp file is past            *)
(* tmpFileMaxAge.                                                          *)
(***************************************************************************)
EXTENDS Naturals

CONSTANTS
  Ids,          \* pipelines, each with its own file names
  SlowSave,     \* may a Save be suspended for longer than tmpFileMaxAge?
  MaxCrashes    \* bound on the crashes of one behaviour

ASSUME StoreAssumption == SlowSave \in BOOLEAN /\ MaxCrashes \in Nat

VARIABLES
  up,        \* the daemon: "down", "sweep", "up"
  crashes,   \* how often it has crashed
  stale,     \* what LoadRunning returned, still to be relabelled
  worker,    \* worker[i]: "new", "live", "ending" (its last save), "gone"
  save,      \* save[i]: the Save call in progress for i, if any
  tmp,       \* tmp[i]: .tmp-<i>.json: its content and whether it is old
  final,     \* final[i]: the status in <i>.json
  aged,      \* aged[i]: i's CreatedAt is before the retention cutoff
  prune      \* the prune goroutine

vars == <<up, crashes, stale, worker, save, tmp, final, aged, prune>>

NoFile == [body |-> "none", old |-> FALSE]
File(b) == [body |-> b, old |-> FALSE]

\* A Save in progress: its next file operation and the status it stores.
NoSave == [at |-> "none", status |-> "none"]

\* Directory entries as ReadDir lists them.
Entries == {"rec", "tmp"} \X Ids
Exists(e) == IF e[1] = "rec" THEN final[e[2]] # "none" ELSE tmp[e[2]] # NoFile
OverAge(e) == IF e[1] = "rec" THEN aged[e[2]] ELSE tmp[e[2]].old

\* "off": no goroutine; "idle": between ticks; "pass": walking todo, of which
\* due was over age when the pass read the clock; "remove": about to unlink
\* the entry in victim.
PruneOff == [at |-> "off", todo |-> {}, due |-> {}, victim |-> {}]

-----------------------------------------------------------------------------
(* Save, for a worker or for the sweep *)

\* MkdirAll and MarshalIndent came first; WriteFile opens the temp file,
\* truncating an older one.
OpenTmp(i) ==
  /\ save[i].at = "open"
  /\ tmp' = [tmp EXCEPT ![i] = File("torn")]
  /\ save' = [save EXCEPT ![i].at = "write"]
  /\ UNCHANGED <<up, crashes, stale, worker, final, aged, prune>>

\* WriteFile puts the bytes in.  If the file was unlinked meanwhile they go
\* to a file without a name.
WriteTmp(i) ==
  /\ save[i].at = "write"
  /\ tmp' = IF tmp[i] = NoFile THEN tmp
            ELSE [tmp EXCEPT ![i] = File(save[i].status)]
  /\ save' = [save EXCEPT ![i].at = "rename"]
  /\ UNCHANGED <<up, crashes, stale, worker, final, aged, prune>>

\* Rename puts the temp file in place of the record.
Rename(i) ==
  /\ save[i].at = "rename"
  /\ tmp[i] # NoFile
  /\ final' = [final EXCEPT ![i] = tmp[i].body]
  /\ tmp' = [tmp EXCEPT ![i] = NoFile]
  /\ save' = [save EXCEPT ![i] = NoSave]
  /\ UNCHANGED <<up, crashes, stale, worker, aged, prune>>

\* A save that goes on after a failed write.
WriteFailsIgnored(i) ==
  /\ save[i].at \in {"open", "write"}
  /\ save' = [save EXCEPT ![i].at = "rename"]
  /\ UNCHANGED <<up, crashes, stale, worker, tmp, final, aged, prune>>

\* MkdirAll, open or write failed: Save returns the error and leaves the
\* temp file as it is.
WriteFails(i) ==
  /\ save[i].at \in {"open", "write"}
  /\ save' = [save EXCEPT ![i] = NoSave]
  /\ UNCHANGED <<up, crashes, stale, worker, tmp, final, aged, prune>>

\* Rename failed, perhaps because the temp file is gone: remove it, give up.
RenameFails(i) ==
  /\ save[i].at = "rename"
  /\ tmp' = [tmp EXCEPT ![i] = NoFile]
  /\ save' = [save EXCEPT ![i] = NoSave]
  /\ UNCHANGED <<up, crashes, stale, worker, final, aged, prune>>

SaveStep(i) ==
  OpenTmp(i) \/ WriteTmp(i) \/ Rename(i) \/ WriteFails(i) \/ RenameFails(i)

BeginSave(i, s) ==
  /\ save[i] = NoSave
  /\ save' = [save EXCEPT ![i] = [at |-> "open", status |-> s]]

-----------------------------------------------------------------------------
(* The workers: Run saves "running" any number of times, then its end *)

StartWorker(i) ==
  /\ up = "up"
  /\ worker[i] = "new"
  /\ worker' = [worker EXCEPT ![i] = "live"]
  /\ BeginSave(i, "running")
  /\ UNCHANGED <<up, crashes, stale, tmp, final, aged, prune>>

SaveProgress(i) ==
  /\ worker[i] = "live"
  /\ BeginSave(i, "running")
  /\ UNCHANGED <<up, crashes, stale, worker, tmp, final, aged, prune>>

SaveEnd(i) ==
  /\ worker[i] = "live"
  /\ worker' = [worker EXCEPT ![i] = "ending"]
  /\ BeginSave(i, "ended")
  /\ UNCHANGED <<up, crashes, stale, tmp, final, aged, prune>>

EndWorker(i) ==
  /\ worker[i] = "ending"
  /\ save[i] = NoSave
  /\ worker' = [worker EXCEPT ![i] = "gone"]
  /\ UNCHANGED <<up, crashes, stale, save, tmp, final, aged, prune>>

-----------------------------------------------------------------------------
(* The prune goroutine *)

\* Without the check for "running".
KeepIgnoringStatus(e) ==
  ~Exists(e) \/ e \notin prune.due \/ (e[1] = "tmp" /\ ~tmp[e[2]].old)

\* With the retention test the wrong way round.
KeepAged(e) ==
  IF e[1] = "rec"
  THEN ~Exists(e) \/ final[e[2]] = "running" \/ e \in prune.due
  ELSE ~Exists(e) \/ ~tmp[e[2]].old \/ e \notin prune.due

\* Prune skips this record: it is gone, still running, not past the cutoff,
\* or cannot be read.
Keep(e) ==
  IF e[1] = "rec"
  THEN ~Exists(e) \/ final[e[2]] = "running" \/ e \notin prune.due
  ELSE ~Exists(e) \/ ~tmp[e[2]].old \/ e \notin prune.due

\* A tick (the first comes at once): ReadDir, then the clock is read.
BeginPass ==
  /\ prune.at = "idle"
  /\ LET seen == {e \in Entries : Exists(e)}
     IN  prune' = [at |-> "pass", todo |-> seen, victim |-> {},
                   due |-> {e \in seen : OverAge(e)}]
  /\ UNCHANGED <<up, crashes, stale, worker, save, tmp, final, aged>>

\* One entry is read (a temp file is stat'ed) and left alone.
SkipEntry(e) ==
  /\ prune.at = "pass"
  /\ e \in prune.todo
  /\ Keep(e)
  /\ prune' = [prune EXCEPT !.todo = @ \ {e}]
  /\ UNCHANGED <<up, crashes, stale, worker, save, tmp, final, aged>>

\* One entry cannot be read: logged and skipped.
ReadFails(e) ==
  /\ prune.at = "pass"
  /\ e \in prune.todo
  /\ Exists(e)
  /\ prune' = [prune EXCEPT !.todo = @ \ {e}]
  /\ UNCHANGED <<up, crashes, stale, worker, save, tmp, final, aged>>

\* One entry is found to be removable; the removal is a later step.
ChooseEntry(e) ==
  /\ prune.at = "pass"
  /\ e \in prune.todo
  /\ ~Keep(e)
  /\ prune' = [prune EXCEPT !.at = "remove", !.todo = @ \ {e}, !.victim = {e}]
  /\ UNCHANGED <<up, crashes, stale, worker, save, tmp, final, aged>>

\* os.Remove of the chosen entry; a file already gone is not an error.
RemoveEntry(e) ==
  /\ prune.at = "remove"
  /\ e \in prune.victim
  /\ final' = IF e[1] = "rec" THEN [final EXCEPT ![e[2]] = "none"] ELSE final
  /\ tmp' = IF e[1] = "tmp" THEN [tmp EXCEPT ![e[2]] = NoFile] ELSE tmp
  /\ prune' = [prune EXCEPT !.at = "pass", !.victim = {}]
  /\ UNCHANGED <<up, crashes, stale, worker, save, aged>>

\* os.Remove failed: logged, the pass goes on.
RemoveFails ==
  /\ prune.at = "remove"
  /\ prune' = [prune EXCEPT !.at = "pass", !.victim = {}]
  /\ UNCHANGED <<up, crashes, stale, worker, save, tmp, final, aged>>

EndPass ==
  /\ prune.at = "pass"
  /\ prune.todo = {}
  /\ prune' = [PruneOff EXCEPT !.at = "idle"]
  /\ UNCHANGED <<up, crashes, stale, worker, save, tmp, final, aged>>

-----------------------------------------------------------------------------
(* The daemon *)

\* LoadRunning, which skips temp files and what it cannot read.
Boot ==
  /\ up = "down"
  /\ up' = "sweep"
  /\ stale' \in SUBSET {i \in Ids : final[i] = "running"}
  /\ UNCHANGED <<crashes, worker, save, tmp, final, aged, prune>>

\* sweepStalePipelines saves the loaded records as failed, one after another.
SweepOne(i) ==
  /\ up = "sweep"
  /\ i \in stale
  /\ \A j \in Ids : save[j] = NoSave
  /\ stale' = stale \ {i}
  /\ BeginSave(i, "ended")
  /\ UNCHANGED <<up, crashes, worker, tmp, final, aged, prune>>

\* The sweep is done: StartPruning, then the poller and the workers.
Ready ==
  /\ up = "sweep"
  /\ stale = {}
  /\ \A i \in Ids : save[i] = NoSave
  /\ up' = "up"
  /\ prune' = [PruneOff EXCEPT !.at = "idle"]
  /\ UNCHANGED <<crashes, stale, worker, save, tmp, final, aged>>

\* An orderly stop: the workers have ended and StopPruning has waited for the
\* goroutine, which looks at its stop channel between two passes.
Exit ==
  /\ up = "up"
  /\ \A i \in Ids : worker[i] \in {"new", "gone"}
  /\ prune.at = "idle"
  /\ up' = "down"
  /\ prune' = PruneOff
  /\ UNCHANGED <<crashes, stale, worker, save, tmp, final, aged>>

\* The process dies; what is on disk stays as it is.
Crash ==
  /\ up # "down"
  /\ crashes < MaxCrashes
  /\ crashes' = crashes + 1
  /\ up' = "down"
  /\ stale' = {}
  /\ save' = [i \in Ids |-> NoSave]
  /\ worker' = [i \in Ids |-> IF worker[i] = "new" THEN "new" ELSE "gone"]
  /\ prune' = PruneOff
  /\ UNCHANGED <<tmp, final, aged>>

-----------------------------------------------------------------------------
(* Time *)

\* tmpFileMaxAge has passed since the temp file was last written.  A Save
\* goes from its write to its rename in far less, unless SlowSave.
TmpAges(i) ==
  /\ tmp[i] # NoFile
  /\ ~tmp[i].old
  /\ SlowSave \/ save[i].at \in {"none", "open"}
  /\ tmp' = [tmp EXCEPT ![i].old = TRUE]
  /\ UNCHANGED <<up, crashes, stale, worker, save, final, aged, prune>>

\* The retention period has passed since i's CreatedAt.
RecordAges(i) ==
  /\ worker[i] # "new"
  /\ ~aged[i]
  /\ aged' = [aged EXCEPT ![i] = TRUE]
  /\ UNCHANGED <<up, crashes, stale, worker, save, tmp, final, prune>>

Init ==
  /\ up = "down"
  /\ crashes = 0
  /\ stale = {}
  /\ worker = [i \in Ids |-> "new"]
  /\ save = [i \in Ids |-> NoSave]
  /\ tmp = [i \in Ids |-> NoFile]
  /\ final = [i \in Ids |-> "none"]
  /\ aged = [i \in Ids |-> FALSE]
  /\ prune = PruneOff

Next ==
  \/ Boot \/ Ready \/ Exit \/ Crash
  \/ BeginPass \/ RemoveFails \/ EndPass
  \/ \E i \in Ids :
       \/ SaveStep(i)
       \/ StartWorker(i) \/ SaveProgress(i) \/ SaveEnd(i) \/ EndWorker(i)
       \/ SweepOne(i)
       \/ TmpAges(i) \/ RecordAges(i)
  \/ \E e \in Entries :
       SkipEntry(e) \/ ReadFails(e) \/ ChooseEntry(e) \/ RemoveEntry(e)

Spec == Init /\ [][Next]_vars

(***************************************************************************)
(* Fairness: the prune goroutine keeps ticking and walking, Save calls     *)
(* come to an end, and a read or a removal that is tried again and again   *)
(* does not fail for ever.                                                 *)
(***************************************************************************)
FairSpec ==
  /\ Spec
  /\ WF_vars(BeginPass) /\ WF_vars(EndPass)
  /\ \A i \in Ids : WF_vars(SaveStep(i))
  /\ \A e \in Entries :
       /\ WF_vars(SkipEntry(e))
       /\ SF_vars(ChooseEntry(e)) /\ SF_vars(RemoveEntry(e))

-----------------------------------------------------------------------------
(* Properties *)

\* Save, sweep and prune keep every variable in its type.
TypeOK ==
  /\ up \in {"down", "sweep", "up"}
  /\ crashes \in 0..MaxCrashes
  /\ stale \in SUBSET Ids
  /\ worker \in [Ids -> {"new", "live", "ending", "gone"}]
  /\ save \in [Ids -> [at : {"none", "open", "write", "rename"},
                       status : {"none", "running", "ended"}]]
  /\ tmp \in [Ids -> [body : {"none", "torn", "running", "ended"},
                      old : BOOLEAN]]
  /\ final \in [Ids -> {"none", "torn", "running", "ended"}]
  /\ aged \in [Ids -> BOOLEAN]
  /\ prune \in [at : {"off", "idle", "pass", "remove"},
                todo : SUBSET Entries, due : SUBSET Entries,
                victim : SUBSET Entries]

\* A reader of the directory never finds a record torn by a failed or
\* interrupted Save: what carries the final name was written in full.
FinalNeverTorn == \A i \in Ids : final[i] # "torn"

\* Prune never destroys the record of a pipeline that might still execute,
\* although it reads and removes in two steps while workers save: the only
\* records that disappear are ended and past their retention.
OnlyAgedEndedRemoved ==
  [][\A i \in Ids : final[i] # "none" /\ final'[i] = "none" =>
       final[i] = "ended" /\ aged[i]]_vars

\* In a daemon that stays up, an ended record past its retention is removed in
\* the end.
RecordsExpire ==
  \A i \in Ids : <>[](up = "up") =>
    (final[i] = "ended" /\ aged[i] ~> final[i] = "none")

\* In a daemon that stays up, a temp file whose Save is over and that has
\* grown old is removed, or taken over by the next Save of that pipeline.
OrphansReaped ==
  \A i \in Ids : <>[](up = "up") =>
    (tmp[i].old /\ save[i] = NoSave ~> ~tmp[i].old \/ save[i] # NoSave)

\* Retention: neither kind of file Prune is there for accumulates.
RetentionEnforced == RecordsExpire /\ OrphansReaped
=============================================================================
