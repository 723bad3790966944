------------------------ MODULE PipelineStoreProofs ------------------------
(***************************************************************************)
(* Proofs about PipelineStore for any number of pipelines, crashes and     *)
(* failing file operations, and for saves of any duration: no record is    *)
(* ever torn, and the unlocked prune goroutine removes nothing but ended   *)
(* records past their retention.  And about PruneLoop: for any number of   *)
(* callers, overlapping starts and stops never make two prune goroutines,  *)
(* lose one, or misuse the WaitGroup.                                      *)
(***************************************************************************)
EXTENDS PipelineStore, PruneLoop, TLAPS

\* A Save in progress knows what it stores, a named temp file has a content,
\* and what is about to be renamed is what the Save wrote, unless it is gone.
FilesInv(i) ==
  /\ save[i] = NoSave \/ (save[i].at # "none" /\ save[i].status # "none")
  /\ tmp[i] = NoFile \/ tmp[i].body # "none"
  /\ save[i].at = "rename" => tmp[i] = NoFile \/ tmp[i].body = save[i].status
  /\ final[i] # "torn"

\* A record turns "ended" only when its worker has no further progress to
\* save: from then on every Save in progress stores "ended".
WorkerInv(i) ==
  /\ worker[i] = "new" => final[i] = "none" /\ save[i] = NoSave
  /\ worker[i] = "live" => final[i] # "ended" /\ save[i].status # "ended"
  /\ worker[i] \in {"ending", "gone"} => save[i].status # "running"
  /\ up # "up" => worker[i] \in {"new", "gone"}
  /\ up = "down" \/ (up = "up" /\ worker[i] = "gone") => save[i] = NoSave
  /\ i \in stale => worker[i] = "gone"

\* What the prune goroutine has decided on stays true until it acts.
PruneInv ==
  /\ up # "up" => prune = PruneOff
  /\ \A e \in prune.due : e[1] = "rec" => aged[e[2]]
  /\ \A e \in prune.victim : e[1] = "rec" =>
       /\ aged[e[2]]
       /\ final[e[2]] \in {"none", "ended"}
       /\ worker[e[2]] \in {"ending", "gone"}

\* The inductive invariant.
IInv == /\ TypeOK /\ PruneInv
        /\ \A i \in Ids : FilesInv(i) /\ WorkerInv(i)

Harmless(i) ==
  final[i] # "none" /\ final'[i] = "none" => final[i] = "ended" /\ aged[i]
-----------------------------------------------------------------------------
USE DEF NoSave, NoFile, File, PruneOff

\* An empty directory and a daemon that is down satisfy the invariant.
LEMMA Initially == Init => IInv
<1> SUFFICES ASSUME Init PROVE IInv
  OBVIOUS
<1>1. TypeOK
  BY StoreAssumption DEF Init, TypeOK
<1> QED
  BY <1>1 DEF Init, IInv, PruneInv, FilesInv, WorkerInv

\* A file operation of a Save: only the rename touches a record, and it puts
\* there what the Save wrote in full.
LEMMA SaveSteps ==
  ASSUME IInv, NEW i \in Ids, SaveStep(i)
  PROVE  IInv' /\ \A j \in Ids : Harmless(j)
<1> USE DEF IInv
<1>1. CASE OpenTmp(i)
  <2>1. TypeOK'
    BY <1>1, SMTT(30) DEF OpenTmp, TypeOK
  <2>2. \A j \in Ids \ {i} : save'[j] = save[j] /\ tmp'[j] = tmp[j]
    BY <1>1 DEF OpenTmp, TypeOK
  <2>3. /\ save'[i].at = "write" /\ save'[i].status = save[i].status
        /\ tmp'[i].body = "torn" /\ save[i].at = "open"
    BY <1>1 DEF OpenTmp, TypeOK
  <2>4. \A j \in Ids : FilesInv(j)'
    BY <1>1, <2>2, <2>3 DEF OpenTmp, FilesInv
  <2>5. \A j \in Ids : WorkerInv(j)'
    BY <1>1, <2>2, <2>3 DEF OpenTmp, WorkerInv
  <2> QED
    BY <1>1, <2>1, <2>4, <2>5 DEF OpenTmp, PruneInv, Harmless
<1>2. CASE WriteTmp(i)
  <2>1. TypeOK'
    BY <1>2 DEF WriteTmp, TypeOK
  <2>2. \A j \in Ids \ {i} : save'[j] = save[j] /\ tmp'[j] = tmp[j]
    BY <1>2 DEF WriteTmp, TypeOK
  <2>3. /\ save'[i].at = "rename" /\ save'[i].status = save[i].status
        /\ tmp'[i] = NoFile \/ tmp'[i].body = save[i].status
        /\ save[i].at = "write"
    <3>1. save[i].at = "write" /\ save' = [save EXCEPT ![i].at = "rename"]
      BY <1>2 DEF WriteTmp
    <3>2. save'[i].at = "rename" /\ save'[i].status = save[i].status
      BY <3>1 DEF TypeOK
    <3>3. tmp'[i] \in {NoFile, File(save[i].status)}
      BY <1>2 DEF WriteTmp, TypeOK
    <3>4. File(save[i].status).body = save[i].status
      BY DEF File
    <3>5. tmp'[i] = NoFile \/ tmp'[i].body = save[i].status
      BY <3>3, <3>4
    <3> QED
      BY <3>1, <3>2, <3>5
  <2>4. \A j \in Ids : FilesInv(j)'
    BY <1>2, <2>2, <2>3 DEF WriteTmp, FilesInv
  <2>5. \A j \in Ids : WorkerInv(j)'
    BY <1>2, <2>2, <2>3 DEF WriteTmp, WorkerInv
  <2> QED
    BY <1>2, <2>1, <2>4, <2>5 DEF WriteTmp, PruneInv, Harmless
<1>3. CASE Rename(i)
  <2>0. tmp[i].body \in {"running", "ended"} /\ tmp[i].body = save[i].status
    BY <1>3 DEF Rename, TypeOK, FilesInv
  <2>1. TypeOK'
    BY <1>3, <2>0 DEF Rename, TypeOK
  <2>a. \A j \in Ids \ {i} : save'[j] = save[j] /\ tmp'[j] = tmp[j] /\ final'[j] = final[j]
    BY <1>3 DEF Rename, TypeOK
  <2>b. save'[i] = NoSave /\ tmp'[i] = NoFile /\ final'[i] = save[i].status
    BY <1>3, <2>0 DEF Rename, TypeOK
  <2>c. \A j \in Ids : FilesInv(j)'
    BY <2>0, <2>a, <2>b DEF FilesInv
  <2>d. save[i].at = "rename" /\ up' = up /\ worker' = worker /\ stale' = stale
    BY <1>3 DEF Rename
  <2>e. WorkerInv(i)'
    BY <2>0, <2>b, <2>d DEF WorkerInv
  <2>2. \A j \in Ids : FilesInv(j)' /\ WorkerInv(j)'
    BY <2>a, <2>c, <2>d, <2>e DEF WorkerInv
  <2>3. PruneInv'
    BY <1>3, <2>0 DEF Rename, TypeOK, PruneInv, WorkerInv
  <2>4. \A j \in Ids : Harmless(j)
    BY <1>3, <2>0 DEF Rename, TypeOK, Harmless
  <2> QED
    BY <2>1, <2>2, <2>3, <2>4
<1>4. CASE WriteFails(i)
  <2>1. TypeOK'
    BY <1>4 DEF WriteFails, TypeOK
  <2>2. \A j \in Ids : FilesInv(j)' /\ WorkerInv(j)'
    BY <1>4 DEF WriteFails, TypeOK, FilesInv, WorkerInv
  <2> QED
    BY <1>4, <2>1, <2>2 DEF WriteFails, PruneInv, Harmless
<1>5. CASE RenameFails(i)
  <2>1. TypeOK'
    BY <1>5 DEF RenameFails, TypeOK
  <2>2. \A j \in Ids : FilesInv(j)' /\ WorkerInv(j)'
    <3>1. /\ \A j \in Ids \ {i} : save'[j] = save[j] /\ tmp'[j] = tmp[j]
          /\ save'[i] = NoSave /\ tmp'[i] = NoFile /\ save[i].at = "rename"
          /\ UNCHANGED <<up, stale, worker, final>>
      BY <1>5 DEF RenameFails, TypeOK
    <3>2. NoSave.at = "none" /\ NoSave.status = "none"
      BY DEF NoSave
    <3>3. \A j \in Ids : FilesInv(j)'
      BY <3>1, <3>2 DEF FilesInv
    <3> HIDE DEF NoSave
    <3>4. \A j \in Ids : WorkerInv(j)'
      BY <3>1, <3>2 DEF WorkerInv
    <3> QED
      BY <3>3, <3>4
  <2> QED
    BY <1>5, <2>1, <2>2 DEF RenameFails, PruneInv, Harmless
<1> QED
  BY <1>1, <1>2, <1>3, <1>4, <1>5 DEF SaveStep

\* A worker's own steps: it begins to save "ended" when it has no progress
\* left to save, and never saves after that.
LEMMA WorkerSteps ==
  ASSUME IInv, NEW i \in Ids,
         StartWorker(i) \/ SaveProgress(i) \/ SaveEnd(i) \/ EndWorker(i)
  PROVE  IInv' /\ \A j \in Ids : Harmless(j)
<1> USE DEF IInv, BeginSave
<1>1. CASE StartWorker(i)
  <2>1. TypeOK'
    BY <1>1 DEF StartWorker, TypeOK
  <2>2. \A j \in Ids : FilesInv(j)' /\ WorkerInv(j)'
    BY <1>1 DEF StartWorker, TypeOK, FilesInv, WorkerInv
  <2> QED
    BY <1>1, <2>1, <2>2 DEF StartWorker, TypeOK, PruneInv, Harmless
<1>2. CASE SaveProgress(i)
  <2>1. TypeOK'
    BY <1>2 DEF SaveProgress, TypeOK
  <2>2. \A j \in Ids : FilesInv(j)' /\ WorkerInv(j)'
    BY <1>2 DEF SaveProgress, TypeOK, FilesInv, WorkerInv
  <2> QED
    BY <1>2, <2>1, <2>2 DEF SaveProgress, PruneInv, Harmless
<1>3. CASE SaveEnd(i)
  <2>1. TypeOK'
    BY <1>3 DEF SaveEnd, TypeOK
  <2>2. \A j \in Ids : FilesInv(j)' /\ WorkerInv(j)'
    BY <1>3 DEF SaveEnd, TypeOK, FilesInv, WorkerInv
  <2> QED
    BY <1>3, <2>1, <2>2 DEF SaveEnd, TypeOK, PruneInv, Harmless
<1>4. CASE EndWorker(i)
  <2>1. TypeOK'
    BY <1>4 DEF EndWorker, TypeOK
  <2>2. \A j \in Ids : FilesInv(j)' /\ WorkerInv(j)'
    BY <1>4 DEF EndWorker, TypeOK, FilesInv, WorkerInv
  <2> QED
    BY <1>4, <2>1, <2>2 DEF EndWorker, TypeOK, PruneInv, Harmless
<1> QED
  BY <1>1, <1>2, <1>3, <1>4

\* The prune goroutine's own steps.  What it chooses is ended and aged, and
\* PruneInv carries that to the removal.
LEMMA PruneSteps ==
  ASSUME IInv,
         \/ BeginPass \/ RemoveFails \/ EndPass
         \/ \E e \in Entries :
              SkipEntry(e) \/ ReadFails(e) \/ ChooseEntry(e) \/ RemoveEntry(e)
  PROVE  IInv' /\ \A j \in Ids : Harmless(j)
<1> USE DEF IInv
<1>1. CASE BeginPass
  <2>1. TypeOK'
    BY <1>1 DEF BeginPass, TypeOK
  <2>2. PruneInv'
    BY <1>1 DEF BeginPass, PruneInv, OverAge, TypeOK
  <2> QED
    BY <1>1, <2>1, <2>2 DEF BeginPass, FilesInv, WorkerInv, Harmless
<1>2. CASE RemoveFails
  <2>1. TypeOK'
    BY <1>2 DEF RemoveFails, TypeOK
  <2>2. prune'.due = prune.due /\ prune'.victim = {} /\ prune.at = "remove"
    BY <1>2 DEF RemoveFails, TypeOK
  <2>3. PruneInv'
    BY <1>2, <2>2 DEF RemoveFails, PruneInv
  <2> QED
    BY <1>2, <2>1, <2>3 DEF RemoveFails, FilesInv, WorkerInv, Harmless
<1>3. CASE EndPass
  BY <1>3, SMTT(30) DEF EndPass, TypeOK, PruneInv, FilesInv, WorkerInv, Harmless
<1>4. ASSUME NEW e \in Entries, SkipEntry(e) \/ ReadFails(e)
      PROVE  IInv' /\ \A j \in Ids : Harmless(j)
  <2>0. prune' = [prune EXCEPT !.todo = @ \ {e}] /\ prune.at = "pass"
    BY <1>4 DEF SkipEntry, ReadFails
  <2>a. UNCHANGED <<up, crashes, stale, worker, save, tmp, final, aged>>
    BY <1>4 DEF SkipEntry, ReadFails
  <2>1. TypeOK'
    BY <2>0, <2>a DEF TypeOK
  <2>2. prune'.due = prune.due /\ prune'.victim = prune.victim /\ prune.at = "pass"
    BY <2>0 DEF TypeOK
  <2>3. PruneInv'
    BY <2>2, <2>a DEF PruneInv
  <2> QED
    BY <2>1, <2>3, <2>a DEF FilesInv, WorkerInv, Harmless
<1>5. ASSUME NEW e \in Entries, ChooseEntry(e)
      PROVE  IInv' /\ \A j \in Ids : Harmless(j)
  <2>0. e[1] \in {"rec", "tmp"} /\ e[2] \in Ids
    BY DEF Entries
  <2>1. TypeOK'
    BY <1>5 DEF ChooseEntry, TypeOK
  <2>2. e[1] = "rec" => aged[e[2]] /\ final[e[2]] = "ended"
    BY <1>5, <2>0 DEF ChooseEntry, Keep, Exists, PruneInv, FilesInv, TypeOK
  <2>3. e[1] = "rec" => worker[e[2]] \in {"ending", "gone"}
    BY <2>0, <2>2 DEF WorkerInv, TypeOK
  <2>a. prune'.due = prune.due /\ prune'.victim = {e} /\ prune.at = "pass"
    BY <1>5 DEF ChooseEntry, TypeOK
  <2>b. up = "up"
    BY <2>a DEF PruneInv
  <2>c. UNCHANGED <<up, worker, final, aged>>
    BY <1>5 DEF ChooseEntry
  <2>4. PruneInv'
    BY <2>2, <2>3, <2>a, <2>b, <2>c DEF PruneInv
  <2> QED
    BY <1>5, <2>1, <2>4 DEF ChooseEntry, FilesInv, WorkerInv, Harmless
<1>6. ASSUME NEW e \in Entries, RemoveEntry(e)
      PROVE  IInv' /\ \A j \in Ids : Harmless(j)
  <2>0. e[1] \in {"rec", "tmp"} /\ e[2] \in Ids
    BY DEF Entries
  <2>1. TypeOK'
    BY <1>6, <2>0 DEF RemoveEntry, TypeOK
  <2>2. e[1] = "rec" =>
          aged[e[2]] /\ final[e[2]] \in {"none", "ended"} /\ worker[e[2]] \in {"ending", "gone"}
    BY <1>6 DEF RemoveEntry, PruneInv
  <2>3. PruneInv'
    BY <1>6, <2>0 DEF RemoveEntry, PruneInv, TypeOK
  <2>a. \A j \in Ids : /\ final'[j] \in {final[j], "none"}
                       /\ tmp'[j] \in {tmp[j], NoFile}
    BY <1>6, <2>0 DEF RemoveEntry, TypeOK
  <2>4. \A j \in Ids : FilesInv(j)' /\ WorkerInv(j)'
    BY <1>6, <2>a DEF RemoveEntry, FilesInv, WorkerInv
  <2>5. \A j \in Ids : Harmless(j)
    BY <1>6, <2>0, <2>2 DEF RemoveEntry, Harmless, TypeOK
  <2> QED
    BY <2>1, <2>3, <2>4, <2>5
<1> QED
  BY <1>1, <1>2, <1>3, <1>4, <1>5, <1>6

\* The life of the process: after a start, a sweep, a stop or a crash nobody
\* saves "running" for a pipeline that has ended.
LEMMA ProcessSteps ==
  ASSUME IInv,
         Boot \/ Ready \/ Exit \/ Crash \/ \E i \in Ids : SweepOne(i)
  PROVE  IInv' /\ \A j \in Ids : Harmless(j)
<1> USE DEF IInv
<1>1. CASE Boot
  BY <1>1 DEF Boot, TypeOK, PruneInv, FilesInv, WorkerInv, Harmless
<1>2. CASE Ready
  BY <1>2 DEF Ready, TypeOK, PruneInv, FilesInv, WorkerInv, Harmless
<1>3. CASE Exit
  <2>1. \A j \in Ids : worker[j] = "gone" => save[j] = NoSave
    BY <1>3 DEF Exit, WorkerInv
  <2> QED
    BY <1>3, <2>1 DEF Exit, TypeOK, PruneInv, FilesInv, WorkerInv, Harmless
<1>4. CASE Crash
  <2>1. TypeOK'
    BY <1>4, StoreAssumption DEF Crash, TypeOK
  <2>2. \A j \in Ids : FilesInv(j)' /\ WorkerInv(j)'
    BY <1>4 DEF Crash, TypeOK, FilesInv, WorkerInv
  <2> QED
    BY <1>4, <2>1, <2>2 DEF Crash, PruneInv, Harmless
<1>5. ASSUME NEW i \in Ids, SweepOne(i)
      PROVE  IInv' /\ \A j \in Ids : Harmless(j)
  <2>1. TypeOK'
    BY <1>5 DEF SweepOne, BeginSave, TypeOK
  <2>2. \A j \in Ids : FilesInv(j)' /\ WorkerInv(j)'
    BY <1>5 DEF SweepOne, BeginSave, TypeOK, FilesInv, WorkerInv
  <2> QED
    BY <1>5, <2>1, <2>2 DEF SweepOne, PruneInv, Harmless
<1> QED
  BY <1>1, <1>2, <1>3, <1>4, <1>5

\* Time: ages only grow.
LEMMA TimeSteps ==
  ASSUME IInv, NEW i \in Ids, TmpAges(i) \/ RecordAges(i)
  PROVE  IInv' /\ \A j \in Ids : Harmless(j)
<1> USE DEF IInv
<1>1. CASE TmpAges(i)
  <2>1. TypeOK'
    <3> DEFINE Temp == [body : {"none", "torn", "running", "ended"}, old : BOOLEAN]
    <3>1. tmp \in [Ids -> Temp]
      BY DEF TypeOK
    <3>2. [tmp[i] EXCEPT !.old = TRUE] \in Temp
      BY <3>1
    <3>3. tmp' = [tmp EXCEPT ![i] = [tmp[i] EXCEPT !.old = TRUE]]
      BY <1>1 DEF TmpAges
    <3> HIDE DEF Temp
    <3>4. tmp' \in [Ids -> Temp]
      BY <3>1, <3>2, <3>3
    <3> USE DEF Temp
    <3> QED
      BY <1>1, <3>4 DEF TmpAges, TypeOK
  <2>2. /\ \A j \in Ids : tmp'[j].body = tmp[j].body
        /\ \A j \in Ids \ {i} : tmp'[j] = tmp[j]
        /\ tmp[i] # NoFile
    BY <1>1 DEF TmpAges, TypeOK
  <2>3. \A j \in Ids : FilesInv(j)'
    BY <1>1, <2>2 DEF TmpAges, FilesInv
  <2> QED
    BY <1>1, <2>1, <2>3 DEF TmpAges, PruneInv, WorkerInv, Harmless
<1>2. CASE RecordAges(i)
  BY <1>2 DEF RecordAges, TypeOK, PruneInv, FilesInv, WorkerInv, Harmless
<1> QED
  BY <1>1, <1>2

\* Every step keeps the invariant and removes no record but ended, aged ones.
LEMMA EveryStep ==
  ASSUME IInv, [Next]_vars
  PROVE  IInv' /\ \A j \in Ids : Harmless(j)
<1>1. CASE UNCHANGED vars
  BY <1>1 DEF vars, IInv, TypeOK, PruneInv, FilesInv, WorkerInv, Harmless
<1>2. CASE Boot \/ Ready \/ Exit \/ Crash \/ \E i \in Ids : SweepOne(i)
  BY <1>2, ProcessSteps
<1>3. CASE \/ BeginPass \/ RemoveFails \/ EndPass
           \/ \E e \in Entries :
                SkipEntry(e) \/ ReadFails(e) \/ ChooseEntry(e) \/ RemoveEntry(e)
  BY <1>3, PruneSteps
<1>4. CASE \E i \in Ids : SaveStep(i)
  BY <1>4, SaveSteps
<1>5. CASE \E i \in Ids :
             StartWorker(i) \/ SaveProgress(i) \/ SaveEnd(i) \/ EndWorker(i)
  BY <1>5, WorkerSteps
<1>6. CASE \E i \in Ids : TmpAges(i) \/ RecordAges(i)
  BY <1>6, TimeSteps
<1> QED
  BY <1>1, <1>2, <1>3, <1>4, <1>5, <1>6 DEF Next

\* IInv is an invariant of saving, sweeping and pruning.
THEOREM Inductive == Spec => []IInv
<1>1. IInv /\ [Next]_vars => IInv'
  BY EveryStep
<1> QED
  BY <1>1, Initially, PTL DEF Spec

\* Whatever fails or dies in Save, and whatever Prune removes meanwhile, a
\* file that carries a record's name was written in full.
THEOREM RecordsWhole == Spec => []FinalNeverTorn
<1>1. IInv => FinalNeverTorn
  BY DEF IInv, FilesInv, FinalNeverTorn
<1> QED
  BY <1>1, Inductive, PTL

\* Prune, which decides and removes in two steps without a lock, never
\* destroys a record that is not ended and past its retention, and neither
\* does anything else.
THEOREM NothingLostEarly == Spec => OnlyAgedEndedRemoved
<1>1. IInv /\ [Next]_vars =>
        [\A i \in Ids : final[i] # "none" /\ final'[i] = "none" =>
           final[i] = "ended" /\ aged[i]]_vars
  BY EveryStep DEF Harmless
<1> QED
  BY <1>1, Inductive, PTL DEF Spec, OnlyAgedEndedRemoved

-----------------------------------------------------------------------------
(* Starting and stopping the prune goroutine *)

\* A store nobody has called satisfies the invariant.
LEMMA LoopInitially == LoopInit => LoopIInv
<1> SUFFICES ASSUME LoopInit PROVE LoopIInv
  OBVIOUS
<1>0. 0 \in 0..MaxLoops /\ 1 \in 1..(MaxLoops + 1)
  BY PruneAssumption
<1>1. LoopTypeOK
  BY <1>0 DEF LoopInit, LoopTypeOK
<1> QED
  BY <1>1 DEF LoopInit, LoopIInv, OneReachableLoop

\* Entering a call changes nothing but the caller's position.
LEMMA EnterStep ==
  ASSUME LoopIInv, NEW c \in Callers, CallStart(c) \/ CallStop(c)
  PROVE  LoopIInv'
  BY DEF LoopIInv, LoopTypeOK, OneReachableLoop, CallStart, CallStop, Go, Loops

\* StartPruning: with the mutex free and no stop channel there is no
\* goroutine, so the new one is the only one, and nobody is waiting.
LEMMA StartStep ==
  ASSUME LoopIInv, NEW c \in Callers, Start(c)
  PROVE  LoopIInv'
<1> USE DEF LoopIInv, Start, Go
<1>1. CASE stop # 0
  BY <1>1 DEF LoopTypeOK, OneReachableLoop, Loops
<1>2. CASE stop = 0
  <2>0. loops = {} /\ ticking = {} /\ next \in Loops
    BY <1>2, PruneAssumption DEF LoopTypeOK, Loops
  <2>1. /\ loops = {} /\ loops' = {next} /\ stop' = next /\ next \in Loops
        /\ next' = next + 1 /\ mutex = {} /\ mutex' = {} /\ closed' = closed
        /\ ticking' = {next} /\ call' = [call EXCEPT ![c] = "idle"]
    BY <1>2, <2>0
  <2>2. \A d \in Callers : call[d] # "wait" /\ call'[d] # "wait"
    BY <2>1 DEF LoopTypeOK
  <2>3. misuse' = FALSE
    BY <1>2, <2>2
  <2>4. LoopTypeOK'
    BY <2>1, <2>3, PruneAssumption DEF LoopTypeOK, Loops
  <2>5. next \notin closed
    BY <2>1 DEF LoopTypeOK, Loops
  <2>6. \A l \in loops' \cup closed' : l < next'
    BY <2>1 DEF LoopTypeOK, Loops
  <2> QED
    BY <2>1, <2>2, <2>3, <2>4, <2>5, <2>6 DEF OneReachableLoop, Loops
<1> QED
  BY <1>1, <1>2

\* StopPruning up to the wait: the caller takes the mutex and the channel.
LEMMA StopStep ==
  ASSUME LoopIInv, NEW c \in Callers, Stop(c)
  PROVE  LoopIInv'
<1>1. CASE stop = 0
  BY <1>1 DEF LoopIInv, LoopTypeOK, OneReachableLoop, Stop, Go
<1>2. CASE stop # 0
  <2>1. /\ mutex = {} /\ mutex' = {c} /\ stop' = 0
        /\ closed' = closed \cup {stop}
        /\ call' = [call EXCEPT ![c] = "wait"]
        /\ UNCHANGED <<loops, ticking, next, misuse>>
    BY <1>2 DEF Stop, Go
  <2>2. stop \in loops /\ stop \in Loops /\ stop < next
    BY <1>2 DEF LoopIInv, LoopTypeOK
  <2>3. LoopTypeOK'
    BY <2>1, <2>2, PruneAssumption DEF LoopIInv, LoopTypeOK
  <2>4. OneReachableLoop'
    BY <2>1, <2>2 DEF LoopIInv, OneReachableLoop
  <2>5. \A d \in Callers : call'[d] = "wait" => d = c
    BY <2>1 DEF LoopIInv, LoopTypeOK
  <2>6. call'[c] = "wait"
    BY <2>1 DEF LoopIInv, LoopTypeOK
  <2> QED
    BY <2>1, <2>2, <2>3, <2>4, <2>5, <2>6 DEF LoopIInv
<1> QED
  BY <1>1, <1>2

\* The wait ends when the goroutine is gone: the mutex is free again and
\* there is neither channel nor goroutine.
LEMMA WaitedStep ==
  ASSUME LoopIInv, NEW c \in Callers, Waited(c)
  PROVE  LoopIInv'
  BY DEF LoopIInv, LoopTypeOK, OneReachableLoop, Waited, Go, Loops

\* The goroutine's own steps: only one told to stop ends, so the channel
\* never names a goroutine that is gone.
LEMMA LoopStep ==
  ASSUME LoopIInv, NEW l \in Loops, Loop(l)
  PROVE  LoopIInv'
<1>1. CASE Tick(l)
  BY <1>1 DEF LoopIInv, LoopTypeOK, OneReachableLoop, Tick
<1>2. CASE TickEnds(l)
  BY <1>2 DEF LoopIInv, LoopTypeOK, OneReachableLoop, TickEnds
<1>3. CASE LoopEnds(l)
  BY <1>3 DEF LoopIInv, LoopTypeOK, OneReachableLoop, LoopEnds
<1> QED
  BY <1>1, <1>2, <1>3 DEF Loop

\* LoopIInv is an invariant of overlapping StartPruning and StopPruning calls.
THEOREM LoopInductive == LoopSpec => []LoopIInv
<1>1. LoopIInv /\ [LoopNext]_loopVars => LoopIInv'
  <2> SUFFICES ASSUME LoopIInv, [LoopNext]_loopVars PROVE LoopIInv'
    OBVIOUS
  <2>1. CASE UNCHANGED loopVars
    BY <2>1 DEF loopVars, LoopIInv, LoopTypeOK, OneReachableLoop
  <2>2. CASE \E c \in Callers : CallStart(c) \/ CallStop(c) \/ Call(c)
    BY <2>2, EnterStep, StartStep, StopStep, WaitedStep DEF Call
  <2>3. CASE \E l \in Loops : Loop(l)
    BY <2>3, LoopStep
  <2> QED
    BY <2>1, <2>2, <2>3 DEF LoopNext
<1> QED
  BY <1>1, LoopInitially, PTL DEF LoopSpec

\* The store's pruning fields are always in their types, and a goroutine is
\* never stopped in the middle of a pass.
THEOREM LoopTypeCorrect == LoopSpec => []LoopTypeOK
  BY LoopInductive, PTL DEF LoopIInv

\* However many callers start and stop pruning at once, at most one goroutine
\* prunes the directory and StopPruning can reach it.
THEOREM AtMostOneLoop == LoopSpec => []OneReachableLoop
  BY LoopInductive, PTL DEF LoopIInv

\* pruneWG.Add never meets a Wait in progress.
THEOREM WaitGroupNotMisused == LoopSpec => []NoMisuse
<1>1. LoopIInv => NoMisuse
  BY DEF LoopIInv, NoMisuse
<1> QED
  BY <1>1, LoopInductive, PTL

\* Between calls the goroutine runs exactly if there is a channel to stop it.
THEOREM Settled == LoopSpec => []SettledPruning
<1>1. LoopIInv => SettledPruning
  BY DEF LoopIInv, SettledPruning, LoopTypeOK, OneReachableLoop
<1> QED
  BY <1>1, LoopInductive, PTL
=============================================================================
