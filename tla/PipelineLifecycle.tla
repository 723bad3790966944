-------------------------- MODULE PipelineLifecycle --------------------------
(***************************************************************************)
(* What one email pipeline promises to an outside observer, who sees only  *)
(* its record in the pipeline directory and the mail its sender receives:  *)
(* a terminal record is final, the sender is answered at most once, and a  *)
(* pipeline recorded as completed never apologised for a failure.          *)
(* Executor.tla is shown to implement this specification.                  *)
(***************************************************************************)

CONSTANT Pipelines

VARIABLES
  rec,      \* rec[p]: the status in p's record on disk, "none" if no record
  answer    \* answer[p]: the mail sent to p's originator

vars == <<rec, answer>>

Final == {"completed", "failed"}

Init ==
  /\ rec = [p \in Pipelines |-> "none"]
  /\ answer = [p \in Pipelines |-> "none"]

\* The record of p becomes s.  It was not final before.
Record(p, s) ==
  /\ rec[p] \notin Final
  /\ s = "completed" => answer[p] # "apology"
  /\ rec' = [rec EXCEPT ![p] = s]
  /\ UNCHANGED answer

\* The sender of p is mailed the pipeline's result.
SendResult(p) ==
  /\ answer[p] = "none"
  /\ rec[p] \notin Final
  /\ answer' = [answer EXCEPT ![p] = "result"]
  /\ UNCHANGED rec

\* The sender of p is mailed the fixed failure text.
SendApology(p) ==
  /\ answer[p] = "none"
  /\ rec[p] # "completed"
  /\ answer' = [answer EXCEPT ![p] = "apology"]
  /\ UNCHANGED rec

Next ==
  \E p \in Pipelines :
    \/ \E s \in {"running", "completed", "failed"} : Record(p, s)
    \/ SendResult(p)
    \/ SendApology(p)

Spec == Init /\ [][Next]_vars
=============================================================================
