--------------------------- MODULE MCCompoundRun ---------------------------
(* CompoundRun with three steps, and with two for the run that hangs. *)
EXTENDS CompoundRun
=============================================================================
