---------------------------- MODULE MCPruneLoop ----------------------------
(* PruneLoop with three concurrent callers. *)
EXTENDS PruneLoop
=============================================================================
