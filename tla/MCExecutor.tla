----------------------------- MODULE MCExecutor -----------------------------
(* Executor on small instances. *)
EXTENDS Executor

AllKinds == {"process", "passthrough", "unknown", "badargs", "badschema",
             "norunner"}
=============================================================================
