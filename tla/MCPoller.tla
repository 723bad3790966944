------------------------------ MODULE MCPoller ------------------------------
(* Poller on small instances. *)
EXTENDS Poller
=============================================================================
