---------------------------- MODULE MCMailDaemon ----------------------------
(* MailDaemon on small instances; each configuration chooses what disturbs *)
(* the daemon.                                                             *)
EXTENDS MailDaemon
=============================================================================
