---------------------------- MODULE MCInitDaemon ----------------------------
(* Small instances of InitDaemon. *)
EXTENDS InitDaemon
=============================================================================
