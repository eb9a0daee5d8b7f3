----------------------------- MODULE MCBackup4G -----------------------------
(* Small instances of Backup4G. *)
EXTENDS Backup4G
=============================================================================
