--------------------------- MODULE MCProvisioning ---------------------------
(* Small instances of Provisioning. *)
EXTENDS Provisioning
=============================================================================
