----------------------------- MODULE MCLtePower -----------------------------
(* Small instances of LtePower. *)
EXTENDS LtePower
=============================================================================
