------------------------- MODULE MCAgentSupervisor --------------------------
(* Small instances of AgentSupervisor. *)
EXTENDS AgentSupervisor

\* Two libraries: one may be unpacked while the other is still packed.
TwoLibs == {"lib1", "lib2"}
=============================================================================
