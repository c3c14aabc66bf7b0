----------------------------- MODULE MCAgentLoop -----------------------------
(***************************************************************************)
(* AgentLoop for TLC: the .cfg files give the sets and the switches.       *)
(***************************************************************************)
EXTENDS AgentLoop

=============================================================================
