-------------------------- MODULE MCAgentRegistry --------------------------
(* Small instances of AgentRegistry for TLC. *)
EXTENDS AgentRegistry, TLC

CONSTANTS s1, s2, u1, u2
=============================================================================
