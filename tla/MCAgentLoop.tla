------------------------------ MODULE MCAgentLoop ---------------------------
(* An instance of AgentLoop for TLC: its bounds are numbers. *)
EXTENDS AgentLoop
=============================================================================
