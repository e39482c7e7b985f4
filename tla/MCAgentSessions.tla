---------------------------- MODULE MCAgentSessions ----------------------------
(* Small instances of AgentSessions. *)
EXTENDS AgentSessions
================================================================================
