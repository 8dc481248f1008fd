-------------------------- MODULE MCAgentExecution --------------------------
(* Small instance of AgentExecution. *)
EXTENDS AgentExecution
=============================================================================
