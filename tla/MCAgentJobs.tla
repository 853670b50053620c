----------------------------- MODULE MCAgentJobs ------------------------------
(* A small instance of AgentJobs. *)
EXTENDS AgentJobs
=============================================================================
