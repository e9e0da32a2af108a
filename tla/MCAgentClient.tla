----------------------------- MODULE MCAgentClient -----------------------------
(* A small instance of AgentClient: three calls, so that a decision can race a *)
(* second one or carry the token of another request, one crash, and time for a *)
(* request to outlive its TTL.                                                 *)
EXTENDS AgentClient
=============================================================================
