--------------------------- MODULE MCAgentRuntime ---------------------------
(* The instance of AgentRuntime that TLC checks. *)
EXTENDS AgentRuntime

=============================================================================
