---------------------------- MODULE MCAgentHost ----------------------------
(* A finite instance of AgentHost; the constants are given in the cfg.       *)
EXTENDS AgentHost
=============================================================================
