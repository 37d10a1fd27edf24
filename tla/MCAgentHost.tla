---------------------------- MODULE MCAgentHost ----------------------------
(* The agent with two requests being served at a time.                      *)
EXTENDS AgentHost
=============================================================================
