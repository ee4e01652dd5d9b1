----------------------------- MODULE MCAgentLoop -----------------------------
(* A small instance of AgentLoop: see README, "Runs". *)
EXTENDS AgentLoop
==============================================================================
