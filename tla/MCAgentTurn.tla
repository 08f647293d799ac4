------------------------------ MODULE MCAgentTurn ------------------------------
(* No skill is used: run_turn puts nothing before the prompt.                *)
EXTENDS AgentTurn, TLC

NoContext == {<<>>}
================================================================================
