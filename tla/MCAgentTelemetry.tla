-------------------------- MODULE MCAgentTelemetry --------------------------
(* The agents and the monitoring session with the constants of the .cfg files *)
EXTENDS AgentTelemetry
=============================================================================
