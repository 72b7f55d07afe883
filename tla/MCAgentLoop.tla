------------------------------ MODULE MCAgentLoop ------------------------------
(* AgentLoop for TLC.  The instances bound turns, batches and crashes; no   *)
(* definition is replaced.                                                  *)
EXTENDS AgentLoop

=============================================================================
