-------------------------- MODULE MC_AssistantTurn ---------------------------
(* AssistantTurn for TLC.                                                   *)
EXTENDS AssistantTurn
=============================================================================
