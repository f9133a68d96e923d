-------------------------- MODULE MC_ConvexService --------------------------
(* ConvexService for TLC.                                                   *)
EXTENDS ConvexService
=============================================================================
