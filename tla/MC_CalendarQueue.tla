---------------------------- MODULE MC_CalendarQueue ----------------------------
(* CalendarQueue and its refinement on small instances.                       *)
EXTENDS CalendarQueueRefinement, TLC
=============================================================================
