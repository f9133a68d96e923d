---------------------------- MODULE MC_CalendarPull ----------------------------
(* CalendarPull on small instances; the events are interchangeable, which      *)
(* only the run without liveness makes use of.                                *)
EXTENDS CalendarPull, TLC

Symmetry == Permutations(Events)
=============================================================================
