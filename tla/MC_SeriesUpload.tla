---------------------------- MODULE MC_SeriesUpload ----------------------------
(* SeriesUpload on small instances.                                          *)
EXTENDS SeriesUpload, TLC
=============================================================================
