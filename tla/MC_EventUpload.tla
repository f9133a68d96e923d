---------------------------- MODULE MC_EventUpload ----------------------------
(* EventUpload on small instances.                                           *)
EXTENDS EventUpload, TLC
=============================================================================
