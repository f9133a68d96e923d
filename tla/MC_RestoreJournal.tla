------------------------- MODULE MC_RestoreJournal --------------------------
(* RestoreJournal for TLC.                                                  *)
EXTENDS RestoreJournal
=============================================================================
