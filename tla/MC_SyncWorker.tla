---------------------------- MODULE MC_SyncWorker ----------------------------
(* SyncWorker for TLC: one account in use, and one that syncs beside it.    *)
EXTENDS SyncWorker
=============================================================================
