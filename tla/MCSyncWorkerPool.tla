---------------------------- MODULE MCSyncWorkerPool ----------------------------
(* Small instances of SyncWorkerPool for TLC. *)
EXTENDS SyncWorkerPool

CONSTANTS w1, w2, w3
===============================================================================
