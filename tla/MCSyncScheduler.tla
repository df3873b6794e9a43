----------------------------- MODULE MCSyncScheduler -----------------------------
(* A small instance of SyncScheduler for TLC. *)
EXTENDS SyncScheduler

CONSTANTS w1, w2
================================================================================
