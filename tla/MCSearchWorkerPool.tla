--------------------------- MODULE MCSearchWorkerPool ---------------------------
(* A small instance of SearchWorkerPool for TLC. *)
EXTENDS SearchWorkerPool
===============================================================================
