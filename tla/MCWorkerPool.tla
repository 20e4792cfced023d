---------------------------- MODULE MCWorkerPool ----------------------------
(* A small instance of WorkerPool for TLC: twice as many tasks as workers. *)
EXTENDS WorkerPool
=============================================================================
