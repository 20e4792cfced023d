----------------------------- MODULE MCScheduler -----------------------------
(* A small instance of Scheduler for TLC: three callers for two lanes, so that *)
(* one goes to the overflow lane, lanes of two tasks and a budget of three.    *)
EXTENDS Scheduler
=============================================================================
