------------------------------ MODULE MCFiber ------------------------------
(* Small instances of Fiber for TLC. *)
EXTENDS Fiber, TLC

CONSTANTS j1, j2
MCJoiners == {j1, j2}
=============================================================================
