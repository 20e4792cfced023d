---------------------------- MODULE MCTimerWheel ----------------------------
(* A small instance of TimerWheel for TLC: three entries, a wheel of two       *)
(* slots of two units each, one short timeout, two within one rotation and one *)
(* beyond it; the host may be one unit late.                                   *)
EXTENDS TimerWheel
MCTimeouts == {1, 3, 4, 5}
=============================================================================
