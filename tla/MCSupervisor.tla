---------------------------- MODULE MCSupervisor ----------------------------
(* Two or three children and a clock of a few units for TLC.               *)
EXTENDS Supervisor, TLC
BothStrategies == Kinds
OneForOne == {"one-for-one"}
=============================================================================
