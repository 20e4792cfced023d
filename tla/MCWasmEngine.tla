---------------------------- MODULE MCWasmEngine ----------------------------
(* Three fibers with three requests in all, a lane for two, drains of one. *)
EXTENDS WasmEngine, TLC
=============================================================================
