---------------------------- MODULE MCHttpClient ----------------------------
(* Three requests, one permit, room for two waiters; the circuit opens at  *)
(* the first failure, may be probed after one unit of time, and closes at  *)
(* the second success.                                                     *)
EXTENDS HttpClient, TLC
=============================================================================
