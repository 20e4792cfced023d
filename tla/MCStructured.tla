----------------------------- MODULE MCStructured -----------------------------
(* A small instance of Structured for TLC.  Without a combinator the one child *)
(* is f1, and the other caller of closeAsync() reaches the outer scope or one  *)
(* sub-scope; with a combinator that caller is its scope.close().              *)
EXTENDS Structured
CONSTANTS s1, s2, f1, f2, f3
MCSubs == {s1, s2}
MCChildren == {f1, f2, f3}
MCCloseTargets == {Root, s1}
MCPrograms == {"scopes", "race", "zipPar", "collectAllPar", "raceWith"}
=============================================================================
