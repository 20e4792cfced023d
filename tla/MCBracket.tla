----------------------------- MODULE MCBracket -----------------------------
(* Small instances of Bracket for TLC: two fibers with a bracket(), one   *)
(* with ensuring() and a plain one, over one permit.                      *)
EXTENDS Bracket, TLC

CONSTANTS f1, f2, f3, f4
MCFibers == {f1, f2, f3, f4}
MCBracketed == {f1, f2}
MCEnsured == {f3}
=============================================================================
