--------------------------- MODULE CircuitBreaker ---------------------------
(***************************************************************************)
(* The circuit breaker of core/runtime/circuitBreaker.ts, shared by        *)
(* concurrent requests.  protect(effect) decides when it is called; the    *)
(* effect it returns runs later, perhaps more than once (a retry runs the  *)
(* same effect again), and reports its outcome whatever the breaker has    *)
(* become in the meantime.  A defect or an interruption reports nothing:   *)
(* asyncFold sees neither.                                                 *)
(*                                                                         *)
(* Bounds: the requests of the constants, MaxRuns runs of each, and a      *)
(* clock that stops at MaxTime.                                            *)
(***************************************************************************)
EXTENDS Naturals, FiniteSets

CONSTANTS Requests, failureThreshold, successThreshold, resetTimeout, MaxRuns, MaxTime

ASSUME BreakerAssumption ==
  /\ failureThreshold \in Nat \ {0} /\ successThreshold \in Nat \ {0}
  /\ resetTimeout \in Nat /\ MaxRuns \in Nat /\ MaxTime \in Nat

VARIABLES
  currentState, consecutiveFailures, consecutiveSuccesses, openedAt,
  total,          \* the counters of stats()
  now,
  pc,             \* of a request: "new", "rejected", "built", "running", "ended"
  runs,           \* how often its effect was started
  openSince       \* history: when the breaker last opened

breakerVars == <<currentState, consecutiveFailures, consecutiveSuccesses, openedAt, total>>
requestVars == <<pc, runs>>
vars == <<breakerVars, requestVars, now, openSince>>

States == {"closed", "open", "half-open"}

Init ==
  /\ currentState = "closed" /\ consecutiveFailures = 0 /\ consecutiveSuccesses = 0
  /\ openedAt = 0 /\ now = 0 /\ openSince = 0
  /\ total = [requests |-> 0, failures |-> 0, successes |-> 0, rejected |-> 0]
  /\ pc = [r \in Requests |-> "new"] /\ runs = [r \in Requests |-> 0]

-----------------------------------------------------------------------------
(* The transitions *)

Count(fields) == total' = [f \in DOMAIN total |-> IF f \in fields THEN total[f] + 1 ELSE total[f]]
Stay == UNCHANGED currentState

OnSuccess ==
  /\ Count({"successes"}) /\ consecutiveFailures' = 0 /\ UNCHANGED openedAt
  /\ IF currentState = "half-open" /\ consecutiveSuccesses + 1 >= successThreshold
     THEN consecutiveSuccesses' = 0 /\ currentState' = "closed"
     ELSE /\ consecutiveSuccesses' = IF currentState = "half-open" THEN consecutiveSuccesses + 1
                                     ELSE consecutiveSuccesses
          /\ Stay

Trips == \/ currentState = "half-open"
         \/ currentState = "closed" /\ consecutiveFailures + 1 >= failureThreshold

\* Mutant: the reopened circuit keeps the time stamp of its first opening.
MutOnFailureKeepsStamp ==
  /\ Count({"failures"}) /\ consecutiveFailures' = consecutiveFailures + 1
  /\ consecutiveSuccesses' = 0
  /\ openedAt' = IF currentState = "closed" /\ Trips THEN now ELSE openedAt
  /\ IF Trips THEN currentState' = "open" ELSE Stay

\* An error that counts.  (One that isFailure() excludes is a success.)
OnFailure ==
  /\ Count({"failures"}) /\ consecutiveFailures' = consecutiveFailures + 1
  /\ consecutiveSuccesses' = 0
  /\ IF Trips THEN openedAt' = now /\ currentState' = "open" ELSE UNCHANGED openedAt /\ Stay

HasCooledDown == now - openedAt >= resetTimeout
Allows == currentState # "open" \/ HasCooledDown

-----------------------------------------------------------------------------
(* Requests *)

\* protect(effect): the decision, and the transition to half-open with it.
Protect(r) ==
  /\ pc[r] = "new"
  /\ IF Allows
     THEN /\ currentState' = IF currentState = "open" THEN "half-open" ELSE currentState
          /\ pc' = [pc EXCEPT ![r] = "built"]
          /\ Count({"requests"})
     ELSE /\ Stay /\ pc' = [pc EXCEPT ![r] = "rejected"]
          /\ Count({"requests", "rejected"})
  /\ UNCHANGED <<consecutiveFailures, consecutiveSuccesses, openedAt, runs, now, openSince>>

\* The effect is run, for the first time or by a retry.
Start(r) ==
  /\ pc[r] \in {"built", "ended"} /\ runs[r] < MaxRuns
  /\ pc' = [pc EXCEPT ![r] = "running"] /\ runs' = [runs EXCEPT ![r] = @ + 1]
  /\ UNCHANGED <<breakerVars, now, openSince>>

NoteOpening ==
  openSince' = IF currentState' = "open" /\ currentState # "open" THEN now ELSE openSince

\* It ends: with a value, with an error, or in a way the breaker never hears of.
End(r) ==
  /\ pc[r] = "running" /\ pc' = [pc EXCEPT ![r] = "ended"]
  /\ OnSuccess \/ OnFailure \/ UNCHANGED breakerVars
  /\ NoteOpening
  /\ UNCHANGED <<runs, now>>

Reset ==
  /\ consecutiveFailures' = 0 /\ consecutiveSuccesses' = 0 /\ currentState' = "closed"
  /\ UNCHANGED <<openedAt, total, requestVars, now, openSince>>

Tick == now < MaxTime /\ now' = now + 1
        /\ UNCHANGED <<breakerVars, requestVars, openSince>>

Next == Reset \/ Tick \/ \E r \in Requests : Protect(r) \/ Start(r) \/ End(r)

Spec == Init /\ [][Next]_vars

-----------------------------------------------------------------------------
(* Properties *)

TypeOK ==
  /\ currentState \in States /\ consecutiveFailures \in Nat
  /\ consecutiveSuccesses \in 0..(successThreshold - 1)
  /\ openedAt \in 0..now /\ now \in 0..MaxTime /\ openSince \in 0..now
  /\ total \in [{"requests", "failures", "successes", "rejected"} -> Nat]
  /\ pc \in [Requests -> {"new", "rejected", "built", "running", "ended"}]
  /\ runs \in [Requests -> 0..MaxRuns]

\* The counts belong to the present round, whatever outcomes of earlier requests
\* arrive when: a closed circuit has seen fewer failures in a row than the
\* threshold, and successes of an earlier round of probing, or of one cut short
\* by a failure or a reset, do not count.
CountsOfThisRound ==
  /\ currentState = "closed" => consecutiveFailures < failureThreshold
  /\ consecutiveSuccesses > 0 => currentState = "half-open"

\* Once open, for whatever reason, the circuit stays open for resetTimeout
\* unless somebody resets it.
CoolsDown ==
  [][currentState = "open" /\ currentState' = "half-open" => now - openSince >= resetTimeout]_vars

\* While the circuit is open the breaker's own time stamp is that of the last opening.
StampIsCurrent == currentState = "open" => openedAt = openSince

\* The inductive invariant of the breaker (HttpClientProofs).
IInv == TypeOK /\ CountsOfThisRound /\ StampIsCurrent
=============================================================================
