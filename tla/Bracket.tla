------------------------------ MODULE Bracket ------------------------------
(***************************************************************************)
(* Connections behind a semaphore, as docs/guides/resource-management.md   *)
(* builds them:  sem.withPermit(bracket(open, use, close)).  The protected *)
(* effect of a fiber of Semaphore is a bracket() or an ensuring() of       *)
(* core/runtime/resource.ts, or a plain effect.                            *)
(*                                                                         *)
(* bracket() makes a scope of its own and runs acquire and use as child    *)
(* fibers of it; release runs as a fiber of the runtime, in no scope.      *)
(* ensuring() has one such fiber and a finalizer in place of the release.  *)
(* These fibers are known by the contract of Fiber: an interrupt that      *)
(* comes before the end of a fiber rules out a success.                    *)
(***************************************************************************)
EXTENDS Semaphore

CONSTANTS Bracketed,    \* fibers whose effect is a bracket()
          Ensured       \* fibers whose effect is an ensuring()

ASSUME EffectsAssumption == /\ Bracketed \cup Ensured \subseteq Fibers
                            /\ Bracketed \cap Ensured = {}

VARIABLES
  stage,     \* what the bracket of a fiber is doing
  open,      \* the fibers whose connection is open
  closing,   \* the brackets that were cancelled: scope.close() is queued
  stopping,  \* the brackets whose present child fiber is interrupted
  lost       \* history: interrupted between the opening and the end of acquire

bracketVars == <<stage, open, closing, stopping, lost>>
allVars == <<vars, bracketVars>>

(***************************************************************************)
(* "none"       not begun                                                  *)
(* "acquiring"  the acquire fiber waits for the connection to open         *)
(* "opened"     it is open, the acquire fiber has not ended                *)
(* "using"      the use fiber, or the effect of ensuring()                 *)
(* "releasing"  the release fiber, or the finalizer of ensuring()          *)
(* "over"       the callback was called                                    *)
(***************************************************************************)
BracketStages == {"none", "acquiring", "opened", "using", "releasing", "over"}
Bracketing(f) == stage[f] \notin {"none", "over"}
InScope(f) == stage[f] \in {"acquiring", "opened", "using"}

BracketInit == /\ Init
               /\ stage = [f \in Fibers |-> "none"]
               /\ open = {} /\ closing = {} /\ stopping = {} /\ lost = {}

-----------------------------------------------------------------------------
\* The protected effect begins: the fiber suspends on the bracket.  What
\* ensuring() looks after counts as open from here on.
Begin(f) ==
  /\ StartEffect(f)
  /\ stage' = [stage EXCEPT ![f] = CASE f \in Bracketed -> "acquiring"
                                     [] f \in Ensured -> "using"
                                     [] OTHER -> "none"]
  /\ open' = IF f \in Ensured THEN open \cup {f} ELSE open
  /\ UNCHANGED <<closing, stopping, lost>>

\* The operation that opens the connection answers.
Opens(f) ==
  /\ stage[f] = "acquiring"
  /\ stage' = [stage EXCEPT ![f] = "opened"]
  /\ open' = open \cup {f}
  /\ UNCHANGED <<vars, closing, stopping, lost>>

\* Mutant: the answer of a bracket reaches a fiber that is over.
OverLate(f) ==
  /\ stage' = [stage EXCEPT ![f] = "over"]
  /\ stopping' = stopping \ {f}
  /\ pc' = [pc EXCEPT ![f] = "settled"]
  /\ UNCHANGED <<available, waiters, interrupted, holders>>
\* The bracket calls its callback, which nobody hears once the fiber is over.
Over(f) ==
  /\ stage' = [stage EXCEPT ![f] = "over"]
  /\ stopping' = stopping \ {f}
  /\ IF pc[f] = "running" THEN Settle(f) ELSE UNCHANGED vars

\* The acquire fiber ends.  A failure, an interrupt among them, is the end of
\* the bracket: there is nothing to release.
AcquireFails(f) ==
  /\ \/ stage[f] = "acquiring"
     \/ stage[f] = "opened" /\ f \in stopping
  /\ lost' = IF f \in open THEN lost \cup {f} ELSE lost
  /\ Over(f)
  /\ UNCHANGED <<open, closing>>
AcquireSucceeds(f) ==
  /\ stage[f] = "opened" /\ f \notin stopping
  /\ stage' = [stage EXCEPT ![f] = "using"]
  /\ UNCHANGED <<vars, open, closing, stopping, lost>>

\* The use fiber ends, however it does: the release is forked.
\* Mutant: nothing is released after an interrupt.
UseEndsUnreleased(f) ==
  /\ stage[f] = "using"
  /\ IF f \in stopping THEN Over(f)
     ELSE /\ stage' = [stage EXCEPT ![f] = "releasing"]
          /\ stopping' = stopping \ {f}
          /\ UNCHANGED vars
  /\ UNCHANGED <<open, closing, lost>>
UseEnds(f) ==
  /\ stage[f] = "using"
  /\ stage' = [stage EXCEPT ![f] = "releasing"]
  /\ stopping' = stopping \ {f}
  /\ UNCHANGED <<vars, open, closing, lost>>

\* The release fiber ends (its failures are swallowed), and with it the bracket.
ReleaseEnds(f) ==
  /\ stage[f] = "releasing"
  /\ open' = open \ {f}
  /\ Over(f)
  /\ UNCHANGED <<closing, lost>>

\* The step of an interrupted fiber, whose finalizers are the canceler of the
\* bracket, which only queues scope.close(), or interrupts the fiber of
\* ensuring() at once; then releaseOnce of the semaphore.
Interrupted(f) ==
  /\ InterruptStep(f)
  /\ closing' = IF pc[f] = "running" /\ f \in Bracketed THEN closing \cup {f} ELSE closing
  /\ stopping' = IF f \in Ensured /\ stage[f] = "using" THEN stopping \cup {f} ELSE stopping
  /\ UNCHANGED <<stage, open, lost>>

\* closeAsync() runs: the child fiber of the scope is interrupted.
Closes(f) ==
  /\ f \in closing
  /\ closing' = closing \ {f}
  /\ stopping' = IF InScope(f) THEN stopping \cup {f} ELSE stopping
  /\ UNCHANGED <<vars, stage, open, lost>>

\* A plain effect answers.
PlainSettles(f) ==
  /\ f \notin Bracketed \cup Ensured
  /\ Settle(f) /\ UNCHANGED bracketVars

PermitStep(f) ==
  /\ Acquire(f) \/ RegisterRelease(f) \/ ReleaseOnce(f) \/ Finish(f)
  /\ UNCHANGED bracketVars
ChildEnds(f) ==
  AcquireFails(f) \/ AcquireSucceeds(f) \/ UseEnds(f) \/ ReleaseEnds(f) \/ PlainSettles(f)
BracketSteps(f) == PermitStep(f) \/ Begin(f) \/ Interrupted(f) \/ Closes(f)

AllOver == /\ AllDone /\ closing = {} /\ \A f \in Fibers : ~Bracketing(f)

BracketNext ==
  \/ \E f \in Fibers : \/ BracketSteps(f) \/ ChildEnds(f) \/ Opens(f)
                       \/ Interrupt(f) /\ UNCHANGED bracketVars
  \/ AllOver /\ UNCHANGED allVars

\* Queued fibers are stepped, and what they wait for answers.
BracketFairness ==
  \A f \in Fibers : WF_allVars(BracketSteps(f)) /\ WF_allVars(ChildEnds(f))
BracketSpec == BracketInit /\ [][BracketNext]_allVars /\ BracketFairness

-----------------------------------------------------------------------------
(* A connection that was opened is closed, once, whatever ends the fiber   *)
(* that opened it (docs/guides/resource-management.md "If `use` fails or   *)
(* is interrupted, `release` still runs"), unless the interrupt fell       *)
(* between the opening and the end of the acquire fiber: the bracket is    *)
(* then over and nobody knows the connection.                              *)
ClosedOrLost ==
  \A f \in open : \/ f \in lost /\ f \in interrupted /\ pc[f] = "done"
                  \/ stage[f] \in {"opened", "using", "releasing"}

(* The guide's "At most 10 concurrent connections", as far as it goes: an  *)
(* open connection belongs to a fiber that holds a permit, or to one that  *)
(* was interrupted: its permit goes back before its connection is closed.  *)
OpenUnderPermit == /\ \A f \in open : Inside(f) \/ (pc[f] = "done" /\ f \in interrupted)
                   /\ Cardinality(open \ interrupted) <= Capacity

(* Connections and permits agree, whoever is interrupted when.             *)
ConnectionsAccounted == ClosedOrLost /\ OpenUnderPermit

(* What is shown of the semaphore holds here: brackets that answer late,   *)
(* also to fibers that are over, give no permit back a second time.        *)
ImplementsSemaphore == Spec

(* Everything ends: all fibers get through withPermit, unless a permit     *)
(* leaked before, and in the end no connection is open but a lost one.     *)
EverythingEnds == EveryoneFinishes /\ <>[](open \subseteq lost)
=============================================================================
