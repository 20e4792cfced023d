----------------------------- MODULE Structured -----------------------------
(***************************************************************************)
(* The combinators of core/stream/structuredConcurrency.ts over the scopes *)
(* of Scope: race, zipPar, collectAllPar and raceWith, called by the body  *)
(* of a withScopeAsync().  A combinator makes a sub-scope, forks its       *)
(* effects in it, answers from their joiners, and leaves the close of its  *)
(* scope to a fiber it forks (scope.close()).  It has no canceler: when    *)
(* the body is interrupted, only the close of the outer scope stops it.    *)
(*                                                                         *)
(* `program' is chosen at the start.  With "scopes" the owners of the      *)
(* scopes do what they like, and no combinator is called.                  *)
(*                                                                         *)
(* Bounds: those of Scope; one call of a combinator, two effects at most.  *)
(***************************************************************************)
EXTENDS Scope

CONSTANTS Programs,      \* what may be chosen
          Inner,         \* the scope of the combinator
          Left, Right,   \* the fibers of its effects
          Continuation,  \* the fiber raceWith() forks when one of them has ended
          Closer         \* the fiber that its scope.close() forks

ASSUME StructuredAssumption ==
  /\ Programs \subseteq {"scopes", "race", "zipPar", "collectAllPar", "raceWith"}
  /\ Inner \in Subs /\ Closer \in Callers
  /\ {Left, Right, Continuation} \subseteq Children
  /\ Cardinality({Left, Right, Continuation}) = 3
  /\ None \notin {"success", "failure"}

VARIABLES
  program,
  effects,      \* the fibers it forks: collectAllPar() may be given an empty list
  stage,        \* of the call, below
  order,        \* the fibers of the combinator that have ended, in order
  exit,         \* how they ended
  answer,       \* what the callback was given
  closeQueued,  \* the fiber of scope.close() is in the queue
  unheard       \* fibers whose joiners were not all told

callStateVars == <<effects, stage, order, exit, answer, closeQueued, unheard>>
combVars == <<program, callStateVars>>
allVars == <<vars, combVars>>

(***************************************************************************)
(* "before"    not called yet                                              *)
(* "refused"   subScope() threw, the outer scope was closed                *)
(* "waiting"   the effects run                                             *)
(* "continued" the continuation of raceWith() runs                         *)
(* "answered"  the callback was called                                     *)
(* "thrown"    the fork of the continuation threw inside a joiner          *)
(***************************************************************************)
CallStages == {"before", "refused", "waiting", "continued", "answered", "thrown"}
Exits == {"success", "failure"}

StructuredInit ==
  /\ Init
  /\ program \in Programs
  /\ effects \in IF program = "collectAllPar" THEN {{}, {Left, Right}} ELSE {{Left, Right}}
  /\ stage = "before" /\ order = <<>> /\ exit = [f \in Children |-> None]
  /\ answer = None /\ closeQueued = FALSE /\ unheard = {}

-----------------------------------------------------------------------------
(* The call *)

Called == program # "scopes" /\ Body \notin ended /\ stage = "before"

\* Sub-scope, forks and joins are one turn.
Calls ==
  /\ Called /\ phase[Root] = "open"
  /\ phase' = [phase EXCEPT ![Inner] = "open"]
  /\ parent' = [parent EXCEPT ![Inner] = Root]
  /\ subScopes' = [subScopes EXCEPT ![Root] = Append(@, Inner)]
  /\ owner' = [f \in Children |-> IF f \in effects THEN Inner ELSE owner[f]]
  /\ stage' = "waiting"
  /\ UNCHANGED <<finalizers, closeVars, callVars, ended, interrupted, ran, result,
                 program, effects, order, exit, answer, closeQueued, unheard>>

CallRefused ==
  /\ Called /\ phase[Root] # "open"
  /\ stage' = "refused"
  /\ UNCHANGED <<vars, program, effects, order, exit, answer, closeQueued, unheard>>

-----------------------------------------------------------------------------
(* The joiners *)

\* Mutant: the scope is not closed when the answer is given.
RespondOpen(x) ==
  /\ stage' = "answered" /\ answer' = x
  /\ UNCHANGED <<closeQueued, unheard, owner>>
\* scope.close(exit); cb(exit)
Respond(x) ==
  /\ stage' = "answered" /\ answer' = x /\ closeQueued' = TRUE
  /\ UNCHANGED <<unheard, owner>>
Ignored == UNCHANGED <<stage, answer, closeQueued, unheard, owner>>

Both(results) == IF \A f \in effects : results[f] = "success" THEN "success" ELSE "failure"

\* zipPar() looks at the exits when it has both, collectAllPar() at a failure
\* as soon as it comes.
TellZip(f) == IF effects \subseteq ended' THEN Respond(Both(exit')) ELSE Ignored
TellCollect(f) ==
  IF exit'[f] = "failure" \/ effects \subseteq ended' THEN Respond(exit'[f]) ELSE Ignored

\* raceWith() forks its continuation in the same scope.  If that is closed the
\* fork throws, out of the loop of notify(): the joiners behind this one, the
\* one of awaitAll() if it is there already, are not told.
TellRaceWith(f) ==
  IF phase[Inner] = "open"
  THEN /\ owner' = [owner EXCEPT ![Continuation] = Inner]
       /\ stage' = "continued" /\ UNCHANGED <<answer, closeQueued, unheard>>
  ELSE /\ stage' = "thrown"
       /\ unheard' = IF phase[Inner] = "children" THEN unheard \cup {f} ELSE unheard
       /\ UNCHANGED <<owner, answer, closeQueued>>

\* Once the call is decided, the joiners of the others do nothing.
Tell(f) ==
  CASE stage = "continued" /\ f = Continuation -> Respond(exit'[f])
    [] stage = "waiting" /\ program = "race" -> Respond(exit'[f])
    [] stage = "waiting" /\ program = "zipPar" -> TellZip(f)
    [] stage = "waiting" /\ program = "collectAllPar" -> TellCollect(f)
    [] stage = "waiting" /\ program = "raceWith" -> TellRaceWith(f)
    [] OTHER -> Ignored

\* A fiber of the combinator ends, not in a success once it was interrupted.
EffectEnds(f) ==
  /\ program # "scopes" /\ FiberEnds(f)
  /\ \E x \in Exits : /\ f \in interrupted => x = "failure"
                      /\ exit' = [exit EXCEPT ![f] = x]
  /\ order' = Append(order, f)
  /\ Tell(f)
  /\ UNCHANGED <<parent, subScopes, finalizers, program, effects>>

\* The fiber of scope.close() runs.
CloserRuns ==
  /\ closeQueued /\ closeQueued' = FALSE
  /\ UserCloses(Closer, Inner)
  /\ UNCHANGED <<program, effects, stage, order, exit, answer, unheard>>

-----------------------------------------------------------------------------
(* The scopes around it *)

\* The body waits for the answer, unless it is interrupted.
BodyMayEnd == program = "scopes" \/ Body \in interrupted \/ stage \in {"before", "refused", "answered"}

AwaitsUnheard(s) == phase[s] = "children" /\ kids[s] \cap unheard # {}
ClosingStep(s) == ~AwaitsUnheard(s) /\ ClosingStepOf(s) /\ UNCHANGED combVars

\* Without a combinator, anything an owner may do, with one child fiber.
OwnersAct ==
  \/ /\ program = "scopes"
     /\ OwnerSteps \/ UserCall \/ \E f \in Children : ChildEnds(f)
     /\ owner'[Right] = None /\ owner'[Continuation] = None
  \/ program # "scopes" /\ AddFinalizer(Root)

ScopeSteps == \/ OwnersAct \/ (BodyMayEnd /\ BodyEnds) \/ Cancel \/ GiveResult
              \/ \E c \in AllCallers : Answer(c)

StructuredNext ==
  \/ Calls \/ CallRefused \/ CloserRuns \/ \E f \in Children : EffectEnds(f)
  \/ \E s \in Scopes : ClosingStep(s)
  \/ ScopeSteps /\ UNCHANGED combVars
  \/ (Stopped \/ unheard # {}) /\ UNCHANGED allVars

\* Forked fibers are scheduled, a finalizer ends, and an interrupted fiber ends;
\* one that nobody interrupts may run for ever.
InterruptedEnds(f) ==
  f \in interrupted /\ (EffectEnds(f) \/ (program = "scopes" /\ ChildEnds(f) /\ UNCHANGED combVars))
StructuredSpec ==
  /\ StructuredInit /\ [][StructuredNext]_allVars
  /\ \A s \in Scopes : WF_allVars(ClosingStep(s))
  /\ \A c \in AllCallers : WF_allVars(Answer(c) /\ UNCHANGED combVars)
  /\ \A f \in Children : WF_allVars(InterruptedEnds(f))
  /\ WF_allVars(CloserRuns)

-----------------------------------------------------------------------------
(* Properties *)

CombinatorTypeOK ==
  /\ program \in Programs /\ effects \subseteq {Left, Right} /\ stage \in CallStages
  /\ exit \in [Children -> Exits \cup {None}] /\ answer \in Exits \cup {None}
  /\ ToSet(order) = {f \in Children : exit[f] # None} /\ unheard \subseteq ended

Failed(f) == exit[f] = "failure"

\* The answer is what the ends of the effects, in their order, justify.
AnswerJustified ==
  stage = "answered" =>
    CASE program = "race" -> answer = exit[order[1]]
      [] program = "raceWith" -> answer = exit[Continuation]
      [] OTHER -> /\ answer = "success" => \A f \in effects : exit[f] = "success"
                  /\ answer = "failure" => \E f \in effects : Failed(f)

\* A success is never put together from effects the combinator itself stopped.
SuccessUndisturbed ==
  answer = "success" /\ program \in {"zipPar", "collectAllPar"} => effects \cap interrupted = {}

\* As long as the caller waits, somebody runs who will answer it, unless there
\* was nothing to run.
SomebodyAnswers ==
  /\ stage = "waiting" /\ effects # {} => ~(effects \subseteq ended)
  /\ stage = "continued" => Continuation \notin ended

\* Once the answer is given no effect goes on without being stopped, now or by
\* the close that is queued (structuredConcurrency.ts:14 "el otro es cancelado"),
\* whoever else closes which scope when.
LosersStopped ==
  stage = "answered" => \A f \in Children :
    owner[f] = Inner /\ f \notin ended => f \in interrupted \/ (closeQueued /\ phase[Inner] = "open")

(* A combinator answers what its effects justify, never leaves its caller    *)
(* with nobody to answer, and leaves no effect running behind an answer.     *)
CombinatorExact ==
  CombinatorTypeOK /\ AnswerJustified /\ SuccessUndisturbed /\ SomebodyAnswers /\ LosersStopped

\* No close that began goes on for ever, and a combinator whose scope is being
\* closed answers.
CloseUnderWay == \E s \in Scopes : phase[s] \in ClosingPhases
StoppedUnanswered ==
  stage \in {"waiting", "continued"} /\ effects # {} /\ phase[Inner] # "open"

(* "Scope closure must eventually complete" (agent.md), combinators included, *)
(* unless the fork of a continuation threw before the close was told of the   *)
(* end of the fiber it awaits.  (A scope that is closed stays closed.)        *)
CloseTerminates == <>[](unheard # {} \/ ~(CloseUnderWay \/ StoppedUnanswered))

-----------------------------------------------------------------------------
(* The inductive invariant of CombinatorExact in StructuredProofs.         *)

\* Without a combinator there is nothing of it.
NoCall ==
  program = "scopes" =>
    stage = "before" /\ order = <<>> /\ exit = [f \in Children |-> None] /\ ~closeQueued

\* The fibers of the combinator: its effects and the continuation of raceWith(),
\* and nothing else under its scope.
FibersOK ==
  /\ \A f \in Children : f \in ended => owner[f] # None
  /\ program # "scopes" =>
       /\ stage \in {"before", "refused"} =>
            phase[Inner] = "absent" /\ \A f \in Children : owner[f] = None
       /\ stage \notin {"before", "refused"} => phase[Inner] # "absent"
       /\ \A f \in Children : owner[f] # None =>
            \/ f \in effects
            \/ f = Continuation /\ program = "raceWith" /\ stage \in {"continued", "answered"}
       /\ stage = "continued" => owner[Continuation] = Inner
       /\ stage \in {"continued", "thrown"} => program = "raceWith"
       /\ order \in Seq(Children) /\ ToSet(order) = ended \cap Children

\* Which ends it has seen.
ExitsOK ==
  /\ \A f \in Children : exit[f] = "success" => f \notin interrupted
  /\ stage = "waiting" /\ program \in {"race", "raceWith"} => order = <<>>
  /\ stage = "waiting" /\ program = "collectAllPar" => \A f \in effects : ~Failed(f)
  /\ stage # "answered" => answer = None
  /\ stage = "answered" => /\ order # <<>> /\ (closeQueued \/ Began(Inner))
                           /\ answer = "success" /\ program \in {"zipPar", "collectAllPar"}
                                => effects \subseteq ended
                           /\ program = "raceWith" => Continuation \in ended

CombInv ==
  CombinatorTypeOK /\ NoCall /\ FibersOK /\ ExitsOK /\ AnswerJustified /\ SomebodyAnswers
=============================================================================
