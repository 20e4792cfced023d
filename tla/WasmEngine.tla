----------------------------- MODULE WasmEngine -----------------------------
(***************************************************************************)
(* The fibers of the WebAssembly engine (core/runtime/engine/              *)
(* WasmFiberEngine.ts): the machine in Rust says what a fiber wants next,  *)
(* the engine performs it (an async registration, a host action with a     *)
(* deadline) and drives the fiber again from the ready queue when the      *)
(* answer is there.  A fiber's program is any sequence of requests;        *)
(* synchronous steps belong to the drive that makes them.                  *)
(*                                                                         *)
(* `engine` is a record:                                                   *)
(*   fiber      per fiber: status; step, how many requests it has made;    *)
(*              wants, the request it is suspended on; resume, the number  *)
(*              of the request whose answer is in pendingResumes (0: none);*)
(*              token, deadline: hostActionToken, deadlineTimerId          *)
(*   ready      the ready queue (one lane); scheduled, draining: the flags *)
(*              readyDrainScheduled and readyDraining; ran, budget: the    *)
(*              locals of drainReadyQueue                                  *)
(*   effects    pendingHostEffects                                         *)
(*   callbacks  async callbacks that are not `done`                        *)
(*   calls      host actions that have not answered                        *)
(*   timers     deadlines on the timer wheel                               *)
(*   lost       history: host actions whose fiber ended before the answer  *)
(* Code of a fiber (an interrupt, a callback, a fork) may run in the       *)
(* middle of a drain; promises and timers do not.                          *)
(***************************************************************************)
EXTENDS Naturals, SequencesExt

CONSTANTS Fibers,
          Capacity,      \* of the lane of the ready queue
          DrainBudget,   \* fibers of one drain
          MayRefuse,     \* the runtime's scheduler may drop the drain
          MaxSteps       \* bound of the requests of all fibers

ASSUME EngineAssumption ==
  /\ IsFiniteSet(Fibers) /\ Capacity \in Nat \ {0} /\ DrainBudget \in Nat \ {0}
  /\ MayRefuse \in BOOLEAN /\ MaxSteps \in Nat

VARIABLE engine

Unborn == [status |-> "unborn", step |-> 0, wants |-> "none", resume |-> 0,
           token |-> 0, deadline |-> 0]
EngineInit ==
  engine = [fiber |-> [f \in Fibers |-> Unborn], ready |-> <<>>,
            scheduled |-> FALSE, draining |-> FALSE, ran |-> 0, budget |-> 0,
            effects |-> 0, callbacks |-> {}, calls |-> {}, timers |-> {}, lost |-> 0]

Live(e, f) == e.fiber[f].status \in {"running", "suspended"}
InReady(e, f) == f \in ToSet(e.ready)
Of(set, f) == {x \in set : x.fiber = f}
Requests(e) == {r \in Fibers \X (1..MaxSteps) : r[2] <= e.fiber[r[1]].step}
Accepts == IF MayRefuse THEN BOOLEAN ELSE {TRUE}
Less(n, k) == IF k <= n THEN n - k ELSE 0          \* Math.max(0, n - k)

-----------------------------------------------------------------------------
\* complete*() with cleanupState(), for each of the fibers fs: pending asyncs are
\* cancelled, the deadline is taken from the wheel, a host action is left to
\* answer into the void.
Waiting(e, fs) == {f \in fs : e.fiber[f].wants = "action"}
Deadlines(e, fs) == {t \in e.timers : t.fiber \in fs /\ t.token = e.fiber[t.fiber].deadline}
Asyncs(e, fs) == {c \in e.callbacks : c.fiber \in fs}
Closed(r, how) == [r EXCEPT !.status = how, !.wants = "none", !.resume = 0, !.deadline = 0]

AllEnded(e, fs, how) ==
  [e EXCEPT !.fiber = [f \in Fibers |-> IF f \in fs THEN Closed(@[f], how) ELSE @[f]],
            !.callbacks = @ \ Asyncs(e, fs),
            !.timers = @ \ Deadlines(e, fs),
            !.effects = Less(@, Cardinality(Asyncs(e, fs))),
            !.lost = @ + Cardinality(Waiting(e, fs))]
Ended(e, f, how) == AllEnded(e, {f}, how)

\* requestReadyDrain: when the scheduler drops the drain every queued fiber fails.
RequestDrain(e, taken) ==
  CASE e.scheduled \/ e.draining -> e
    [] ~(e.scheduled \/ e.draining) /\ taken -> [e EXCEPT !.scheduled = TRUE]
    [] OTHER -> AllEnded([e EXCEPT !.ready = <<>>],
                         {f \in Fibers : InReady(e, f) /\ Live(e, f)}, "failed")

\* enqueueFiber: a full lane kills the fiber.
Enqueue(e, f, taken) ==
  IF Len(e.ready) >= Capacity THEN Ended(e, f, "failed")
  ELSE RequestDrain([e EXCEPT !.ready = Append(@, f)], taken)

\* resumeWithValue, resumeWithError.
Resume(e, f, n, taken) ==
  Enqueue([e EXCEPT !.fiber[f] = [@ EXCEPT !.status = "running", !.wants = "none",
                                           !.resume = n],
                    !.effects = Less(@, 1)], f, taken)

Suspend(e, f, kind) ==
  LET r == e.fiber[f]
  IN [e EXCEPT !.fiber[f] = [r EXCEPT !.status = "suspended", !.wants = kind,
                                      !.resume = 0, !.step = r.step + 1],
               !.effects = @ + 1]

-----------------------------------------------------------------------------
\* fork() and the first schedule().
Fork(f) ==
  /\ engine.fiber[f].status = "unborn"
  /\ \E taken \in Accepts :
       engine' = Enqueue([engine EXCEPT !.fiber[f].status = "running"], f, taken)

Interrupt(f) == Live(engine, f) /\ engine' = Ended(engine, f, "interrupted")

\* An async callback: the answer, or an exit that interrupts or kills the fiber.
AsyncAnswers(c) ==
  /\ c \in engine.callbacks
  /\ LET heard == [engine EXCEPT !.callbacks = @ \ {c}]
     IN \/ \E taken \in Accepts : engine' = Resume(heard, c.fiber, c.step, taken)
        \/ \E how \in {"interrupted", "failed"} :
             engine' = Ended([heard EXCEPT !.effects = Less(@, 1)], c.fiber, how)

\* The promise of a host action settles; an answer with an old token is ignored.
\* Mutant: only a fiber that has ended ignores it.
HostAnswersAnyToken(c) ==
  /\ c \in engine.calls /\ ~engine.draining
  /\ LET heard == [engine EXCEPT !.calls = @ \ {c}]
         f == c.fiber
     IN IF ~Live(engine, f) THEN engine' = heard
        ELSE \E taken \in Accepts :
               engine' = Resume([heard EXCEPT !.timers = @ \ Of(@, f),
                                              !.fiber[f].deadline = 0], f, c.step, taken)
HostAnswers(c) ==
  /\ c \in engine.calls /\ ~engine.draining
  /\ LET heard == [engine EXCEPT !.calls = @ \ {c}]
         f == c.fiber
     IN IF ~Live(engine, f) \/ engine.fiber[f].token # c.token
        THEN engine' = heard
        ELSE \E taken \in Accepts :
               engine' = Resume([heard EXCEPT
                                   !.timers = {t \in @ : ~(t.fiber = f /\ t.token = engine.fiber[f].deadline)},
                                   !.fiber[f].deadline = 0], f, c.step, taken)

\* onTimerExpired: the token moves on, so that the answer comes too late.
DeadlinePasses(t) ==
  /\ t \in engine.timers /\ ~engine.draining
  /\ LET gone == [engine EXCEPT !.timers = @ \ {t}]
         f == t.fiber
     IN IF ~Live(engine, f) \/ engine.fiber[f].deadline # t.token
        THEN engine' = gone
        ELSE \E taken \in Accepts :
               engine' = Resume([gone EXCEPT !.fiber[f].deadline = 0,
                                             !.fiber[f].token = @ + 1],
                                f, engine.fiber[f].step, taken)

-----------------------------------------------------------------------------
BeginDrain ==
  /\ engine.scheduled /\ ~engine.draining
  /\ engine' = [engine EXCEPT !.scheduled = FALSE, !.draining = TRUE, !.ran = 0,
                  !.budget = IF Len(engine.ready) < DrainBudget
                             THEN Len(engine.ready) ELSE DrainBudget]

\* drive(): what the machine asks for next.
Finishes(e, f) == \E how \in {"done", "failed"} : engine' = Ended(e, f, how)

AsksAsync(e, f) ==
  LET asked == Suspend(e, f, "async")
      n == asked.fiber[f].step
  IN \/ engine' = [asked EXCEPT !.callbacks = @ \cup {[fiber |-> f, step |-> n]}]
     \/ engine' = Resume(asked, f, n, TRUE)               \* answered at once
     \/ engine' = Ended([asked EXCEPT !.effects = Less(@, 1)], f, "interrupted")

AsksHost(e, f) ==
  LET asked == Suspend([e EXCEPT !.fiber[f].token = @ + 1], f, "action")
      token == asked.fiber[f].token
      call == [fiber |-> f, token |-> token, step |-> asked.fiber[f].step]
  IN \/ engine' = [asked EXCEPT !.calls = @ \cup {call}]
     \/ engine' = [asked EXCEPT !.calls = @ \cup {call},
                                !.fiber[f].deadline = token,
                                !.timers = @ \cup {[fiber |-> f, token |-> token]}]

\* The budget of the drive is used up: the fiber queues again.
Yields(e, f) ==
  LET r == e.fiber[f]
  IN engine' = Enqueue([e EXCEPT !.fiber[f] = [r EXCEPT !.resume = 0, !.step = r.step + 1]],
                       f, TRUE)

DriveNext ==
  /\ engine.draining /\ engine.ran < engine.budget /\ engine.ready # <<>>
  /\ LET f == Head(engine.ready)
         e == [engine EXCEPT !.ready = Tail(@), !.ran = @ + 1]
     IN IF ~Live(engine, f) THEN engine' = e              \* driveById: it is gone
        ELSE \/ Finishes(e, f)
             \/ Cardinality(Requests(e)) < MaxSteps
                /\ (AsksAsync(e, f) \/ AsksHost(e, f) \/ Yields(e, f))

\* Mutant: what was queued during the drain is forgotten.
EndDrainForgets ==
  /\ engine.draining /\ (engine.ran >= engine.budget \/ engine.ready = <<>>)
  /\ engine' = [engine EXCEPT !.draining = FALSE]
EndDrain ==
  /\ engine.draining /\ (engine.ran >= engine.budget \/ engine.ready = <<>>)
  /\ LET e == [engine EXCEPT !.draining = FALSE]
     IN IF e.ready = <<>> THEN engine' = e
        ELSE \E taken \in Accepts : engine' = RequestDrain(e, taken)

EngineNext ==
  \/ \E f \in Fibers : Fork(f)
  \/ \E f \in Fibers : Interrupt(f)
  \/ \E c \in engine.callbacks : AsyncAnswers(c)
  \/ \E c \in engine.calls : HostAnswers(c)
  \/ \E t \in engine.timers : DeadlinePasses(t)
  \/ BeginDrain
  \/ DriveNext
  \/ EndDrain

\* The scheduler runs what it accepted, the host answers.
Progress == \/ BeginDrain \/ DriveNext \/ EndDrain
            \/ \E c \in engine.callbacks : AsyncAnswers(c)
            \/ \E c \in engine.calls : HostAnswers(c)
EngineSpec == EngineInit /\ [][EngineNext]_engine /\ WF_engine(Progress)

-----------------------------------------------------------------------------
(* A live fiber that is not suspended is in the ready queue, one that is   *)
(* suspended is not, and none is there twice.  The machine repeats its     *)
(* last request to a suspended fiber that is driven, which would register  *)
(* the same async a second time.                                           *)
ReadyOnce ==
  \A f \in Fibers : Live(engine, f) =>
    Cardinality({i \in DOMAIN engine.ready : engine.ready[i] = f})
      = IF engine.fiber[f].status = "running" THEN 1 ELSE 0

(* A fiber is resumed with the answer to the request it made last and      *)
(* never by a host action that was timed out.                              *)
OwnAnswer ==
  \A f \in Fibers : engine.fiber[f].resume \in {0, engine.fiber[f].step}

(* Both: a fiber is driven when it has something to go on with, and once.  *)
DrivenOnce == ReadyOnce /\ OwnAnswer

(* Whoever is suspended has somebody who will answer, deadlines exist only *)
(* for the action the fiber waits for, and fibers in the queue have a      *)
(* drain coming.                                                           *)
SomebodyAnswers ==
  /\ \A f \in Fibers : engine.fiber[f].status = "suspended" =>
       \/ engine.fiber[f].wants = "async" /\ Of(engine.callbacks, f) # {}
       \/ engine.fiber[f].wants = "action"
          /\ \E c \in Of(engine.calls, f) : c.token = engine.fiber[f].token
  /\ \A t \in engine.timers : /\ engine.fiber[t.fiber].wants = "action"
                              /\ engine.fiber[t.fiber].deadline = t.token
  /\ engine.ready # <<>> => engine.scheduled \/ engine.draining

(* pendingHostEffects is the number of fibers that wait for the host plus  *)
(* the actions whose fiber was ended early, which nobody counts down.      *)
EffectsCounted ==
  engine.effects = engine.lost
                   + Cardinality({f \in Fibers : engine.fiber[f].status = "suspended"})

(* Both: what the engine holds of the host is what its fibers wait for.    *)
HostAccounted == SomebodyAnswers /\ EffectsCounted

(* A fiber is driven once per answer, with its own, and somebody owes one  *)
(* to every fiber that is not driven.                                      *)
DrivenByItsHost == DrivenOnce /\ HostAccounted

(* Every fiber ends, whatever the queue and the scheduler drop.            *)
EveryFiberEnds ==
  (\E f \in Fibers : Live(engine, f)) ~> (\A f \in Fibers : ~Live(engine, f))

-----------------------------------------------------------------------------
(* The inductive invariant.  X are the fibers in hand: taken out of the    *)
(* ready queue, or answered, and not queued yet; between steps there is    *)
(* none.                                                                   *)

FiberStates == [status : {"unborn", "running", "suspended", "done", "failed", "interrupted"},
                wants : {"none", "async", "action"},
                step : Nat, resume : Nat, token : Nat, deadline : Nat]
EngineStates ==
  [fiber : [Fibers -> FiberStates], ready : Seq(Fibers),
   scheduled : BOOLEAN, draining : BOOLEAN, ran : Nat, budget : Nat, effects : Nat,
   callbacks : SUBSET [fiber : Fibers, step : Nat],
   calls : SUBSET [fiber : Fibers, token : Nat, step : Nat],
   timers : SUBSET [fiber : Fibers, token : Nat], lost : Nat]

\* A fiber is queued exactly when it runs and is not in hand, unless it has
\* ended; one that is suspended has asked for one thing, which is under way.
FiberOK(e, f, X) ==
  LET r == e.fiber[f]
  IN /\ r.resume \in {0, r.step}
     /\ r.status # "suspended" => r.wants = "none"
     /\ r.status = "running" => InReady(e, f) \/ f \in X
     /\ f \in X => r.status = "running" /\ ~InReady(e, f)
     /\ InReady(e, f) => r.status \notin {"unborn", "suspended"}
     /\ r.status = "suspended" =>
          \/ r.wants = "async" /\ [fiber |-> f, step |-> r.step] \in e.callbacks
          \/ r.wants = "action" /\ \E c \in e.calls : c.fiber = f /\ c.token = r.token

\* What is under way belongs to a fiber that waits for it, but for a host
\* action, which may come too late and then has an old token.
CallbacksOK(e) ==
  \A c \in e.callbacks : LET r == e.fiber[c.fiber]
                          IN r.wants = "async" /\ r.step = c.step
TimersOK(e) ==
  \A t \in e.timers : LET r == e.fiber[t.fiber]
                       IN r.wants = "action" /\ r.deadline = t.token
CallsOK(e) ==
  /\ \A c \in e.calls : LET r == e.fiber[c.fiber]
                         IN /\ c.token <= r.token /\ r.status # "unborn"
                            /\ Live(e, c.fiber) /\ c.token = r.token
                                 => r.wants = "action" /\ c.step = r.step
  /\ \A c, d \in e.calls : c.fiber = d.fiber /\ c.token = d.token => c = d

Suspended(e) == {f \in Fibers : e.fiber[f].status = "suspended"}

EngineOK(e, X) ==
  /\ e \in EngineStates
  /\ \A f \in Fibers : FiberOK(e, f, X)
  /\ CallbacksOK(e) /\ TimersOK(e) /\ CallsOK(e)
  /\ IsInjective(e.ready)
  /\ e.effects = e.lost + Cardinality(Suspended(e))

\* Fibers in the queue have a drain coming.
DrainComes(e) == e.ready # <<>> => e.scheduled \/ e.draining

EngineInv == EngineOK(engine, {}) /\ DrainComes(engine)
=============================================================================
