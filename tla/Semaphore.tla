----------------------------- MODULE Semaphore -----------------------------
(***************************************************************************)
(* The counting semaphore of core/runtime/semaphore.ts, used by fibers     *)
(* that each evaluate one  sem.withPermit(effect).                         *)
(*                                                                         *)
(* A fiber advances one evaluator operation per action.  Between two       *)
(* operations the evaluator may run out of its operation budget and go     *)
(* back to the scheduler queue, so any other fiber, and any interrupt, can *)
(* come in between: that is the interleaving this module explores.         *)
(***************************************************************************)
EXTENDS Integers, Sequences, FiniteSets, SequencesExt

CONSTANTS Fibers,    \* the fibers that call withPermit
          Capacity   \* makeSemaphore(n): max(1, floor(n)) permits

ASSUME CapacityAssumption == Capacity \in Nat \ {0}
ASSUME FibersAssumption == IsFiniteSet(Fibers)

VARIABLES available,    \* permits in the pool
          waiters,      \* FIFO queue of suspended acquire() registrations
          pc,           \* where each fiber stands inside withPermit
          interrupted,  \* fibers whose interrupted flag is raised
          holders       \* fibers counted in totalAcquired, not in totalReleased

vars == <<available, waiters, pc, interrupted, holders>>

(***************************************************************************)
(* "acquire"  about to register acquire()                                  *)
(* "waiting"  suspended, its callback in the waiters queue                 *)
(* "granted"  the permit is counted as taken, the release finalizer is not *)
(*            registered yet                                               *)
(* "effect"   finalizer registered, the protected effect not yet started   *)
(* "running"  suspended inside the protected effect                        *)
(* "settled"  the effect's answer is in, the fold handler has not run      *)
(* "released" releaseOnce ran in the fold handler, fiber not yet finished  *)
(* "done"     the fiber has its result                                     *)
(***************************************************************************)
Stages == {"acquire", "waiting", "granted", "effect", "running", "settled",
           "released", "done"}

\* Stages at which the effect of this fiber counts as running concurrently.
Inside(f) == pc[f] \in {"effect", "running", "settled"}

Init ==
  /\ available = Capacity
  /\ waiters = <<>>
  /\ pc = [f \in Fibers |-> "acquire"]
  /\ interrupted = {}
  /\ holders = {}

\* Mutants of release(): back to the pool whoever waits; to the pool and to a
\* waiter.
MutReleaseToPool(f, next) ==
  /\ available' = available + 1
  /\ pc' = [pc EXCEPT ![f] = next]
  /\ holders' = holders \ {f}
  /\ UNCHANGED waiters
MutReleaseTwice(f, next) ==
  /\ waiters' = IF waiters = <<>> THEN <<>> ELSE Tail(waiters)
  /\ pc' = [g \in Fibers |-> CASE g = f -> next
                               [] waiters # <<>> /\ g = Head(waiters) -> "granted"
                               [] OTHER -> pc[g]]
  /\ holders' = (holders \ {f}) \union {g \in Fibers : pc'[g] = "granted"}
  /\ available' = available + 1
\* release() called by f, which goes on to stage next: the permit goes straight
\* to the oldest waiter, or back to the pool.
Release(f, next) ==
  \/ /\ waiters # <<>>
     /\ waiters' = Tail(waiters)
     /\ pc' = [pc EXCEPT ![f] = next, ![Head(waiters)] = "granted"]
     /\ holders' = (holders \ {f}) \union {Head(waiters)}
     /\ UNCHANGED available
  \/ /\ waiters = <<>>
     /\ available' = available + 1
     /\ pc' = [pc EXCEPT ![f] = next]
     /\ holders' = holders \ {f}
     /\ UNCHANGED waiters

Running(f) == f \notin interrupted

(***************************************************************************)
(* acquire(): fast path when a permit is available, else queue the waiter. *)
(***************************************************************************)
Acquire(f) ==
  /\ pc[f] = "acquire" /\ Running(f)
  /\ \/ /\ available > 0
        /\ available' = available - 1
        /\ pc' = [pc EXCEPT ![f] = "granted"]
        /\ holders' = holders \union {f}
        /\ UNCHANGED waiters
     \/ /\ available = 0
        /\ waiters' = Append(waiters, f)
        /\ pc' = [pc EXCEPT ![f] = "waiting"]
        /\ UNCHANGED <<available, holders>>
  /\ UNCHANGED interrupted

\* The second half of acquirePermit: register releaseOnce as a fiber finalizer.
RegisterRelease(f) ==
  /\ pc[f] = "granted" /\ Running(f)
  /\ pc' = [pc EXCEPT ![f] = "effect"]
  /\ UNCHANGED <<available, waiters, interrupted, holders>>

\* The protected effect starts and suspends on an asynchronous operation.
StartEffect(f) ==
  /\ pc[f] = "effect" /\ Running(f)
  /\ pc' = [pc EXCEPT ![f] = "running"]
  /\ UNCHANGED <<available, waiters, interrupted, holders>>

\* The outside world answers, with a success or a failure: both fold handlers
\* call releaseOnce.  An interrupted fiber still receives the answer.
Settle(f) ==
  /\ pc[f] = "running"
  /\ pc' = [pc EXCEPT ![f] = "settled"]
  /\ UNCHANGED <<available, waiters, interrupted, holders>>

ReleaseOnce(f) ==
  /\ pc[f] = "settled" /\ Running(f)
  /\ Release(f, "released")
  /\ UNCHANGED interrupted

\* The fiber ends; releaseOnce runs again as a finalizer and does nothing.
Finish(f) ==
  /\ pc[f] = "released" /\ Running(f)
  /\ pc' = [pc EXCEPT ![f] = "done"]
  /\ UNCHANGED <<available, waiters, interrupted, holders>>

\* Fiber.interrupt(): raise the flag and queue a step, at any time.
Interrupt(f) ==
  /\ pc[f] # "done" /\ f \notin interrupted
  /\ interrupted' = interrupted \union {f}
  /\ UNCHANGED <<available, waiters, pc, holders>>

\* Mutant of the interrupt step: the canceler does not find its node.
MutInterruptKeepsNode(f) ==
  /\ f \in interrupted /\ pc[f] # "done"
  /\ \/ Inside(f) /\ Release(f, "done")
     \/ /\ ~Inside(f)
        /\ pc' = [pc EXCEPT ![f] = "done"]
        /\ UNCHANGED <<available, waiters, holders>>
  /\ UNCHANGED interrupted

(***************************************************************************)
(* The step that finds the flag: the continuations are discarded and the   *)
(* finalizers run.  They are the canceler of a suspended acquire, which    *)
(* takes the waiter out of the queue, or the registered releaseOnce.  A    *)
(* fiber at "granted" has neither: its canceler is disarmed because the    *)
(* callback has fired, and its release is not registered.                  *)
(***************************************************************************)
InterruptStep(f) ==
  /\ f \in interrupted /\ pc[f] # "done"
  /\ \/ Inside(f) /\ Release(f, "done")
     \/ /\ pc[f] = "waiting"
        /\ \E i \in DOMAIN waiters : waiters[i] = f /\ waiters' = RemoveAt(waiters, i)
        /\ pc' = [pc EXCEPT ![f] = "done"]
        /\ UNCHANGED <<available, holders>>
     \/ /\ pc[f] \in {"acquire", "granted", "released"}
        /\ pc' = [pc EXCEPT ![f] = "done"]
        /\ UNCHANGED <<available, waiters, holders>>
  /\ UNCHANGED interrupted

FiberStep(f) == \/ Acquire(f) \/ RegisterRelease(f) \/ StartEffect(f)
                \/ ReleaseOnce(f) \/ Finish(f) \/ InterruptStep(f)

AllDone == \A f \in Fibers : pc[f] = "done"

Next == \/ \E f \in Fibers : FiberStep(f) \/ Settle(f) \/ Interrupt(f)
        \/ AllDone /\ UNCHANGED vars

Spec == Init /\ [][Next]_vars

-----------------------------------------------------------------------------
TypeOK ==
  /\ available \in 0..Capacity
  /\ waiters \in Seq(Fibers)
  /\ pc \in [Fibers -> Stages]
  /\ interrupted \subseteq Fibers
  /\ holders \subseteq Fibers

\* No permit is invented or forgotten by the accounting: every permit is in
\* the pool or with exactly one fiber that took it and has not given it back.
\* A second release by one fiber (fold handler, then finalizer) would break it.
PermitsConserved == available + Cardinality(holders) = Capacity

\* semaphore.ts:4 "at most n effects run concurrently", across interrupts,
\* hand-overs and late answers.
AtMostCapacity == Cardinality({f \in Fibers : Inside(f)}) <= Capacity

\* The pool is never non-empty while somebody queues for a permit: a release
\* with waiters hands over instead of incrementing, so no wake-up is lost.
NoIdlePermit == available > 0 => waiters = <<>>

\* The queue holds exactly the fibers suspended in acquire, each once: a
\* canceler that missed its node would leave a dead fiber to swallow a permit.
QueueIsTheWaiting ==
  /\ \A f \in Fibers : pc[f] = "waiting" <=> f \in ToSet(waiters)
  /\ IsInjective(waiters)

\* Both together: no permit lies idle and none goes to a fiber that left.
NoLostWakeup == NoIdlePermit /\ QueueIsTheWaiting

\* Who holds a permit: a fiber past acquire that has not released, or one that
\* was interrupted out of the window between the two halves of acquirePermit.
HoldersByStage ==
  \A f \in Fibers : /\ Inside(f) \/ pc[f] = "granted" => f \in holders
                    /\ f \in holders => Inside(f) \/ pc[f] \in {"granted", "done"}

\* The inductive invariant behind the safety properties.
IInv == TypeOK /\ PermitsConserved /\ QueueIsTheWaiting /\ NoIdlePermit /\ HoldersByStage

\* The permits of fibers that are over and never released.
Leaked == {f \in holders : pc[f] = "done"}

\* Every fiber gets through withPermit, or is interrupted out of it, unless a
\* permit leaked before.
EveryoneFinishes == <>(AllDone \/ Leaked # {})
=============================================================================
