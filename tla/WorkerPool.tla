----------------------------- MODULE WorkerPool -----------------------------
(***************************************************************************)
(* The worker pool of core/runtime/workerPool.ts.  execute(fn) decides     *)
(* whether there is room when it is called; the effect it returns puts the *)
(* task into the queue when a fiber runs it.  A task leaves the queue for  *)
(* a macrotask of the host (setImmediate), by its timer, by the canceler   *)
(* of the fiber that waits for it, or by shutdown().                       *)
(*                                                                         *)
(* One task stands for one run of one effect: an effect that is run twice  *)
(* is two tasks built at the same moment.  Timers fire at any time while   *)
(* they are set.  run() is execute() with a function made from source.     *)
(***************************************************************************)
EXTENDS Integers, SequencesExt, FiniteSets

CONSTANTS Tasks, size, maxQueue

ASSUME WorkerPoolAssumption == size \in Nat /\ maxQueue \in Nat

VARIABLES
  closed, busy, queue,
  stats,          \* completed, failed, timedOut
  timer,          \* the tasks whose timeoutId is set and has not fired
  posted,         \* the tasks whose setImmediate callback has not run
  caller,         \* where that of a task is: "new", "built", "waiting", "told", "cancelled"
  verdicts        \* what a task's callback was called with, in order

poolVars == <<closed, busy, queue, stats, timer, posted, caller, verdicts>>

PoolInit ==
  /\ closed = FALSE /\ busy = 0 /\ queue = <<>> /\ timer = {} /\ posted = {}
  /\ stats = [completed |-> 0, failed |-> 0, timedOut |-> 0]
  /\ caller = [t \in Tasks |-> "new"] /\ verdicts = [t \in Tasks |-> <<>>]

-----------------------------------------------------------------------------
(* The queue and the slots *)

Queued(t) == t \in ToSet(queue)

\* indexOf() and splice().
Unqueue(t) == \E i \in DOMAIN queue : queue[i] = t /\ queue' = RemoveAt(queue, i)

\* processNext(), on the queue, the slots and the macrotasks its caller left.
ProcessNext(q, b, p) ==
  IF q = <<>> \/ b >= size THEN queue' = q /\ busy' = b /\ posted' = p
  ELSE queue' = Tail(q) /\ busy' = b + 1 /\ posted' = p \cup {Head(q)}

\* Every callback goes to the fiber, which drops it if it was cancelled.
Tell(t, v) ==
  /\ verdicts' = [verdicts EXCEPT ![t] = Append(@, v)]
  /\ caller' = [caller EXCEPT ![t] = IF @ = "waiting" THEN "told" ELSE @]

-----------------------------------------------------------------------------
(* Callers.  Mutant: a task that is only queued.                              *)

\* execute(): the checks, and an effect that fails at once or one that will queue.
Execute(t) ==
  /\ caller[t] = "new"
  /\ IF closed \/ Len(queue) >= maxQueue
     THEN /\ verdicts' = [verdicts EXCEPT ![t] = <<IF closed THEN "closed" ELSE "full">>]
          /\ caller' = [caller EXCEPT ![t] = "told"]
     ELSE UNCHANGED verdicts /\ caller' = [caller EXCEPT ![t] = "built"]
  /\ UNCHANGED <<closed, busy, queue, stats, timer, posted>>

\* The effect is run.
MutSubmitOnlyQueues(t) ==
  /\ caller[t] = "built" /\ caller' = [caller EXCEPT ![t] = "waiting"]
  /\ timer' = timer \cup {t} /\ queue' = Append(queue, t)
  /\ UNCHANGED <<closed, stats, verdicts, busy, posted>>
Submit(t) ==
  /\ caller[t] = "built" /\ caller' = [caller EXCEPT ![t] = "waiting"]
  /\ timer' = timer \cup {t}
  /\ ProcessNext(Append(queue, t), busy, posted)
  /\ UNCHANGED <<closed, stats, verdicts>>

\* The fiber is interrupted: the canceler takes the task out if it still waits.
Cancel(t) ==
  /\ caller[t] = "waiting" /\ caller' = [caller EXCEPT ![t] = "cancelled"]
  /\ \/ Unqueue(t) /\ timer' = timer \ {t}
     \/ ~Queued(t) /\ UNCHANGED <<queue, timer>>
  /\ UNCHANGED <<closed, busy, stats, posted, verdicts>>

-----------------------------------------------------------------------------
(* The host's timers and macrotasks, and shutdown.  Mutants: a timer that     *)
(* tells the task wherever it is, and a throw that keeps its worker.          *)

MutTimeoutAlways(t) ==
  /\ t \in timer /\ timer' = timer \ {t}
  /\ Unqueue(t) \/ (~Queued(t) /\ UNCHANGED queue)
  /\ stats' = [stats EXCEPT !.timedOut = @ + 1] /\ Tell(t, "timeout")
  /\ UNCHANGED <<closed, busy, posted>>
Timeout(t) ==
  /\ t \in timer /\ timer' = timer \ {t}
  /\ \/ Unqueue(t) /\ Tell(t, "timeout") /\ stats' = [stats EXCEPT !.timedOut = @ + 1]
     \/ ~Queued(t) /\ UNCHANGED <<queue, stats, verdicts, caller>>
  /\ UNCHANGED <<closed, busy, posted>>

\* The setImmediate callback: the function returns or throws.
MutRunKeepsSlotOnThrow(t) ==
  /\ t \in posted /\ timer' = timer \ {t} /\ UNCHANGED closed
  /\ \/ /\ Tell(t, "value") /\ stats' = [stats EXCEPT !.completed = @ + 1]
        /\ ProcessNext(queue, busy - 1, posted \ {t})
     \/ /\ Tell(t, "error") /\ stats' = [stats EXCEPT !.failed = @ + 1]
        /\ ProcessNext(queue, busy, posted \ {t})
Run(t) ==
  /\ t \in posted /\ timer' = timer \ {t} /\ UNCHANGED closed
  /\ \/ Tell(t, "value") /\ stats' = [stats EXCEPT !.completed = @ + 1]
     \/ Tell(t, "error") /\ stats' = [stats EXCEPT !.failed = @ + 1]
  /\ ProcessNext(queue, busy - 1, posted \ {t})

\* shutdown(), once or again: every queued task is told, the posted ones are left alone.
Shutdown ==
  /\ closed' = TRUE /\ queue' = <<>>
  /\ LET left == {t \in Tasks : Queued(t)} IN
       /\ timer' = timer \ left
       /\ verdicts' = [t \in Tasks |-> IF t \in left THEN Append(verdicts[t], "closed")
                                       ELSE verdicts[t]]
       /\ caller' = [t \in Tasks |-> IF t \in left THEN "told" ELSE caller[t]]
  /\ UNCHANGED <<busy, stats, posted>>

PoolNext == Shutdown \/ \E t \in Tasks : Execute(t) \/ Submit(t) \/ Cancel(t) \/ Timeout(t) \/ Run(t)

PoolSpec == PoolInit /\ [][PoolNext]_poolVars

\* The host runs every macrotask.  Nothing is assumed of the timers.
FairPoolSpec == PoolSpec /\ \A t \in Tasks : WF_poolVars(Run(t))

-----------------------------------------------------------------------------
(* Properties *)

PoolTypeOK ==
  /\ closed \in BOOLEAN /\ busy \in 0..size
  /\ queue \in Seq(Tasks) /\ stats \in [completed : Nat, failed : Nat, timedOut : Nat]
  /\ timer \subseteq Tasks /\ posted \subseteq Tasks
  /\ caller \in [Tasks -> {"new", "built", "waiting", "told", "cancelled"}]
  /\ verdicts \in [Tasks -> Seq({"full", "closed", "timeout", "value", "error"})]

\* No worker is idle while a task waits, whatever was cancelled, timed out or
\* threw: the count of busy workers, kept by hand in three places, is the number
\* of tasks handed to one.
NoIdleWorker == busy = Cardinality(posted) /\ (queue # <<>> => busy = size)

\* Whatever is in the queue is awaited by a fiber, once: a task that was
\* cancelled, that timed out or that shutdown() told is not there to be run.
QueueIsAwaited ==
  /\ \A t \in ToSet(queue) : caller[t] = "waiting" /\ t \notin posted
  /\ IsInjective(queue)

\* The pool's two hand-kept records, the count and the queue, are exact.
WorkersExact == NoIdleWorker /\ QueueIsAwaited

\* A timer that fires while its task is posted or done, a shutdown and a late
\* result never answer one task twice.
OneVerdict == \A t \in Tasks : Len(verdicts[t]) <= 1

\* Every waiting task is answered or cancelled, even if no timer ever fires.
\* (With no worker at all, only timers and shutdown() answer.)
EveryTaskAnswered == \A t \in Tasks : caller[t] = "waiting" ~> caller[t] # "waiting"

-----------------------------------------------------------------------------
(* The inductive invariant of BracketProofs *)

\* A task that may still be answered has not been; a posted one has a worker.
Unanswered ==
  /\ IsFiniteSet(posted)
  /\ \A t \in posted : caller[t] \in {"waiting", "cancelled"}
  /\ \A t \in Tasks : (caller[t] \in {"new", "built", "waiting"} \/ t \in posted) => verdicts[t] = <<>>

PoolInv == PoolTypeOK /\ NoIdleWorker /\ QueueIsAwaited /\ OneVerdict /\ Unanswered
=============================================================================
