------------------------- MODULE PriorityScheduler -------------------------
(***************************************************************************)
(* The innermost layer of the HTTP request lifecycle (priorityScheduler.ts *)
(* over priorityQueue.ts): Concurrency slots, and a queue of the jobs that *)
(* found none.  The layer has no step of its own: it acts when the layer   *)
(* above registers, drops or times out a job, and when the wire answers.   *)
(* It is therefore a set of operators from one state of the layer to the   *)
(* next; Lifecycle keeps that state in a variable.                         *)
(*                                                                         *)
(*   inFlight  the counter of dispatched calls                             *)
(*   queue     the entries of the heap that are not cancelled (a cancelled *)
(*             entry is skipped wherever the heap is read)                 *)
(*   wire      the calls handed to the wire and not answered yet           *)
(*   heard     the jobs that were queued once: their abort listener is     *)
(*             never removed, so an abort of theirs ends them at once,     *)
(*             even when they have left the queue for the wire             *)
(***************************************************************************)
EXTENDS Integers, FiniteSets, FiniteSetsExt

CONSTANTS Jobs, Concurrency
ASSUME ConcurrencyAssumption == Concurrency \in Nat \ {0}

Entry == [job : Jobs, priority : Nat, arrivalOrder : Nat]
Schedulers == [inFlight : Int, queue : SUBSET Entry,
               wire : SUBSET Jobs, heard : SUBSET Jobs]

Idle == [inFlight |-> 0, queue |-> {}, wire |-> {}, heard |-> {}]

QueuedJobs(s) == {e.job : e \in s.queue}

\* comparePriority: a lower number is more urgent, ties go to the older entry.
Before(a, b) == \/ a.priority < b.priority
                \/ a.priority = b.priority /\ a.arrivalOrder < b.arrivalOrder

\* The order of arrival is all that matters of the heap's counter: the next
\* value only has to exceed those that are still queued.
Arrival(q) == Max({0} \cup {e.arrivalOrder + 1 : e \in q})

IsFirst(q, e) == e \in q /\ \A f \in q \ {e} : Before(e, f)
\* Mutant: the heap as a plain queue.
DequeuedByAge(q) == CHOOSE e \in q : \A f \in q : e.arrivalOrder <= f.arrivalOrder
Dequeued(q) == CHOOSE e \in q : IsFirst(q, e)

Dispatch(s, j) == [s EXCEPT !.inFlight = @ + 1, !.wire = @ \cup {j}]

Enqueue(s, j, p) ==
  [s EXCEPT !.queue = @ \cup {[job |-> j, priority |-> p,
                               arrivalOrder |-> Arrival(s.queue)]},
            !.heard = @ \cup {j}]

\* A call of the layer: a free slot is taken whoever is queued.
Register(s, j, p) ==
  IF s.inFlight < Concurrency THEN Dispatch(s, j) ELSE Enqueue(s, j, p)

\* The wire's answer frees one slot, so the loop of drainNext starts at most
\* one queued job.
DrainNext(s) ==
  IF s.inFlight < Concurrency /\ s.queue # {}
  THEN LET e == Dequeued(s.queue)
       IN  Dispatch([s EXCEPT !.queue = @ \ {e}], e.job)
  ELSE s
\* Mutants: the freed slot is not handed on; the counter is lowered twice
\* (once by the canceler, once by the answer).
OnCompleteNoDrain(s, j) == [s EXCEPT !.inFlight = @ - 1, !.wire = @ \ {j}]
OnCompleteTwice(s, j) ==
  DrainNext([s EXCEPT !.inFlight = @ - (IF j \in s.heard THEN 2 ELSE 1),
                      !.wire = @ \ {j}])
OnComplete(s, j) ==
  DrainNext([s EXCEPT !.inFlight = @ - 1, !.wire = @ \ {j}])

\* Cancel, abort or timeout of a queued job: its entry is marked cancelled.
Drop(s, j) == [s EXCEPT !.queue = {e \in @ : e.job # j}]

-----------------------------------------------------------------------------
(* One slot per call on the wire, never more than there are, and nobody    *)
(* queues while one is free: a slot lost on a cancelled or timed out job   *)
(* would shrink the client for good.                                       *)
SlotsExactIn(s) == /\ s.inFlight = Cardinality(s.wire)
                   /\ s.inFlight <= Concurrency
                   /\ s.queue # {} => s.inFlight = Concurrency
=============================================================================
