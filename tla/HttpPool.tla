------------------------------ MODULE HttpPool ------------------------------
(***************************************************************************)
(* The connection pool of http/pool.ts for one key (keys share nothing):   *)
(* a count of granted leases and a queue of waiters.  As operators from    *)
(* one state of the pool to the next; HttpClient keeps that state.         *)
(*                                                                         *)
(*   running  the counter of granted permits                               *)
(*   queue    the waiters, in order of arrival                             *)
(*   leased   history: the requests whose lease was made and not released  *)
(*   granted  the waiters whose promise this operation resolved; empty     *)
(*            between operations                                           *)
(***************************************************************************)
EXTENDS Integers, Sequences, SequencesExt, FiniteSets

CONSTANTS Clients, PoolConcurrency, MaxQueue
ASSUME PoolAssumption == PoolConcurrency \in Nat \ {0} /\ MaxQueue \in Nat

EmptyPool == [running |-> 0, queue |-> <<>>, leased |-> {}, granted |-> <<>>]

HasPermit(p) == p.running < PoolConcurrency
IsFull(p) == Len(p.queue) >= MaxQueue

MakeLease(p, r) == [p EXCEPT !.running = @ + 1, !.leased = @ \cup {r}]
Enqueue(p, r) == [p EXCEPT !.queue = Append(@, r)]

\* A queued waiter goes when it is aborted or its queue timeout fires.
RemoveWaiter(p, r) == [p EXCEPT !.queue = RemoveFirst(@, r)]

\* drain(): one permit has become free.  (A waiter whose signal was aborted is
\* no longer in the queue: its listener removed it.)
\* The mutant serves the latest waiter.
DrainLatest(p) ==
  IF HasPermit(p) /\ p.queue # <<>>
  THEN [MakeLease([p EXCEPT !.queue = Front(@)], Last(p.queue))
          EXCEPT !.granted = <<Last(p.queue)>>]
  ELSE p
Drain(p) ==
  IF HasPermit(p) /\ p.queue # <<>>
  THEN [MakeLease([p EXCEPT !.queue = Tail(@)], Head(p.queue))
          EXCEPT !.granted = <<Head(p.queue)>>]
  ELSE p

\* Mutants: a lease that can be released again; a permit that is not passed on.
ReleaseAgain(p, r) ==
  Drain([p EXCEPT !.running = IF @ > 0 THEN @ - 1 ELSE @, !.leased = @ \ {r}])
ReleaseNoDrain(p, r) ==
  IF r \notin p.leased THEN p
  ELSE [p EXCEPT !.running = @ - 1, !.leased = @ \ {r}]

\* release() of a lease, which only counts once.
Release(p, r) ==
  IF r \notin p.leased THEN p
  ELSE Drain([p EXCEPT !.running = IF @ > 0 THEN @ - 1 ELSE @,
                       !.leased = @ \ {r}])

-----------------------------------------------------------------------------
PoolExactIn(p) == /\ p.running = Cardinality(p.leased)
                  /\ p.running <= PoolConcurrency
                  /\ p.queue # <<>> => p.running = PoolConcurrency
=============================================================================
