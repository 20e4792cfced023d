----------------------------- MODULE HttpClient -----------------------------
(***************************************************************************)
(* Requests of one HTTP client with a circuit breaker, a connection pool   *)
(* and a request timeout: withCircuitBreaker (http/circuitBreaker.ts) over *)
(* runPoolTransport (http/client.ts) over HttpConcurrencyPool.             *)
(*                                                                         *)
(* The breaker's state and its requests are those of CircuitBreaker; a     *)
(* retry is a new request, as the middleware calls protect() for each.     *)
(* A grant or a refusal of the pool reaches the client through a promise,  *)
(* so a microtask later; an abort of the caller's signal also finishes in  *)
(* a microtask.  In between the caller's own code runs (it may abort or    *)
(* cancel any request, from the callback of another one).                  *)
(*                                                                         *)
(*   pool     the pool                                                     *)
(*   tasks    the microtasks: "settled" (the promise of acquire; flag: it  *)
(*            was an abort that refused it) and "abort" (the end of        *)
(*            abortFromPrevious; flag: it had captured a canceler)         *)
(*   holds    requests whose state.lease is set                            *)
(*   calling  transport calls that have not answered or been cancelled     *)
(*   cancels  requests with state.cancelInner set                          *)
(*   aborted  requests whose caller's signal was aborted                   *)
(*   late     history: aborted after the grant and before it was delivered *)
(***************************************************************************)
EXTENDS CircuitBreaker, HttpPool

\* The clients of the pool are the requests.
ASSUME ClientsAssumption == Clients = Requests

VARIABLES pool, tasks, holds, calling, cancels, aborted, late
clientVars == <<pool, tasks, holds, calling, cancels, aborted, late>>
httpVars == <<vars, clientVars>>

HttpInit == /\ Init
            /\ pool = EmptyPool /\ tasks = <<>>
            /\ holds = {} /\ calling = {} /\ cancels = {}
            /\ aborted = {} /\ late = {}

Done(r) == pc[r] = "ended"
Active(r) == pc[r] = "running"
Task(kind, r, flag) == [kind |-> kind, of |-> r, flag |-> flag]
Settled(p) == [i \in DOMAIN p.granted |-> Task("settled", p.granted[i], FALSE)]
Queued(r) == r \in ToSet(pool.queue)
Undelivered(r) == \E i \in DOMAIN tasks : tasks[i].kind = "settled" /\ tasks[i].of = r

\* The pool changes to p, whose grants are queued before the tasks of `more`.
PoolBecomes(p, first, more) ==
  /\ pool' = [p EXCEPT !.granted = <<>>]
  /\ tasks' = first \o Settled(p) \o more
PoolKept(first) == UNCHANGED pool /\ tasks' = first

\* finish(): the outcome is final, the breaker hears of it (an Abort does not
\* count as a failure, an interruption is not heard).
Finish(r, outcome) ==
  /\ pc' = [pc EXCEPT ![r] = "ended"]
  /\ CASE outcome = "success" -> OnSuccess
       [] outcome = "failure" -> OnFailure
       [] outcome = "abort" -> OnSuccess
       [] outcome = "interrupt" -> UNCHANGED breakerVars
  /\ NoteOpening
  /\ UNCHANGED <<runs, now>>
NotFinished == UNCHANGED <<breakerVars, requestVars, now, openSince>>

Calls(r) == calling' = calling \cup {r} /\ cancels' = cancels \cup {r}

-----------------------------------------------------------------------------
\* The middleware asks the breaker.
Admit(r) == Protect(r) /\ UNCHANGED clientVars

\* Its signal was aborted before: the pool is not asked and no timeout is set,
\* only the end of abortFromPrevious follows.
SentAborted(r) ==
  /\ aborted' = aborted \cup {r}
  /\ PoolKept(Append(tasks, Task("abort", r, FALSE)))
  /\ UNCHANGED <<holds, calling, cancels>>

\* A permit is taken at once, or the pool queues or refuses the request.  (A
\* transport that answers at once is one whose answer comes next.)
AsksPool(r) ==
  /\ CASE HasPermit(pool) ->
            /\ pool' = MakeLease(pool, r)
            /\ holds' = holds \cup {r} /\ Calls(r) /\ UNCHANGED tasks
       [] ~HasPermit(pool) /\ ~IsFull(pool) ->
            /\ pool' = Enqueue(pool, r)
            /\ UNCHANGED <<tasks, holds, calling, cancels>>
       [] OTHER -> /\ PoolKept(Append(tasks, Task("settled", r, FALSE)))
                   /\ UNCHANGED <<holds, calling, cancels>>
  /\ UNCHANGED aborted

\* runPoolTransport.
Send(r) == /\ pc[r] = "built" /\ Start(r)
           /\ SentAborted(r) \/ AsksPool(r)
           /\ UNCHANGED late

\* The transport answers; a request that is done no longer listens.
\* Mutant: the answer of a request that is done still reaches the breaker.
AnswerCounted(r) ==
  /\ r \in calling
  /\ calling' = calling \ {r} /\ cancels' = cancels \ {r}
  /\ PoolBecomes(Release(pool, r), tasks, <<>>)
  /\ \E outcome \in {"success", "failure"} : Finish(r, outcome)
  /\ UNCHANGED <<holds, aborted, late>>
Answer(r) ==
  /\ r \in calling
  /\ calling' = calling \ {r}
  /\ IF Done(r)
     THEN NotFinished /\ UNCHANGED <<pool, tasks, cancels>>
     ELSE /\ cancels' = cancels \ {r}
          /\ PoolBecomes(Release(pool, r), tasks, <<>>)
          /\ \E outcome \in {"success", "failure"} : Finish(r, outcome)
  /\ UNCHANGED <<holds, aborted, late>>

\* How a request ends whose promise was refused: with the pool's own error, or
\* with the abort that took it from the queue.
Refused(r, byAbort) == Finish(r, IF byAbort THEN "abort" ELSE "failure")

\* The first microtask runs: the pool's promise.
\* Mutant: a grant that comes too late is not given back.
DeliveredKept(r, byAbort) ==
  IF Done(r) THEN /\ PoolKept(Tail(tasks)) /\ NotFinished
                  /\ UNCHANGED <<holds, calling, cancels>>
  ELSE IF r \in pool.leased
  THEN PoolKept(Tail(tasks)) /\ NotFinished /\ holds' = holds \cup {r} /\ Calls(r)
  ELSE /\ PoolKept(Tail(tasks)) /\ UNCHANGED <<holds, calling, cancels>>
       /\ Refused(r, byAbort)
Delivered(r, byAbort) ==
  CASE Done(r) /\ r \in pool.leased ->        \* too late: give it back
         /\ PoolBecomes(Release(pool, r), Tail(tasks), <<>>)
         /\ NotFinished /\ UNCHANGED <<holds, calling, cancels>>
    [] Done(r) /\ r \notin pool.leased ->
         /\ PoolKept(Tail(tasks)) /\ NotFinished
         /\ UNCHANGED <<holds, calling, cancels>>
    [] ~Done(r) /\ r \in pool.leased ->
         /\ PoolKept(Tail(tasks)) /\ NotFinished
         /\ holds' = holds \cup {r} /\ Calls(r)
    [] OTHER ->
         /\ PoolKept(Tail(tasks)) /\ UNCHANGED <<holds, calling, cancels>>
         /\ Refused(r, byAbort)

\* The end of abortFromPrevious: it cancels what it had captured.
Aborts(r, cancel) ==
  /\ PoolKept(Tail(tasks))
  /\ IF Done(r) THEN NotFinished ELSE Finish(r, "abort")
  /\ calling' = IF cancel THEN calling \ {r} ELSE calling
  /\ cancels' = cancels \ {r} /\ UNCHANGED holds

Microtask ==
  /\ tasks # <<>>
  /\ LET t == Head(tasks)
     IN  \/ t.kind = "settled" /\ Delivered(t.of, t.flag)
         \/ t.kind = "abort" /\ Aborts(t.of, t.flag)
  /\ UNCHANGED <<aborted, late>>

-----------------------------------------------------------------------------
(* What a request does with the pool when it stops early: a waiter leaves  *)
(* the queue (and its promise is refused), a held lease is released.       *)
Withdrawn(r) ==
  IF Queued(r) THEN RemoveWaiter(pool, r)
  ELSE IF r \in holds THEN Release(pool, r)
  ELSE pool
Refusal(r, byAbort) == IF Queued(r) THEN <<Task("settled", r, byAbort)>> ELSE <<>>

\* The caller's signal is aborted.  The transport may answer the abort at once,
\* which finishes the request; else a microtask does.
CallerAborts(r) ==
  /\ Active(r) /\ r \notin aborted
  /\ aborted' = aborted \cup {r}
  /\ late' = IF r \in pool.leased \ holds THEN late \cup {r} ELSE late
  /\ cancels' = cancels \ {r} /\ holds' = holds \ {r}
  /\ \/ /\ NotFinished /\ UNCHANGED calling
        /\ PoolBecomes(Withdrawn(r), tasks,
                       Append(Refusal(r, TRUE), Task("abort", r, r \in cancels)))
     \/ /\ r \in calling /\ r \in holds
        /\ calling' = calling \ {r} /\ Finish(r, "abort")
        /\ PoolBecomes(Withdrawn(r), tasks, <<Task("abort", r, FALSE)>>)

\* The fiber that waits is interrupted, or the timeout fires (a macrotask): the
\* request is finished there and then.
Stops(r, outcome) ==
  /\ Active(r)
  /\ Finish(r, outcome)
  /\ PoolBecomes(Withdrawn(r), tasks, Refusal(r, TRUE))
  /\ calling' = IF r \in cancels THEN calling \ {r} ELSE calling
  /\ cancels' = cancels \ {r}
  /\ UNCHANGED aborted

CallerCancels(r) == Stops(r, "interrupt") /\ UNCHANGED <<holds, late>>
TimesOut(r) == /\ tasks = <<>>
               /\ Stops(r, "failure") /\ holds' = holds \ {r} /\ UNCHANGED late

\* The pool's own timeout for waiters.
QueueTimesOut(r) == /\ tasks = <<>> /\ Queued(r)
                    /\ PoolBecomes(RemoveWaiter(pool, r), tasks, Refusal(r, FALSE))
                    /\ NotFinished
                    /\ UNCHANGED <<holds, calling, cancels, aborted, late>>

HttpNext ==
  \/ \E r \in Requests : Admit(r)
  \/ \E r \in Requests : Send(r)
  \/ \E r \in Requests : Answer(r)
  \/ Microtask
  \/ \E r \in Requests : CallerAborts(r)
  \/ \E r \in Requests : CallerCancels(r)
  \/ \E r \in Requests : TimesOut(r)
  \/ \E r \in Requests : QueueTimesOut(r)
  \/ Reset /\ UNCHANGED clientVars
  \/ Tick /\ UNCHANGED clientVars

\* Microtasks run and transports answer; nobody has to abort, cancel or time out.
HttpFairness == /\ WF_httpVars(Microtask)
                /\ WF_httpVars(\E r \in Requests : Answer(r))
                /\ WF_httpVars(\E r \in Requests : Send(r))
HttpSpec == HttpInit /\ [][HttpNext]_httpVars /\ HttpFairness

-----------------------------------------------------------------------------
(* The counter of the pool is the number of leases out, never more than    *)
(* the limit, and nobody queues while a permit is free (pool.ts: abort,    *)
(* timeout, grant and release race for one waiter).                        *)
PoolExact == PoolExactIn(pool)

(* A request that is finished owns no permit once its microtasks have run, *)
(* unless it was aborted between the grant and its delivery: its transport *)
(* then answers a request that no longer listens.                          *)
LeaseReturned ==
  \A r \in Requests \ late : Done(r) /\ ~Undelivered(r) => r \notin pool.leased

(* Between two macrotasks the host never has more calls than permits.      *)
CallsHavePermits == tasks = <<>> => calling \subseteq pool.leased

(* Permits and calls go together: no permit without a request that still   *)
(* wants it, no call without a permit.                                     *)
LeasesFollowCalls == LeaseReturned /\ CallsHavePermits

(* Permits are handed out in order of arrival: neither a later waiter nor  *)
(* a newcomer overtakes the first of the queue, whoever leaves it early.   *)
GrantsInOrder ==
  [][\A r \in pool'.leased \ pool.leased :
       pool.queue # <<>> => r = Head(pool.queue)]_httpVars

(* The breaker is used as it is meant to be: to it, every step of the      *)
(* client is one of its own or none, so that what is proved of it holds    *)
(* here.  A request that was timed out, aborted or cancelled while its     *)
(* transport still answers must not be counted a second time.              *)
ImplementsBreaker == Spec

(* Every request ends without any timeout, as long as no abort falls       *)
(* between a grant and its delivery.                                       *)
EveryRequestEnds ==
  [](late = {}) => \A r \in Requests : (pc[r] = "built") ~> Done(r)
=============================================================================
