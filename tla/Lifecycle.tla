----------------------------- MODULE Lifecycle -----------------------------
(***************************************************************************)
(* The HTTP request lifecycle: the layers of lifecycleClient.ts around one *)
(* wire client, composed as makeLifecycleClient composes them (innermost   *)
(* first): priority scheduler, retry, cache, batch, deduplication.         *)
(*                                                                         *)
(* Requests of a safe method (Getters) go through deduplication, cache and *)
(* retry and are never batched; the others (Posters) share one batch key   *)
(* and bypass deduplication, cache and retry.  All share the scheduler.    *)
(*                                                                         *)
(* A job is one call of the layers below deduplication and batch.  It is   *)
(* named by the request that began it (the first of its key, the creator   *)
(* of its group); the job of key k is the background revalidation of k.    *)
(*                                                                         *)
(*   pc        where a request is: "idle", "waiting", "done"               *)
(*   answer    what a batched request was told: "none", "failed",          *)
(*             "interrupted", or the request whose part of the response it *)
(*             received (a safe request receives the whole response)       *)
(*   inFlight  the deduplication entry of a key: its job, or NoJob         *)
(*   waiters   the requests attached to a job, in order of arrival; their  *)
(*             number is the reference count of an entry                   *)
(*   group     the batch group that still collects (its timer runs)        *)
(*   sent      the requests a dispatched group was coalesced from          *)
(*   live      jobs that have not ended; aborted: those whose controller   *)
(*             was told to abort; sleeping: those between two attempts     *)
(*   sched, cache  the states of the two layers below                      *)
(***************************************************************************)
EXTENDS PriorityScheduler, ResponseCache, TLC

CONSTANTS Getters, Posters, KeyOf, Priority, MaxRetries, MaxBatchSize, NoJob,
          Earlier   \* who arrives before a request: those alike but for their names
                    \* may be put in an order

Requests == Getters \cup Posters
ASSUME LifecycleAssumption ==
  /\ Jobs = Requests \cup Keys /\ NoJob \notin Jobs
  /\ Getters \cap Posters = {} /\ Keys \cap Requests = {}
  /\ Posters \cap {"none", "failed", "interrupted"} = {}
  /\ MaxRetries \in Nat /\ MaxBatchSize \in Nat
  /\ KeyOf \in [Getters -> Keys] /\ Priority \in [Jobs -> 0..9]
  /\ Earlier \in [Requests -> SUBSET Requests]

VARIABLES pc, answer, inFlight, waiters, group, sent, live, aborted, sleeping,
          attempt, sched, cache
vars == <<pc, answer, inFlight, waiters, group, sent, live, aborted, sleeping,
          attempt, sched, cache>>
callers == <<pc, answer>>
batching == <<group, sent>>

TypeOK == /\ pc \in [Requests -> {"idle", "waiting", "done"}]
          /\ inFlight \in [Keys -> Getters \cup {NoJob}]
          /\ group \in Posters \cup {NoJob}
          /\ live \subseteq Jobs /\ aborted \subseteq Requests
          /\ sleeping \subseteq Jobs /\ attempt \in [Jobs -> 0..MaxRetries]
          /\ sched \in Schedulers

Init == /\ pc = [r \in Requests |-> "idle"]
        /\ answer = [r \in Posters |-> "none"]
        /\ inFlight = [k \in Keys |-> NoJob]
        /\ waiters = [j \in Jobs |-> <<>>]
        /\ group = NoJob /\ sent = [j \in Posters |-> <<>>]
        /\ live = {} /\ aborted = {} /\ sleeping = {}
        /\ attempt = [j \in Jobs |-> 0]
        /\ sched = Idle /\ cache = EmptyCache

Arrives(r) == pc[r] = "idle" /\ \A q \in Earlier[r] : pc[q] # "idle"

Attached(j) == Range(waiters[j])
JobOf(r) == CHOOSE j \in Jobs : r \in Attached(j)

\* Ending a request: its caller is told.
Told(rs, what) ==
  /\ pc' = [r \in Requests |-> IF r \in rs THEN "done" ELSE pc[r]]
  /\ answer' = [r \in Posters |-> IF r \in rs THEN what[r] ELSE answer[r]]

\* A retried attempt is one step more urgent than the request.
PriorityOf(j, n) ==
  IF n = 0 \/ Priority[j] = 0 THEN Priority[j] ELSE Priority[j] - 1

BeginJob(j) == /\ live' = live \cup {j}
               /\ sched' = Register(sched, j, PriorityOf(j, 0))
NoNewJob == UNCHANGED <<live, sched>>

-----------------------------------------------------------------------------
(* A safe request arrives: it joins the entry of its key, or is answered   *)
(* from the cache (an old answer starts a revalidation, one per key), or   *)
(* becomes the entry of its key.                                           *)
Join(r, k) == /\ inFlight[k] # NoJob
              /\ waiters' = [waiters EXCEPT ![inFlight[k]] = Append(@, r)]
              /\ pc' = [pc EXCEPT ![r] = "waiting"]
              /\ NoNewJob
              /\ UNCHANGED <<answer, inFlight, cache>>

AnswerFromCache(r, k) ==
  /\ inFlight[k] = NoJob
  /\ Lookup(cache, k) # "miss"
  /\ cache' = LruGet(cache, k)
  /\ Told({r}, [x \in {r} |-> "ok"])
  /\ IF Lookup(cache, k) = "stale" /\ k \notin live THEN BeginJob(k) ELSE NoNewJob
  /\ UNCHANGED <<inFlight, waiters>>

Fetch(r, k) == /\ inFlight[k] = NoJob
               /\ Lookup(cache, k) = "miss"
               /\ cache' = LruGet(cache, k)
               /\ inFlight' = [inFlight EXCEPT ![k] = r]
               /\ waiters' = [waiters EXCEPT ![r] = <<r>>]
               /\ pc' = [pc EXCEPT ![r] = "waiting"]
               /\ BeginJob(r)
               /\ UNCHANGED answer

Get(r) == /\ Arrives(r)
          /\ LET k == KeyOf[r]
             IN  Join(r, k) \/ AnswerFromCache(r, k) \/ Fetch(r, k)
          /\ UNCHANGED <<batching, aborted, sleeping, attempt>>

(* An unsafe request arrives: it opens a group, or joins the open one,     *)
(* which is dispatched at once when that fills it.                         *)
DispatchGroup(g, members) == /\ group' = NoJob
                             /\ sent' = [sent EXCEPT ![g] = members]
                             /\ BeginJob(g)

OpenGroup(r) == /\ group = NoJob
                /\ group' = r
                /\ waiters' = [waiters EXCEPT ![r] = <<r>>]
                /\ UNCHANGED sent /\ NoNewJob
JoinGroup(r) == /\ group # NoJob
                /\ waiters' = [waiters EXCEPT ![group] = Append(@, r)]
                /\ IF Len(waiters'[group]) >= MaxBatchSize
                   THEN DispatchGroup(group, waiters'[group])
                   ELSE UNCHANGED batching /\ NoNewJob
Post(r) == /\ Arrives(r)
           /\ pc' = [pc EXCEPT ![r] = "waiting"]
           /\ OpenGroup(r) \/ JoinGroup(r)
           /\ UNCHANGED <<answer, inFlight, aborted, sleeping, attempt, cache>>

\* The timer of the open group; an emptied group has no timer.
BatchWindow == /\ group # NoJob
               /\ DispatchGroup(group, waiters[group])
               /\ UNCHANGED <<callers, inFlight, waiters, aborted, sleeping, attempt, cache>>

-----------------------------------------------------------------------------
(* A job ends.  Its entry is deleted by key, whichever entry that is now.  *)
(* A batched response is handed out by position among the present waiters. *)
IndexOf(j, r) == CHOOSE i \in 1..Len(waiters[j]) : waiters[j][i] = r
EntryGone(j) == inFlight' = IF j \notin Getters THEN inFlight
                            ELSE [inFlight EXCEPT ![KeyOf[j]] = NoJob]

Stored(j) == CASE j \in Getters -> StoreFetched(cache, KeyOf[j])
               [] j \in Keys -> StoreRevalidated(cache, j)
               [] j \in Posters -> cache

Part(j, r) == IF j \in Posters THEN sent[j][IndexOf(j, r)] ELSE "ok"

EndJob(j, outcome) ==
  /\ live' = live \ {j}
  /\ sleeping' = sleeping \ {j}
  /\ attempt' = [attempt EXCEPT ![j] = 0]
  /\ EntryGone(j)
  /\ waiters' = [waiters EXCEPT ![j] = <<>>]
  /\ Told(Attached(j), [r \in Attached(j) |->
                            IF outcome = "ok" THEN Part(j, r) ELSE "failed"])
  /\ cache' = IF outcome = "ok" THEN Stored(j) ELSE cache
  /\ UNCHANGED <<batching, aborted>>

\* An attempt ended without a final answer: retry sleeps, unless the method is
\* not retried or the attempts are used up.
Retried(j) == j \notin Posters /\ attempt[j] < MaxRetries
AttemptFails(j) ==
  IF Retried(j)
  THEN /\ sleeping' = sleeping \cup {j}
       /\ UNCHANGED <<callers, inFlight, waiters, batching, live, aborted,
                      attempt, cache>>
  ELSE EndJob(j, "failed")

\* The wire answers.  A job that was ended by its abort listener while on the
\* wire is no longer live: its answer only frees the slot.
WireAnswers(j, outcome) ==
  /\ j \in sched.wire
  /\ sched' = OnComplete(sched, j)
  /\ CASE j \notin live -> UNCHANGED <<callers, inFlight, waiters, batching,
                                       live, aborted, sleeping, attempt, cache>>
       [] j \in live /\ outcome = "retryable" -> AttemptFails(j)
       [] OTHER -> EndJob(j, outcome)

\* queueTimeoutMs passes: PoolTimeout, which is retried like a fetch error.
QueueTimeout(j) == /\ j \in QueuedJobs(sched)
                   /\ sched' = Drop(sched, j)
                   /\ AttemptFails(j)

\* The sleep before the next attempt ends.  A job aborted meanwhile is only
\* noticed if it has to queue.
Wake(j) ==
  /\ j \in sleeping
  /\ IF j \in aborted /\ sched.inFlight >= Concurrency
     THEN EndJob(j, "failed") /\ UNCHANGED sched
     ELSE /\ sleeping' = sleeping \ {j}
          /\ attempt' = [attempt EXCEPT ![j] = @ + 1]
          /\ sched' = Register(sched, j, PriorityOf(j, attempt[j] + 1))
          /\ UNCHANGED <<callers, inFlight, waiters, batching, live, aborted, cache>>

-----------------------------------------------------------------------------
(* A caller cancels.  The last one of a job aborts it.  A job that has     *)
(* heard (it was queued once) ends there and then; otherwise the initiator *)
(* of an entry cancels the call itself, and any other last caller leaves   *)
(* it to the wire to notice the abort.                                     *)
Ends(j) == /\ live' = live \ {j} /\ sleeping' = sleeping \ {j}
           /\ attempt' = [attempt EXCEPT ![j] = 0]
EndsByListener(j) == Ends(j) /\ sched' = Drop(sched, j)
EndsByCanceler(j) ==
  /\ Ends(j)
  /\ sched' = IF j \in sched.wire THEN OnComplete(sched, j) ELSE sched
LeftToTheWire == UNCHANGED <<live, sleeping, attempt, sched>>

Abandon(r, j) ==
  /\ aborted' = aborted \cup {j}
  /\ CASE j \in sched.heard -> EndsByListener(j)
       [] j \notin sched.heard /\ r = j /\ j \in Getters -> EndsByCanceler(j)
       [] OTHER -> LeftToTheWire
Stays == UNCHANGED <<aborted, live, sleeping, attempt, sched>>

Detach(r, j) ==
  /\ waiters' = [waiters EXCEPT ![j] = RemoveFirst(@, r)]
  /\ Told({r}, [x \in {r} |-> "interrupted"])
  /\ UNCHANGED <<cache, sent>>

\* Mutant: any caller that leaves takes the entry of the key with it.
CancelGetTakesEntry(r) ==
  /\ pc[r] = "waiting" /\ r \in Getters
  /\ LET j == JobOf(r)
     IN  /\ Detach(r, j) /\ EntryGone(j)
         /\ IF Attached(j) = {r} THEN Abandon(r, j) ELSE Stays
  /\ UNCHANGED group
CancelGet(r) ==
  /\ pc[r] = "waiting" /\ r \in Getters
  /\ LET j == JobOf(r)
     IN  /\ Detach(r, j)
         /\ IF Attached(j) = {r} THEN EntryGone(j) /\ Abandon(r, j)
                                 ELSE UNCHANGED inFlight /\ Stays
  /\ UNCHANGED group

CancelPost(r) ==
  /\ pc[r] = "waiting" /\ r \in Posters
  /\ LET j == JobOf(r)
     IN  /\ Detach(r, j)
         /\ CASE Attached(j) # {r} -> Stays /\ UNCHANGED group
              [] Attached(j) = {r} /\ group = j -> Stays /\ group' = NoJob
              [] OTHER -> Abandon(r, j) /\ UNCHANGED group
  /\ UNCHANGED inFlight

\* The client's invalidate, and time.
Invalidate(k) == /\ Held(cache, k)
                 /\ cache' = InvalidateKey(cache, k)
                 /\ UNCHANGED <<callers, inFlight, waiters, batching, live, aborted,
                                sleeping, attempt, sched>>
Age(k) == /\ cache' \in Aged(cache, k)
          /\ UNCHANGED <<callers, inFlight, waiters, batching, live, aborted,
                         sleeping, attempt, sched>>

Next == \/ \E r \in Getters : Get(r)
        \/ \E r \in Posters : Post(r)
        \/ BatchWindow
        \/ \E j \in Jobs, o \in {"ok", "retryable", "failed"} : WireAnswers(j, o)
        \/ \E j \in Jobs : QueueTimeout(j)
        \/ \E j \in Jobs : Wake(j)
        \/ \E r \in Requests : CancelGet(r)
        \/ \E r \in Requests : CancelPost(r)
        \/ \E k \in Keys : Invalidate(k)
        \/ \E k \in Keys : Age(k)

\* Timers fire and every call on the wire ends, if only by its timeout: while
\* one of these can happen, one does.
Progress == \/ BatchWindow
            \/ \E j \in Jobs, o \in {"ok", "retryable", "failed"} : WireAnswers(j, o)
            \/ \E j \in Jobs : Wake(j)
Spec == Init /\ [][Next]_vars /\ WF_vars(Progress)

-----------------------------------------------------------------------------
(* The counter of the priority layer is the number of calls on the wire,   *)
(* and a job queues only while every slot is taken (priorityScheduler.ts:  *)
(* a cancelled, aborted or timed out job must neither keep nor give back a *)
(* slot it does not hold).                                                 *)
SlotsExact == SlotsExactIn(sched)

(* Nobody waits for nothing: a waiting request is attached to exactly one  *)
(* job that was not aborted and is on its way (queued, on the wire or      *)
(* asleep, one of the three), or to the open group.  And nothing runs for  *)
(* nobody: a job nobody waits for was aborted, or revalidates a key.       *)
OnItsWay(j) ==
  LET places == {QueuedJobs(sched), sched.wire, sleeping}
  IN  j \in live /\ Cardinality({p \in places : j \in p}) = 1
NobodyOrphaned ==
  /\ \A r \in Requests : pc[r] = "waiting" =>
       /\ Cardinality({j \in Jobs : r \in Attached(j)}) = 1
       /\ JobOf(r) = group \/ (OnItsWay(JobOf(r)) /\ JobOf(r) \notin aborted)
  /\ \A j \in live : Attached(j) = {} => j \in aborted \cup Keys

(* Deduplication: as long as no job has been abandoned by all its callers, *)
(* a key never has two fetches under way (withDedup: concurrent safe       *)
(* requests of one key share one call).                                    *)
OneFetchPerKey ==
  aborted \cap Getters = {} =>
    \A i, j \in live \cap Getters : KeyOf[i] = KeyOf[j] => i = j

(* Both: the reference counts of shared calls are exact.                   *)
DedupExact == TypeOK /\ NobodyOrphaned /\ OneFetchPerKey

(* Batch: a caller gets its own part of the response, provided none of the *)
(* requests the response answers was cancelled after the dispatch.         *)
OwnPart == \A r \in Posters, g \in Posters :
             /\ r \in Range(sent[g]) /\ answer[r] \in Posters
             /\ \A q \in Range(sent[g]) : answer[q] # "interrupted"
             => answer[r] = r

(* Requests that share a call, by key or in a batch, share it exactly:     *)
(* nobody is left without a call or with the answer to another.            *)
SharedExactly == DedupExact /\ OwnPart

(* What batch.ts says of its waiters: each receives its individual         *)
(* response.  The code does not keep it (see the README).                  *)
OwnResponse == \A r \in Posters : answer[r] \in Posters => answer[r] = r

(* The scheduler is fair by urgency: a call that reaches the wire comes    *)
(* before every job it leaves in the queue, those that had to retry and    *)
(* were queued again included; a newcomer never overtakes a queued job.    *)
StartsNow == {j \in Jobs : j \in sched'.wire /\ j \notin sched.wire}
MostUrgentFirst ==
  [][\A j \in StartsNow : \A f \in sched'.queue :
       \E e \in sched.queue : e.job = j /\ Before(e, f)]_vars

(* Every request is answered, whatever its neighbours do (each comes once, *)
(* so that from some time on nobody waits).                                *)
EveryoneAnswered == <>[](\A r \in Requests : pc[r] # "waiting")
=============================================================================
