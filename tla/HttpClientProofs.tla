-------------------------- MODULE HttpClientProofs --------------------------
(***************************************************************************)
(* Machine-checked proofs about CircuitBreaker, HttpPool and HttpClient,   *)
(* for every number of requests, every limit of the pool and every setting *)
(* of the breaker: the breaker's counts and its cool-down, the accounting  *)
(* of the pool, the order of its grants, that leases and calls go          *)
(* together, and that the client drives the breaker as CircuitBreaker      *)
(* specifies it, so that what is proved of the one holds of the other;     *)
(* and about TimerWheel, for every number of entries and of slots and any  *)
(* periods: no timeout is lost, and none is late by a rotation.            *)
(***************************************************************************)
EXTENDS HttpClient, TimerWheel, QueueLemmas

-----------------------------------------------------------------------------
(* The breaker alone: every number of requests, threshold, timeout, retries *)

LEMMA InitIInv == Init => IInv
BY BreakerAssumption DEF Init, IInv, TypeOK, CountsOfThisRound, StampIsCurrent, States

\* Counting keeps the record of the counters.
LEMMA CountTypes ==
  ASSUME total \in [{"requests", "failures", "successes", "rejected"} -> Nat],
         NEW fields, Count(fields)
  PROVE  total' \in [{"requests", "failures", "successes", "rejected"} -> Nat]
BY DEF Count

LEMMA ProtectIInv == ASSUME IInv, NEW r \in Requests, Protect(r) PROVE IInv'
<1>1. /\ UNCHANGED <<consecutiveFailures, consecutiveSuccesses, openedAt, runs, now, openSince>>
      /\ pc' \in [Requests -> {"new", "rejected", "built", "running", "ended"}]
  BY DEF Protect, IInv, TypeOK
<1>3. total' \in [{"requests", "failures", "successes", "rejected"} -> Nat]
  BY CountTypes DEF Protect, IInv, TypeOK
<1>2. \/ currentState' = currentState
      \/ currentState = "open" /\ currentState' = "half-open"
  BY DEF Protect, Stay
<1> QED
  BY <1>1, <1>2, <1>3 DEF IInv, TypeOK, CountsOfThisRound, StampIsCurrent, States

LEMMA StartIInv == ASSUME IInv, NEW r \in Requests, Start(r) PROVE IInv'
<1>1. /\ UNCHANGED <<breakerVars, now, openSince>>
      /\ pc' \in [Requests -> {"new", "rejected", "built", "running", "ended"}]
      /\ runs' \in [Requests -> 0..MaxRuns]
  BY BreakerAssumption DEF Start, IInv, TypeOK
<1> QED
  BY <1>1 DEF IInv, TypeOK, CountsOfThisRound, StampIsCurrent, breakerVars

\* An outcome: in whichever state it finds the breaker.
LEMMA EndIInv == ASSUME IInv, NEW r \in Requests, End(r) PROVE IInv'
<1>1. /\ UNCHANGED <<runs, now>> /\ NoteOpening
      /\ pc' \in [Requests -> {"new", "rejected", "built", "running", "ended"}]
      /\ consecutiveFailures \in Nat /\ consecutiveSuccesses \in Nat /\ now \in Nat
      /\ failureThreshold \in Nat \ {0} /\ successThreshold \in Nat \ {0}
      /\ consecutiveSuccesses < successThreshold
  BY BreakerAssumption DEF End, IInv, TypeOK
<1>2. CASE OnSuccess
  <2>1. total' \in [{"requests", "failures", "successes", "rejected"} -> Nat]
    BY <1>2, CountTypes DEF OnSuccess, IInv, TypeOK
  <2>2. /\ consecutiveFailures' = 0 /\ openedAt' = openedAt /\ currentState' \in States
        /\ consecutiveSuccesses' \in 0..(successThreshold - 1)
        /\ consecutiveSuccesses' > 0 => currentState' = "half-open"
        /\ currentState' = "open" <=> currentState = "open"
    BY <1>1, <1>2 DEF OnSuccess, Stay, IInv, TypeOK, CountsOfThisRound, States
  <2>3. openSince' = openSince
    BY <1>1, <2>2 DEF NoteOpening
  <2> QED
    BY <1>1, <2>1, <2>2, <2>3 DEF IInv, TypeOK, CountsOfThisRound, StampIsCurrent
<1>3. CASE OnFailure
  <2>1. total' \in [{"requests", "failures", "successes", "rejected"} -> Nat]
    BY <1>3, CountTypes DEF OnFailure, IInv, TypeOK
  <2>2. /\ consecutiveFailures' = consecutiveFailures + 1 /\ consecutiveSuccesses' = 0
        /\ \/ Trips /\ openedAt' = now /\ currentState' = "open"
           \/ ~Trips /\ UNCHANGED openedAt /\ currentState' = currentState
    BY <1>3 DEF OnFailure, Stay
  <2>3. Trips => currentState # "open"
    BY DEF Trips
  <2>4. openedAt' \in 0..now /\ openSince' \in 0..now /\ currentState' \in States
    BY <1>1, <2>2 DEF NoteOpening, IInv, TypeOK, States
  <2>5. CountsOfThisRound'
    BY <1>1, <2>2 DEF Trips, CountsOfThisRound
  <2>6. StampIsCurrent'
    BY <1>1, <2>2, <2>3 DEF NoteOpening, IInv, StampIsCurrent
  <2>7. TypeOK'
    BY <1>1, <2>1, <2>2, <2>4 DEF IInv, TypeOK
  <2> QED
    BY <2>5, <2>6, <2>7 DEF IInv
<1>4. CASE UNCHANGED breakerVars
  BY <1>1, <1>4 DEF NoteOpening, breakerVars, IInv, TypeOK, CountsOfThisRound, StampIsCurrent
<1> QED
  BY <1>2, <1>3, <1>4 DEF End

LEMMA NextIInv == IInv /\ [Next]_vars => IInv'
<1> SUFFICES ASSUME IInv, [Next]_vars PROVE IInv'
  OBVIOUS
<1>1. CASE Reset
  BY <1>1, BreakerAssumption
     DEF Reset, requestVars, IInv, TypeOK, CountsOfThisRound, StampIsCurrent, States
<1>2. CASE Tick
  BY <1>2, BreakerAssumption
     DEF Tick, breakerVars, requestVars, IInv, TypeOK, CountsOfThisRound, StampIsCurrent
<1>3. CASE UNCHANGED vars
  BY <1>3 DEF vars, breakerVars, requestVars, IInv, TypeOK, CountsOfThisRound, StampIsCurrent
<1> QED
  BY <1>1, <1>2, <1>3, ProtectIInv, StartIInv, EndIInv DEF Next

\* Whatever outcomes arrive in whichever state, the counts of the breaker are
\* those of the present round.
THEOREM CountsOfThisRoundTheorem == Spec => []CountsOfThisRound
<1>1. IInv => CountsOfThisRound
  BY DEF IInv
<1> QED
  BY <1>1, InitIInv, NextIInv, PTL DEF Spec

\* Once open, the circuit lets nobody through before resetTimeout has passed.
THEOREM CoolsDownTheorem == Spec => CoolsDown
<1> DEFINE Waits == currentState = "open" /\ currentState' = "half-open"
                      => now - openSince >= resetTimeout
<1>1. ASSUME IInv, [Next]_vars PROVE [Waits]_vars
  <2> SUFFICES ASSUME Next, currentState = "open", currentState' = "half-open"
               PROVE  now - openSince >= resetTimeout
    BY <1>1
  <2>1. ASSUME NEW r \in Requests, Protect(r) PROVE now - openedAt >= resetTimeout
    BY <2>1 DEF Protect, Stay, Allows, HasCooledDown
  <2>2. ~Reset /\ ~Tick
    BY DEF Reset, Tick, breakerVars
  <2>3. ASSUME NEW r \in Requests, Start(r) \/ End(r) PROVE FALSE
    BY <2>3 DEF Start, End, OnSuccess, OnFailure, Stay, Trips, breakerVars
  <2>4. openedAt = openSince
    BY <1>1 DEF IInv, StampIsCurrent
  <2> QED
    BY <2>1, <2>2, <2>3, <2>4 DEF Next
<1> QED
  BY <1>1, InitIInv, NextIInv, PTL DEF Spec, CoolsDown

-----------------------------------------------------------------------------
(* The pool, operation by operation *)

Pools == [running : Nat, queue : Seq(Clients), leased : SUBSET Clients,
          granted : Seq(Clients)]
Members(p) == p.leased \cup ToSet(p.queue)

\* What the operations of the pool preserve: exact counts, and nobody queues
\* twice or while holding a lease.
PoolInv(p) ==
  /\ p \in Pools
  /\ IsFiniteSet(p.leased)
  /\ PoolExactIn(p)
  /\ IsInjective(p.queue)
  /\ ToSet(p.queue) \cap p.leased = {}

LEMMA EmptyPoolInv == PoolInv(EmptyPool) /\ Members(EmptyPool) = {}
<1>1. EmptyPool \in Pools
  BY DEF EmptyPool, Pools
<1>2. /\ EmptyPool.leased = {} /\ EmptyPool.queue = <<>> /\ EmptyPool.running = 0
      /\ ToSet(<<>>) = {} /\ IsInjective(<<>>)
  BY DEF EmptyPool, ToSet, IsInjective
<1>3. IsFiniteSet({}) /\ Cardinality({}) = 0
  BY FS_EmptySet
<1> QED
  BY <1>1, <1>2, <1>3, PoolAssumption DEF PoolInv, PoolExactIn, Members

LEMMA MakeLeaseInv ==
  ASSUME NEW p, PoolInv(p), NEW r \in Clients, r \notin Members(p), HasPermit(p)
  PROVE  PoolInv(MakeLease(p, r)) /\ Members(MakeLease(p, r)) = Members(p) \cup {r}
<1> DEFINE q == MakeLease(p, r)
<1>0. p \in Pools /\ p.running + 1 \in Nat /\ p.leased \cup {r} \in SUBSET Clients
  BY DEF PoolInv, Pools
<1>1. /\ q.running = p.running + 1 /\ q.queue = p.queue
      /\ q.leased = p.leased \cup {r} /\ q \in Pools
  BY <1>0 DEF MakeLease, Pools
<1> HIDE DEF q
<1>2. IsFiniteSet(q.leased) /\ Cardinality(q.leased) = Cardinality(p.leased) + 1
  BY <1>1, FS_AddElement DEF PoolInv, Members
<1>3. PoolExactIn(q)
  BY <1>1, <1>2, PoolAssumption DEF PoolInv, PoolExactIn, HasPermit, Pools
<1> QED
  BY <1>1, <1>2, <1>3 DEF PoolInv, Members, q

LEMMA EnqueueInv ==
  ASSUME NEW p, PoolInv(p), NEW r \in Clients, r \notin Members(p), ~HasPermit(p)
  PROVE  PoolInv(Enqueue(p, r)) /\ Members(Enqueue(p, r)) = Members(p) \cup {r}
<1> DEFINE q == Enqueue(p, r)
<1>1. p.queue \in Seq(Clients) /\ IsInjective(p.queue)
  BY DEF PoolInv, Pools
<1>2. /\ Append(p.queue, r) \in Seq(Clients) /\ IsInjective(Append(p.queue, r))
      /\ ToSet(Append(p.queue, r)) = ToSet(p.queue) \cup {r}
  BY <1>1, AppendNode DEF Members
<1>3. /\ q.running = p.running /\ q.queue = Append(p.queue, r)
      /\ q.leased = p.leased /\ q \in Pools
  BY <1>2 DEF Enqueue, PoolInv, Pools
<1> HIDE DEF q
<1>4. PoolExactIn(q)
  BY <1>3, PoolAssumption DEF PoolInv, PoolExactIn, HasPermit, Pools
<1> QED
  BY <1>2, <1>3, <1>4 DEF PoolInv, Members, q

LEMMA RemoveWaiterInv ==
  ASSUME NEW p, PoolInv(p), NEW r
  PROVE  PoolInv(RemoveWaiter(p, r)) /\ Members(RemoveWaiter(p, r)) \subseteq Members(p)
<1> DEFINE q == RemoveWaiter(p, r)  ws == RemoveFirst(p.queue, r)
<1>1. p.queue \in Seq(Clients) /\ IsInjective(p.queue)
  BY DEF PoolInv, Pools
<1>2. ws \in Seq(Clients) /\ IsInjective(ws) /\ ToSet(ws) = ToSet(p.queue) \ {r}
  BY <1>1, RemoveFirstNode
<1>3. q.running = p.running /\ q.queue = ws /\ q.leased = p.leased /\ q \in Pools
  BY <1>2 DEF RemoveWaiter, PoolInv, Pools
<1>4. p.queue = <<>> => ws = <<>>
  BY DEF RemoveFirst
<1> HIDE DEF q, ws
<1>5. PoolExactIn(q)
  BY <1>3, <1>4 DEF PoolInv, PoolExactIn
<1> QED
  BY <1>2, <1>3, <1>5 DEF PoolInv, Members, q

\* drain(), called where exactly one permit is free or nobody waits.
LEMMA DrainInv ==
  ASSUME NEW p, p \in Pools, IsFiniteSet(p.leased), IsInjective(p.queue),
         ToSet(p.queue) \cap p.leased = {}, p.running = Cardinality(p.leased),
         p.running <= PoolConcurrency,
         p.queue # <<>> => p.running + 1 >= PoolConcurrency
  PROVE  PoolInv(Drain(p)) /\ Members(Drain(p)) = Members(p)
<1>1. CASE ~(HasPermit(p) /\ p.queue # <<>>)
  BY <1>1, PoolAssumption DEF Drain, PoolInv, PoolExactIn, HasPermit, Pools
<1>2. CASE HasPermit(p) /\ p.queue # <<>>
  <2> DEFINE h == Head(p.queue)  q == Drain(p)
  <2>1. /\ h \in Clients /\ h \in ToSet(p.queue) /\ Tail(p.queue) \in Seq(Clients)
        /\ ToSet(Tail(p.queue)) = ToSet(p.queue) \ {h} /\ IsInjective(Tail(p.queue))
    BY <1>2, TailNode DEF Pools
  <2>0. /\ p.running + 1 \in Nat /\ p.leased \cup {h} \in SUBSET Clients
        /\ <<h>> \in Seq(Clients)
    BY <2>1 DEF Pools
  <2>2. q = [MakeLease([p EXCEPT !.queue = Tail(@)], h) EXCEPT !.granted = <<h>>]
    BY <1>2 DEF Drain
  <2>3. /\ q.running = p.running + 1 /\ q.queue = Tail(p.queue)
        /\ q.leased = p.leased \cup {h} /\ q \in Pools
    BY <2>0, <2>1, <2>2 DEF MakeLease, Pools
  <2> HIDE DEF q, h
  <2>4. IsFiniteSet(q.leased) /\ Cardinality(q.leased) = Cardinality(p.leased) + 1
    BY <2>1, <2>3, FS_AddElement
  <2>5. PoolExactIn(q)
    BY <1>2, <2>3, <2>4, PoolAssumption DEF PoolExactIn, HasPermit, Pools
  <2> QED
    BY <2>1, <2>3, <2>4, <2>5 DEF PoolInv, Members, q
<1> QED
  BY <1>1, <1>2

LEMMA ReleaseInv ==
  ASSUME NEW p, PoolInv(p), NEW r
  PROVE  PoolInv(Release(p, r)) /\ Members(Release(p, r)) \subseteq Members(p)
<1>1. CASE r \notin p.leased
  BY <1>1 DEF Release
<1>2. CASE r \in p.leased
  <2> DEFINE q == [p EXCEPT !.running = IF @ > 0 THEN @ - 1 ELSE @, !.leased = @ \ {r}]
  <2>1. /\ IsFiniteSet(p.leased \ {r})
        /\ Cardinality(p.leased \ {r}) = Cardinality(p.leased) - 1
        /\ Cardinality(p.leased) \in Nat /\ Cardinality(p.leased \ {r}) \in Nat
    BY <1>2, FS_RemoveElement, FS_CardinalityType DEF PoolInv
  <2>0. /\ p \in Pools /\ p.running = Cardinality(p.leased) /\ p.running > 0
        /\ p.running - 1 \in Nat /\ p.leased \ {r} \in SUBSET Clients
    BY <2>1 DEF PoolInv, PoolExactIn, Pools
  <2>2. /\ q.running = p.running - 1 /\ q.queue = p.queue
        /\ q.leased = p.leased \ {r} /\ q \in Pools
    BY <2>0 DEF Pools
  <2>3. Release(p, r) = Drain(q)
    BY <1>2 DEF Release
  <2> HIDE DEF q
  <2>4. /\ p.running <= PoolConcurrency
        /\ p.queue # <<>> => p.running = PoolConcurrency
        /\ IsInjective(p.queue) /\ ToSet(p.queue) \cap p.leased = {}
    BY DEF PoolInv, PoolExactIn
  <2>5. /\ q.running = Cardinality(q.leased) /\ q.running <= PoolConcurrency
        /\ q.queue # <<>> => q.running + 1 >= PoolConcurrency
        /\ IsFiniteSet(q.leased) /\ IsInjective(q.queue) /\ ToSet(q.queue) \cap q.leased = {}
    BY <2>0, <2>1, <2>2, <2>4, PoolAssumption
  <2>6. PoolInv(Drain(q)) /\ Members(Drain(q)) = Members(q)
    BY <2>2, <2>5, DrainInv
  <2> QED
    BY <2>2, <2>3, <2>6 DEF Members
<1> QED
  BY <1>1, <1>2

LEMMA GrantedIsCleared ==
  ASSUME NEW p, PoolInv(p)
  PROVE  /\ PoolInv([p EXCEPT !.granted = <<>>])
         /\ Members([p EXCEPT !.granted = <<>>]) = Members(p)
         /\ [p EXCEPT !.granted = <<>>].granted = <<>>
<1> DEFINE q == [p EXCEPT !.granted = <<>>]
<1>0. p \in Pools /\ <<>> \in Seq(Clients)
  BY DEF PoolInv
<1>1. /\ q.running = p.running /\ q.queue = p.queue /\ q.leased = p.leased
      /\ q.granted = <<>> /\ q \in Pools
  BY <1>0 DEF Pools
<1> HIDE DEF q
<1> QED
  BY <1>1 DEF PoolInv, PoolExactIn, Members, q

\* Whoever a release grants a permit was waiting for it.
LEMMA ReleaseGrants ==
  ASSUME NEW p, PoolInv(p), p.granted = <<>>, NEW r
  PROVE  Release(p, r).granted \in Seq(Members(p))
<1> DEFINE q == [p EXCEPT !.running = IF @ > 0 THEN @ - 1 ELSE @, !.leased = @ \ {r}]
<1>0. PICK S : S = Members(p)
  OBVIOUS
<1> <<>> \in Seq(S)
  OBVIOUS
<1>1. CASE r \notin p.leased
  <2>1. Release(p, r).granted = <<>>
    BY <1>1 DEF Release
  <2> QED
    BY <1>0, <2>1
<1>2. CASE r \in p.leased
  <2>1. q.queue = p.queue /\ q.granted = <<>>
    BY DEF PoolInv, Pools
  <2>2. Release(p, r) = Drain(q)
    BY <1>2 DEF Release
  <2>3. CASE ~(HasPermit(q) /\ q.queue # <<>>)
    <3>1. Release(p, r).granted = <<>>
      BY <2>1, <2>2, <2>3 DEF Drain
    <3> QED
      BY <1>0, <3>1
  <2>4. CASE HasPermit(q) /\ q.queue # <<>>
    <3>1. Head(p.queue) \in Members(p)
      BY <2>1, <2>4, TailNode DEF PoolInv, Pools, Members
    <3>2. q \in [running : {q.running}, queue : {q.queue}, leased : {q.leased},
                 granted : {<<>>}]
      BY DEF PoolInv, Pools
    <3>3. Drain(q).granted = <<Head(p.queue)>>
      BY <2>1, <2>4, <3>2 DEF Drain, MakeLease
    <3>4. <<Head(p.queue)>> \in Seq(S)
      BY <1>0, <3>1
    <3> QED
      BY <1>0, <2>2, <3>3, <3>4
  <2> QED
    BY <2>3, <2>4
<1> QED
  BY <1>1, <1>2

-----------------------------------------------------------------------------
(* The client *)

Sent(r) == pc[r] \in {"running", "ended"}
Tasks(S) == [kind : {"settled", "abort"}, of : S, flag : BOOLEAN]

\* The inductive invariant: the pool is exact, and only requests that were sent
\* are in the pool, in a microtask or on the wire.  A request that is sent
\* therefore joins the pool for the first time.
HttpInv == /\ PoolInv(pool) /\ pool.granted = <<>>
           /\ pc \in [Requests -> {"new", "rejected", "built", "running", "ended"}]
           /\ \A r \in Members(pool) : Sent(r)
           /\ tasks \in Seq(Tasks({r \in Requests : Sent(r)}))
           /\ calling \subseteq {r \in Requests : Sent(r)}

LEMMA HttpInitInv == HttpInit => HttpInv
<1> SUFFICES ASSUME HttpInit PROVE HttpInv
  OBVIOUS
<1>1. PoolInv(pool) /\ Members(pool) = {} /\ pool.granted = <<>>
  BY EmptyPoolInv DEF HttpInit, EmptyPool
<1>2. /\ pc \in [Requests -> {"new", "rejected", "built", "running", "ended"}]
      /\ tasks = <<>> /\ calling = {}
  BY DEF HttpInit, Init
<1> QED
  BY <1>1, <1>2 DEF HttpInv

\* What a step does to the requests: nobody that was sent is ever unsent.
Onwards ==
  /\ pc' \in [Requests -> {"new", "rejected", "built", "running", "ended"}]
  /\ \A r \in Requests : Sent(r) => Sent(r)'
\* What a step does to the pool, when nobody joins it.
NobodyJoins == /\ PoolInv(pool') /\ pool'.granted = <<>>
               /\ Members(pool') \subseteq Members(pool)
\* What a step does to the microtasks and the calls: all of requests that were sent.
OnlySent == /\ tasks' \in Seq(Tasks({r \in Requests : Sent(r)}))
            /\ calling' \subseteq {r \in Requests : Sent(r)}

LEMMA MembersAreRequests == ASSUME HttpInv PROVE Members(pool) \subseteq Requests
BY ClientsAssumption DEF HttpInv, PoolInv, Pools, Members, ToSet

LEMMA FunctionIsSeq ==
  ASSUME NEW S, NEW n \in Nat, NEW q \in [1..n -> S] PROVE q \in Seq(S)
BY SeqDef

LEMMA TasksGrow ==
  ASSUME NEW S, NEW T, S \subseteq T, NEW q \in Seq(Tasks(S))
  PROVE  q \in Seq(Tasks(T))
<1>1. Tasks(S) \subseteq Tasks(T)
  BY DEF Tasks
<1> QED
  BY <1>1

LEMMA InvKept == ASSUME HttpInv, Onwards, NobodyJoins, OnlySent PROVE HttpInv'
<1>1. PICK S : S = {r \in Requests : Sent(r)}
  OBVIOUS
<1>2. PICK T : T = {r \in Requests : Sent(r)'}
  OBVIOUS
<1>3. S \subseteq T
  BY <1>1, <1>2 DEF Onwards
<1>4. tasks' \in Seq(Tasks(T))
  <2>1. tasks' \in Seq(Tasks(S))
    BY <1>1 DEF OnlySent
  <2>2. PICK q : q = tasks'
    OBVIOUS
  <2> QED
    BY <1>3, <2>1, <2>2, TasksGrow
<1> QED
  BY <1>1, <1>2, <1>3, <1>4, MembersAreRequests DEF HttpInv, Onwards, NobodyJoins, OnlySent

LEMMA FinishOnwards ==
  ASSUME HttpInv, NEW r, NEW outcome, Finish(r, outcome) PROVE Onwards
BY DEF Finish, Onwards, HttpInv, Sent

LEMMA NotFinishedOnwards == ASSUME HttpInv, NotFinished PROVE Onwards
BY DEF NotFinished, requestVars, Onwards, HttpInv, Sent

LEMMA KeptPool == ASSUME HttpInv, pool' = pool PROVE NobodyJoins
BY DEF HttpInv, NobodyJoins

\* A pool operation whose outcome is p, by microtasks that are already there,
\* those of the grants, and more of requests that were sent.
LEMMA BecomesInv ==
  ASSUME HttpInv, NEW p, PoolInv(p), Members(p) \subseteq Members(pool),
         p.granted \in Seq(Members(pool)),
         NEW first \in Seq(Tasks({r \in Requests : Sent(r)})),
         NEW more \in Seq(Tasks({r \in Requests : Sent(r)})),
         PoolBecomes(p, first, more)
  PROVE  NobodyJoins /\ tasks' \in Seq(Tasks({r \in Requests : Sent(r)}))
<1>1. NobodyJoins
  BY GrantedIsCleared DEF PoolBecomes, NobodyJoins
<1>2. PICK S : S = {r \in Requests : Sent(r)}
  OBVIOUS
<1>3. Members(pool) \subseteq S
  BY <1>2, MembersAreRequests DEF HttpInv
<1>4. Settled(p) \in Seq(Tasks(S))
  <2>1. p.granted \in Seq(S)
    BY <1>3
  <2>2. /\ Len(p.granted) \in Nat /\ DOMAIN p.granted = 1..Len(p.granted)
        /\ \A i \in 1..Len(p.granted) : p.granted[i] \in S
    BY <2>1
  <2> DEFINE q == [i \in 1..Len(p.granted) |-> Task("settled", p.granted[i], FALSE)]
  <2>3. \A i \in 1..Len(p.granted) : Task("settled", p.granted[i], FALSE) \in Tasks(S)
    BY <2>2 DEF Task, Tasks
  <2>4. q \in [1..Len(p.granted) -> Tasks(S)]
    BY <2>3
  <2> HIDE DEF q
  <2>5. q \in Seq(Tasks(S))
    BY <2>2, <2>4, FunctionIsSeq
  <2> QED
    BY <2>2, <2>5 DEF Settled, q
<1>5. (first \o Settled(p)) \o more \in Seq(Tasks(S))
  BY <1>2, <1>4
<1> QED
  BY <1>1, <1>2, <1>5 DEF PoolBecomes

LEMMA ReleasedPool ==
  ASSUME HttpInv, NEW r
  PROVE  /\ PoolInv(Release(pool, r)) /\ Members(Release(pool, r)) \subseteq Members(pool)
         /\ Release(pool, r).granted \in Seq(Members(pool))
<1>1. PICK p : p = pool
  OBVIOUS
<1> QED
  BY <1>1, ReleaseInv, ReleaseGrants DEF HttpInv

LEMMA RemovedPool ==
  ASSUME HttpInv, NEW r
  PROVE  /\ PoolInv(RemoveWaiter(pool, r))
         /\ Members(RemoveWaiter(pool, r)) \subseteq Members(pool)
         /\ RemoveWaiter(pool, r).granted \in Seq(Members(pool))
<1>1. PICK p : p = pool
  OBVIOUS
<1>2. PICK S : S = Members(p)
  OBVIOUS
<1>3. RemoveWaiter(p, r).granted = <<>>
  BY <1>1 DEF HttpInv, RemoveWaiter, PoolInv, Pools
<1>4. <<>> \in Seq(S)
  OBVIOUS
<1> QED
  BY <1>1, <1>2, <1>3, <1>4, RemoveWaiterInv DEF HttpInv

LEMMA WithdrawnPool ==
  ASSUME HttpInv, NEW r
  PROVE  /\ PoolInv(Withdrawn(r)) /\ Members(Withdrawn(r)) \subseteq Members(pool)
         /\ Withdrawn(r).granted \in Seq(Members(pool))
<1>1. CASE Queued(r)
  BY <1>1, RemovedPool DEF Withdrawn
<1>2. CASE ~Queued(r) /\ r \in holds
  BY <1>2, ReleasedPool DEF Withdrawn
<1>3. CASE ~Queued(r) /\ r \notin holds
  <2>1. PICK S : S = Members(pool)
    OBVIOUS
  <2>2. <<>> \in Seq(S)
    OBVIOUS
  <2> QED
    BY <1>3, <2>1, <2>2 DEF Withdrawn, HttpInv
<1> QED
  BY <1>1, <1>2, <1>3
-----------------------------------------------------------------------------
(* The steps: each keeps the invariant, and is a step of the breaker or none *)

LEMMA FinishEnds ==
  ASSUME NEW r \in Requests, pc[r] = "running",
         NEW outcome \in {"success", "failure", "abort", "interrupt"}, Finish(r, outcome)
  PROVE  End(r)
<1>1. OnSuccess \/ OnFailure \/ UNCHANGED breakerVars
  <2>1. CASE outcome = "success"
    BY <2>1 DEF Finish
  <2>2. CASE outcome = "failure"
    BY <2>2 DEF Finish
  <2>3. CASE outcome = "abort"
    BY <2>3 DEF Finish
  <2>4. CASE outcome = "interrupt"
    BY <2>4 DEF Finish
  <2> QED
    BY <2>1, <2>2, <2>3, <2>4
<1> QED
  BY <1>1 DEF Finish, End

LEMMA AdmitStep == ASSUME HttpInv, NEW r \in Requests, Admit(r) PROVE HttpInv' /\ [Next]_vars
<1>1. Protect(r) /\ UNCHANGED clientVars
  BY DEF Admit
<1>2. Onwards
  BY <1>1 DEF Protect, Onwards, HttpInv, Sent
<1>3. NobodyJoins /\ OnlySent
  BY <1>1 DEF clientVars, HttpInv, NobodyJoins, OnlySent
<1> QED
  BY <1>1, <1>2, <1>3, InvKept DEF Next

\* A request is sent: it was aborted before, or it gets a permit, or queues, or is
\* refused.
LEMMA SendStep == ASSUME HttpInv, NEW r \in Requests, Send(r) PROVE HttpInv' /\ [Next]_vars
<1>1. /\ pc[r] = "built" /\ Start(r) /\ pc' = [pc EXCEPT ![r] = "running"]
      /\ Onwards /\ Sent(r)'
  BY DEF Send, Start, Onwards, HttpInv, Sent
<1>2. r \in Clients /\ r \notin Members(pool)
  BY <1>1, ClientsAssumption DEF HttpInv, Sent
<1>3. PICK p : p = pool
  OBVIOUS
<1>4. PICK T : T = {q \in Requests : Sent(q)'}
  OBVIOUS
<1>5. tasks \in Seq(Tasks(T)) /\ calling \subseteq T /\ r \in T
  <2>1. PICK S : S = {q \in Requests : Sent(q)}
    OBVIOUS
  <2>2. S \subseteq T
    BY <1>1, <1>4, <2>1 DEF Onwards
  <2>3. PICK q : q = tasks
    OBVIOUS
  <2> QED
    BY <1>1, <1>4, <2>1, <2>2, <2>3, TasksGrow DEF HttpInv
<1>6. /\ PoolInv(pool') /\ pool'.granted = <<>> /\ Members(pool') \subseteq Members(p) \cup {r}
      /\ tasks' \in Seq(Tasks(T)) /\ calling' \subseteq T
  <2>0. CASE SentAborted(r)
    <3>1. /\ pool' = p /\ calling' = calling
          /\ tasks' = Append(tasks, Task("abort", r, FALSE))
      BY <1>3, <2>0 DEF SentAborted, PoolKept
    <3>2. Task("abort", r, FALSE) \in Tasks(T)
      BY <1>5 DEF Task, Tasks
    <3>3. PICK U : U = Tasks(T)
      OBVIOUS
    <3>4. tasks' \in Seq(U)
      BY <1>5, <3>1, <3>2, <3>3, AppendProperties
    <3> QED
      BY <1>3, <1>5, <3>1, <3>3, <3>4 DEF HttpInv
  <2>1. CASE AsksPool(r) /\ HasPermit(pool)
    <3>1. /\ pool' = MakeLease(p, r) /\ tasks' = tasks /\ calling' = calling \cup {r}
      BY <1>3, <2>1 DEF AsksPool, Calls
    <3>2. MakeLease(p, r).granted = <<>>
      BY <1>3 DEF MakeLease, HttpInv, PoolInv, Pools
    <3> QED
      BY <1>2, <1>3, <1>5, <2>1, <3>1, <3>2, MakeLeaseInv DEF HttpInv
  <2>2. CASE AsksPool(r) /\ ~HasPermit(pool) /\ ~IsFull(pool)
    <3>1. pool' = Enqueue(p, r) /\ tasks' = tasks /\ calling' = calling
      BY <1>3, <2>2 DEF AsksPool
    <3>2. Enqueue(p, r).granted = <<>>
      BY <1>3 DEF Enqueue, HttpInv, PoolInv, Pools
    <3> QED
      BY <1>2, <1>3, <1>5, <2>2, <3>1, <3>2, EnqueueInv DEF HttpInv
  <2>3. CASE AsksPool(r) /\ ~HasPermit(pool) /\ IsFull(pool)
    <3>1. /\ pool' = p /\ calling' = calling
          /\ tasks' = Append(tasks, Task("settled", r, FALSE))
      BY <1>3, <2>3 DEF AsksPool, PoolKept
    <3>2. Task("settled", r, FALSE) \in Tasks(T)
      BY <1>5 DEF Task, Tasks
    <3>3. PICK U : U = Tasks(T)
      OBVIOUS
    <3>4. tasks' \in Seq(U)
      BY <1>5, <3>1, <3>2, <3>3, AppendProperties
    <3> QED
      BY <1>3, <1>5, <3>1, <3>3, <3>4 DEF HttpInv
  <2> QED
    BY <2>0, <2>1, <2>2, <2>3 DEF Send
<1>7. HttpInv'
  <2>1. \A q \in Members(pool)' : Sent(q)'
    BY <1>1, <1>3, <1>6, MembersAreRequests DEF HttpInv, Onwards
  <2> QED
    BY <1>1, <1>4, <1>6, <2>1 DEF HttpInv, Onwards
<1> QED
  BY <1>1, <1>7 DEF Next

LEMMA NotFinishedStep == NotFinished => UNCHANGED vars
BY DEF NotFinished, vars

LEMMA AnswerStep == ASSUME HttpInv, NEW r \in Requests, Answer(r) PROVE HttpInv' /\ [Next]_vars
<1>0. Sent(r)
  BY DEF Answer, HttpInv
<1>1. CASE Done(r)
  BY <1>1, NotFinishedOnwards, KeptPool, InvKept, NotFinishedStep DEF Answer, OnlySent, HttpInv
<1>2. CASE ~Done(r)
  <2>1. /\ PoolBecomes(Release(pool, r), tasks, <<>>) /\ calling' = calling \ {r}
        /\ \E outcome \in {"success", "failure"} : Finish(r, outcome)
    BY <1>2 DEF Answer
  <2>2. <<>> \in Seq(Tasks({q \in Requests : Sent(q)}))
    OBVIOUS
  <2>3. NobodyJoins /\ tasks' \in Seq(Tasks({q \in Requests : Sent(q)}))
    BY <2>1, <2>2, ReleasedPool, BecomesInv DEF HttpInv
  <2>4. Onwards /\ End(r)
    BY <1>0, <1>2, <2>1, FinishOnwards, FinishEnds DEF Done, Sent
  <2> QED
    BY <2>1, <2>3, <2>4, InvKept DEF OnlySent, HttpInv, Next
<1> QED
  BY <1>1, <1>2

LEMMA MicrotaskStep == ASSUME HttpInv, Microtask PROVE HttpInv' /\ [Next]_vars
<1>1. PICK S : S = {r \in Requests : Sent(r)}
  OBVIOUS
<1>2. PICK U : U = Tasks(S)
  OBVIOUS
<1>3. /\ tasks \in Seq(U) /\ tasks # <<>> /\ Head(tasks) \in U /\ Tail(tasks) \in Seq(U)
      /\ <<>> \in Seq(U)
  BY <1>1, <1>2 DEF HttpInv, Microtask
<1>4. PICK t : t = Head(tasks)
  OBVIOUS
<1>5. t.of \in Requests /\ Sent(t.of)
  BY <1>1, <1>2, <1>3, <1>4 DEF Tasks
<1> DEFINE r == t.of
<1>6. Delivered(r, t.flag) \/ Aborts(r, t.flag)
  BY <1>4 DEF Microtask
<1>7. ASSUME PoolKept(Tail(tasks)) PROVE NobodyJoins /\ tasks' \in Seq(U)
  BY <1>3, <1>7, KeptPool DEF PoolKept
<1>8. ASSUME PoolKept(Tail(tasks)), NotFinished, calling' \subseteq calling \cup {r}
      PROVE  HttpInv' /\ [Next]_vars
  BY <1>1, <1>2, <1>5, <1>7, <1>8, NotFinishedOnwards, NotFinishedStep, InvKept
     DEF OnlySent, HttpInv
<1>9. ASSUME PoolKept(Tail(tasks)), Finish(r, "abort") \/ Finish(r, "failure"), ~Done(r),
             calling' \subseteq calling
      PROVE  HttpInv' /\ [Next]_vars
  <2>1. Onwards /\ End(r)
    BY <1>5, <1>9, FinishOnwards, FinishEnds DEF Done, Sent
  <2> QED
    BY <1>1, <1>2, <1>5, <1>7, <1>9, <2>1, InvKept DEF OnlySent, HttpInv, Next
<1>10. CASE Delivered(r, t.flag)
  <2>1. CASE Done(r) /\ r \in pool.leased
    <3>1. /\ PoolBecomes(Release(pool, r), Tail(tasks), <<>>) /\ NotFinished
          /\ calling' = calling
      BY <1>10, <2>1 DEF Delivered
    <3>2. NobodyJoins /\ tasks' \in Seq(U)
      BY <1>1, <1>2, <1>3, <3>1, ReleasedPool, BecomesInv
    <3> QED
      BY <1>1, <1>2, <3>1, <3>2, NotFinishedOnwards, NotFinishedStep, InvKept
         DEF OnlySent, HttpInv
  <2>2. CASE Done(r) /\ r \notin pool.leased
    BY <1>8, <1>10, <2>2 DEF Delivered
  <2>3. CASE ~Done(r) /\ r \in pool.leased
    BY <1>8, <1>10, <2>3 DEF Delivered, Calls
  <2>4. CASE ~Done(r) /\ r \notin pool.leased
    BY <1>9, <1>10, <2>4 DEF Delivered, Refused
  <2> QED
    BY <2>1, <2>2, <2>3, <2>4
<1>11. CASE Aborts(r, t.flag)
  <2>1. calling' \subseteq calling /\ PoolKept(Tail(tasks))
    BY <1>11 DEF Aborts
  <2>2. CASE Done(r)
    BY <1>8, <1>11, <2>1, <2>2 DEF Aborts
  <2>3. CASE ~Done(r)
    BY <1>9, <1>11, <2>1, <2>3 DEF Aborts
  <2> QED
    BY <2>2, <2>3
<1> QED
  BY <1>6, <1>10, <1>11

LEMMA RefusalTyped ==
  ASSUME NEW r \in Requests, Sent(r), NEW b \in BOOLEAN
  PROVE  Refusal(r, b) \in Seq(Tasks({q \in Requests : Sent(q)}))
<1>1. PICK U : U = Tasks({q \in Requests : Sent(q)})
  OBVIOUS
<1>2. PICK t : t = Task("settled", r, b)
  OBVIOUS
<1>3. t \in U
  BY <1>1, <1>2 DEF Task, Tasks
<1>4. <<>> \in Seq(U) /\ <<t>> \in Seq(U)
  BY <1>3
<1> QED
  BY <1>1, <1>2, <1>4 DEF Refusal

LEMMA StopsStep ==
  ASSUME HttpInv, NEW r \in Requests, NEW outcome \in {"interrupt", "failure"}, Stops(r, outcome)
  PROVE  HttpInv' /\ [Next]_vars
<1>1. /\ pc[r] = "running" /\ Finish(r, outcome) /\ calling' \subseteq calling
      /\ PoolBecomes(Withdrawn(r), tasks, Refusal(r, TRUE)) /\ Sent(r)
  BY DEF Stops, Active, Sent
<1>2. NobodyJoins /\ tasks' \in Seq(Tasks({q \in Requests : Sent(q)}))
  BY <1>1, WithdrawnPool, RefusalTyped, BecomesInv DEF HttpInv
<1>3. Onwards /\ End(r)
  BY <1>1, FinishOnwards, FinishEnds
<1> QED
  BY <1>1, <1>2, <1>3, InvKept DEF OnlySent, HttpInv, Next

LEMMA QueueTimesOutStep ==
  ASSUME HttpInv, NEW r \in Requests, QueueTimesOut(r) PROVE HttpInv' /\ [Next]_vars
<1>1. /\ PoolBecomes(RemoveWaiter(pool, r), tasks, Refusal(r, FALSE)) /\ NotFinished
      /\ calling' = calling /\ Queued(r)
  BY DEF QueueTimesOut
<1>2. Sent(r)
  BY <1>1 DEF HttpInv, Members, Queued
<1>3. NobodyJoins /\ tasks' \in Seq(Tasks({q \in Requests : Sent(q)}))
  BY <1>1, <1>2, RemovedPool, RefusalTyped, BecomesInv DEF HttpInv
<1> QED
  BY <1>1, <1>3, NotFinishedOnwards, NotFinishedStep, InvKept DEF OnlySent, HttpInv

LEMMA CallerAbortsStep ==
  ASSUME HttpInv, NEW r \in Requests, CallerAborts(r) PROVE HttpInv' /\ [Next]_vars
<1>1. PICK S : S = {q \in Requests : Sent(q)}
  OBVIOUS
<1>2. PICK U : U = Tasks(S)
  OBVIOUS
<1>3. pc[r] = "running" /\ Sent(r) /\ r \in S
  BY <1>1 DEF CallerAborts, Active, Sent
<1>4. CASE /\ NotFinished /\ UNCHANGED calling
           /\ PoolBecomes(Withdrawn(r), tasks,
                          Append(Refusal(r, TRUE), Task("abort", r, r \in cancels)))
  <2>1. PICK t : t = Task("abort", r, r \in cancels)
    OBVIOUS
  <2>2. t \in U
    BY <1>2, <1>3, <2>1 DEF Task, Tasks
  <2>3. PICK f : f = Refusal(r, TRUE)
    OBVIOUS
  <2>4. f \in Seq(U)
    BY <1>1, <1>2, <1>3, <2>3, RefusalTyped
  <2>5. Append(f, t) \in Seq(U)
    BY <2>2, <2>4, AppendProperties
  <2>6. NobodyJoins /\ tasks' \in Seq(U)
    BY <1>1, <1>2, <1>4, <2>1, <2>3, <2>5, WithdrawnPool, BecomesInv DEF HttpInv
  <2> QED
    BY <1>1, <1>2, <1>4, <2>6, NotFinishedOnwards, NotFinishedStep, InvKept
       DEF OnlySent, HttpInv
<1>5. CASE /\ calling' = calling \ {r} /\ Finish(r, "abort")
           /\ PoolBecomes(Withdrawn(r), tasks, <<Task("abort", r, FALSE)>>)
  <2>1. PICK t : t = Task("abort", r, FALSE)
    OBVIOUS
  <2>2. t \in U
    BY <1>2, <1>3, <2>1 DEF Task, Tasks
  <2>3. <<t>> \in Seq(U)
    BY <2>2
  <2>4. NobodyJoins /\ tasks' \in Seq(U)
    BY <1>1, <1>2, <1>5, <2>1, <2>3, WithdrawnPool, BecomesInv DEF HttpInv
  <2>5. Onwards /\ End(r)
    BY <1>3, <1>5, FinishOnwards, FinishEnds
  <2> QED
    BY <1>1, <1>2, <1>5, <2>4, <2>5, InvKept DEF OnlySent, HttpInv, Next
<1> QED
  BY <1>4, <1>5 DEF CallerAborts

LEMMA HttpNextStep == HttpInv /\ [HttpNext]_httpVars => HttpInv' /\ [Next]_vars
<1> SUFFICES ASSUME HttpInv, [HttpNext]_httpVars PROVE HttpInv' /\ [Next]_vars
  OBVIOUS
<1>1. CASE (Reset \/ Tick) /\ UNCHANGED clientVars
  <2>1. pc' = pc
    BY <1>1 DEF Reset, Tick, requestVars
  <2>2. Onwards /\ NobodyJoins /\ OnlySent
    BY <1>1, <2>1 DEF clientVars, Onwards, NobodyJoins, OnlySent, HttpInv, Sent
  <2> QED
    BY <1>1, <2>2, InvKept DEF Next
<1>2. CASE UNCHANGED httpVars
  <2>1. pc' = pc /\ UNCHANGED clientVars /\ UNCHANGED vars
    BY <1>2 DEF httpVars, vars, requestVars
  <2>2. Onwards /\ NobodyJoins /\ OnlySent
    BY <2>1 DEF clientVars, Onwards, NobodyJoins, OnlySent, HttpInv, Sent
  <2> QED
    BY <2>1, <2>2, InvKept
<1>3. CASE \E r \in Requests : CallerCancels(r) \/ TimesOut(r)
  BY <1>3, StopsStep DEF CallerCancels, TimesOut
<1> QED
  BY <1>1, <1>2, <1>3, AdmitStep, SendStep, AnswerStep, MicrotaskStep, CallerAbortsStep,
     QueueTimesOutStep DEF HttpNext

LEMMA HttpInvariant == HttpSpec => []HttpInv
BY HttpInitInv, HttpNextStep, PTL DEF HttpSpec

-----------------------------------------------------------------------------
(* The order of the grants *)

\* Whoever holds a lease in p and not in the pool was the first to wait.
FirstServed(p) ==
  \A r \in p.leased \ pool.leased : pool.queue # <<>> => r = Head(pool.queue)

LEMMA ReleaseServesFirst ==
  ASSUME NEW p, PoolInv(p), NEW r
  PROVE  \A x \in Release(p, r).leased \ p.leased : p.queue # <<>> /\ x = Head(p.queue)
<1>1. CASE r \notin p.leased
  BY <1>1 DEF Release
<1>2. CASE r \in p.leased
  <2>1. PICK q : q = [p EXCEPT !.running = IF @ > 0 THEN @ - 1 ELSE @, !.leased = @ \ {r}]
    OBVIOUS
  <2>2. p \in Pools /\ (p.running > 0 => p.running - 1 \in Nat)
    BY DEF PoolInv, Pools
  <2>3. q \in Pools /\ q.queue = p.queue /\ q.leased = p.leased \ {r}
    BY <2>1, <2>2 DEF Pools
  <2>4. Release(p, r) = Drain(q)
    BY <1>2, <2>1 DEF Release
  <2>5. CASE HasPermit(q) /\ q.queue # <<>>
    <3>1. PICK h : h = Head(q.queue)
      OBVIOUS
    <3>2. Drain(q) = [MakeLease([q EXCEPT !.queue = Tail(@)], h) EXCEPT !.granted = <<h>>]
      BY <2>5, <3>1 DEF Drain
    <3>3. Drain(q).leased = q.leased \cup {h}
      BY <2>3, <3>2 DEF MakeLease, Pools
    <3> QED
      BY <2>3, <2>4, <2>5, <3>1, <3>3
  <2>6. CASE ~(HasPermit(q) /\ q.queue # <<>>)
    BY <2>3, <2>4, <2>6 DEF Drain
  <2> QED
    BY <2>5, <2>6
<1> QED
  BY <1>1, <1>2

LEMMA BecomesServed ==
  ASSUME NEW p, PoolInv(p), FirstServed(p), NEW first, NEW more,
         PoolBecomes(p, first, more)
  PROVE  FirstServed(pool')
<1>1. pool' = [p EXCEPT !.granted = <<>>] /\ p \in Pools
  BY DEF PoolBecomes, PoolInv
<1>2. pool'.leased = p.leased
  BY <1>1 DEF Pools
<1> QED
  BY <1>2 DEF FirstServed

\* What the operations that take nobody's permit lead to.
LEMMA OperationsServe ==
  ASSUME HttpInv, NEW r
  PROVE  /\ PoolInv(pool) /\ FirstServed(pool)
         /\ PoolInv(Release(pool, r)) /\ FirstServed(Release(pool, r))
         /\ PoolInv(RemoveWaiter(pool, r)) /\ FirstServed(RemoveWaiter(pool, r))
         /\ PoolInv(Withdrawn(r)) /\ FirstServed(Withdrawn(r))
<1>1. PoolInv(pool) /\ FirstServed(pool)
  BY DEF HttpInv, FirstServed
<1>2. PoolInv(Release(pool, r)) /\ FirstServed(Release(pool, r))
  BY <1>1, ReleaseInv, ReleaseServesFirst DEF FirstServed
<1>3. PoolInv(RemoveWaiter(pool, r))
  BY <1>1, RemoveWaiterInv
<1>4. RemoveWaiter(pool, r).leased = pool.leased
  BY <1>1 DEF RemoveWaiter, PoolInv, Pools
<1>5. FirstServed(RemoveWaiter(pool, r))
  BY <1>4 DEF FirstServed
<1> QED
  BY <1>1, <1>2, <1>3, <1>5 DEF Withdrawn

LEMMA SendServes == ASSUME HttpInv, NEW r \in Requests, Send(r) PROVE FirstServed(pool')
<1>1. PoolInv(pool) /\ pool \in Pools
  BY DEF HttpInv, PoolInv
<1>2. CASE HasPermit(pool)
  <2>1. pool.running < PoolConcurrency /\ (pool.queue # <<>> => pool.running = PoolConcurrency)
    BY <1>1, <1>2 DEF HasPermit, PoolInv, PoolExactIn
  <2>2. pool.queue = <<>>
    BY <1>1, <2>1, PoolAssumption DEF Pools
  <2> QED
    BY <2>2 DEF FirstServed
<1>3. CASE ~HasPermit(pool)
  <2>1. pool' = Enqueue(pool, r) \/ pool' = pool
    BY <1>3 DEF Send, SentAborted, AsksPool, PoolKept
  <2>2. pool'.leased = pool.leased
    BY <1>1, <2>1 DEF Enqueue, Pools
  <2> QED
    BY <2>2 DEF FirstServed
<1> QED
  BY <1>2, <1>3

LEMMA NextServes == ASSUME HttpInv, [HttpNext]_httpVars PROVE FirstServed(pool')
<1>1. ASSUME pool' = pool PROVE FirstServed(pool')
  BY <1>1 DEF FirstServed
<1>2. CASE UNCHANGED httpVars \/ ((Reset \/ Tick) /\ UNCHANGED clientVars)
  BY <1>1, <1>2 DEF httpVars, clientVars
<1>3. ASSUME NEW r \in Requests, Admit(r) PROVE FirstServed(pool')
  BY <1>1, <1>3 DEF Admit, clientVars
<1>4. ASSUME NEW r \in Requests, Answer(r) PROVE FirstServed(pool')
  <2>1. pool' = pool \/ PoolBecomes(Release(pool, r), tasks, <<>>)
    BY <1>4 DEF Answer
  <2> QED
    BY <1>1, <2>1, OperationsServe, BecomesServed
<1>5. CASE Microtask
  <2>1. PICK t : /\ t = Head(tasks)
                 /\ Delivered(t.of, t.flag) \/ Aborts(t.of, t.flag)
    BY <1>5 DEF Microtask
  <2>2. pool' = pool \/ PoolBecomes(Release(pool, t.of), Tail(tasks), <<>>)
    BY <2>1 DEF Delivered, Aborts, PoolKept
  <2> QED
    BY <1>1, <2>2, OperationsServe, BecomesServed
<1>6. ASSUME NEW r \in Requests, CallerAborts(r) PROVE FirstServed(pool')
  <2>1. \E more : PoolBecomes(Withdrawn(r), tasks, more)
    BY <1>6 DEF CallerAborts
  <2> QED
    BY <2>1, OperationsServe, BecomesServed
<1>7. ASSUME NEW r \in Requests, CallerCancels(r) \/ TimesOut(r) PROVE FirstServed(pool')
  <2>1. PoolBecomes(Withdrawn(r), tasks, Refusal(r, TRUE))
    BY <1>7 DEF CallerCancels, TimesOut, Stops
  <2> QED
    BY <2>1, OperationsServe, BecomesServed
<1>8. ASSUME NEW r \in Requests, QueueTimesOut(r) PROVE FirstServed(pool')
  <2>1. PoolBecomes(RemoveWaiter(pool, r), tasks, Refusal(r, FALSE))
    BY <1>8 DEF QueueTimesOut
  <2> QED
    BY <2>1, OperationsServe, BecomesServed
<1> QED
  BY <1>2, <1>3, <1>4, <1>5, <1>6, <1>7, <1>8, SendServes DEF HttpNext

-----------------------------------------------------------------------------
(* Leases and calls.  Sequences of microtasks are compared by the kinds of *)
(* tasks, M, that are in them.                                             *)

Some(q, M) == \E i \in DOMAIN q : q[i] \in M
Once(q, M) == \A i, j \in DOMAIN q : q[i] \in M /\ q[j] \in M => i = j

LEMMA SomeSingle ==
  ASSUME NEW M, NEW t
  PROVE  /\ ~Some(<<>>, M) /\ Once(<<>>, M)
         /\ (Some(<<t>>, M) <=> t \in M) /\ Once(<<t>>, M)
BY DEF Some, Once

LEMMA SomeConcat ==
  ASSUME NEW T, NEW q \in Seq(T), NEW z \in Seq(T), NEW M
  PROVE  /\ q \o z \in Seq(T)
         /\ Some(q \o z, M) <=> Some(q, M) \/ Some(z, M)
         /\ Once(q, M) /\ Once(z, M) /\ ~(Some(q, M) /\ Some(z, M)) => Once(q \o z, M)
<1> DEFINE c == q \o z
<1>1. /\ c \in Seq(T) /\ Len(c) = Len(q) + Len(z)
      /\ Len(q) \in Nat /\ Len(z) \in Nat
      /\ DOMAIN q = 1..Len(q) /\ DOMAIN z = 1..Len(z) /\ DOMAIN c = 1..(Len(q) + Len(z))
      /\ \A i \in 1..Len(q) : c[i] = q[i]
      /\ \A i \in 1..Len(z) : c[Len(q) + i] = z[i]
  BY ConcatProperties
<1> HIDE DEF c
<1>2. ASSUME NEW i \in DOMAIN c, i \notin DOMAIN q
      PROVE  i - Len(q) \in DOMAIN z /\ c[i] = z[i - Len(q)]
  <2>1. i - Len(q) \in 1..Len(z) /\ Len(q) + (i - Len(q)) = i
    BY <1>1, <1>2
  <2> QED
    BY <1>1, <2>1
<1>3. \A i \in DOMAIN z : Len(q) + i \in DOMAIN c
  BY <1>1
<1>4. \A i \in DOMAIN q : i \in DOMAIN c /\ c[i] = q[i]
  BY <1>1
<1>5. Some(c, M) => Some(q, M) \/ Some(z, M)
  BY <1>2, <1>4 DEF Some
<1>6. Some(q, M) \/ Some(z, M) => Some(c, M)
  BY <1>1, <1>3, <1>4 DEF Some
<1>7. ASSUME Once(q, M), Once(z, M), ~(Some(q, M) /\ Some(z, M)),
             NEW i \in DOMAIN c, NEW j \in DOMAIN c, c[i] \in M, c[j] \in M
      PROVE  i = j
  <2>1. CASE i \in DOMAIN q /\ j \in DOMAIN q
    BY <1>4, <1>7, <2>1 DEF Once
  <2>2. CASE i \notin DOMAIN q /\ j \notin DOMAIN q
    <3>1. i - Len(q) = j - Len(q)
      BY <1>2, <1>7, <2>2 DEF Once
    <3> QED
      BY <1>1, <3>1
  <2>3. CASE (i \in DOMAIN q) # (j \in DOMAIN q)
    BY <1>2, <1>4, <1>7, <2>3 DEF Some
  <2> QED
    BY <2>1, <2>2, <2>3
<1>8. Once(q, M) /\ Once(z, M) /\ ~(Some(q, M) /\ Some(z, M)) => Once(c, M)
  BY <1>7 DEF Once
<1> QED
  BY <1>1, <1>5, <1>6, <1>8 DEF c

LEMMA SomeTail ==
  ASSUME NEW T, NEW q \in Seq(T), q # <<>>, NEW M
  PROVE  /\ Some(q, M) <=> Head(q) \in M \/ Some(Tail(q), M)
         /\ Once(q, M) => Once(Tail(q), M) /\ ~(Head(q) \in M /\ Some(Tail(q), M))
<1> DEFINE z == Tail(q)
<1>1. /\ Len(q) \in Nat \ {0} /\ DOMAIN q = 1..Len(q) /\ Head(q) = q[1]
      /\ z \in Seq(T) /\ Len(z) = Len(q) - 1 /\ DOMAIN z = 1..(Len(q) - 1)
      /\ \A i \in 1..(Len(q) - 1) : z[i] = q[i + 1]
  BY HeadTailProperties, EmptySeq
<1> HIDE DEF z
<1>2. \A i \in DOMAIN z : i + 1 \in DOMAIN q /\ z[i] = q[i + 1] /\ i + 1 # 1 /\ i \in Nat
  BY <1>1
<1>3. ASSUME NEW i \in DOMAIN q, i # 1 PROVE i - 1 \in DOMAIN z /\ z[i - 1] = q[i]
  BY <1>1, <1>3
<1>4. 1 \in DOMAIN q
  BY <1>1
<1>5. Some(q, M) <=> Head(q) \in M \/ Some(z, M)
  BY <1>1, <1>2, <1>3, <1>4 DEF Some
<1>6. ASSUME Once(q, M), NEW i \in DOMAIN z, NEW j \in DOMAIN z, z[i] \in M, z[j] \in M
      PROVE  i = j
  <2>1. i + 1 = j + 1
    BY <1>2, <1>6 DEF Once
  <2> QED
    BY <1>2, <2>1
<1>7. Once(q, M) => Once(z, M)
  BY <1>6 DEF Once
<1>8. ASSUME Once(q, M), Head(q) \in M, Some(z, M) PROVE FALSE
  BY <1>1, <1>2, <1>4, <1>8 DEF Some, Once
<1> QED
  BY <1>5, <1>7, <1>8 DEF z

-----------------------------------------------------------------------------
SettledOf(r) == [kind : {"settled"}, of : {r}, flag : BOOLEAN]
AbortOf(r) == [kind : {"abort"}, of : {r}, flag : BOOLEAN]
CancelOf(r) == [kind : {"abort"}, of : {r}, flag : {TRUE}]

\* A lease belongs to a request that will hear of it, or that has it and still
\* runs; a waiter was neither aborted nor told; a call under way has a permit or
\* is about to be cancelled.
RequestOK(r) ==
  /\ r \in pool.leased /\ r \notin late =>
       r \notin aborted /\ (Some(tasks, SettledOf(r)) \/ (r \in holds /\ ~Done(r)))
  /\ Queued(r) => r \notin aborted /\ ~Some(tasks, SettledOf(r))
  /\ r \in calling => \/ Some(tasks, CancelOf(r))
                      \/ /\ r \in pool.leased /\ ~Some(tasks, SettledOf(r))
                         /\ Done(r) \/ r \in cancels
  /\ Some(tasks, AbortOf(r)) => r \in aborted
  /\ r \in aborted => Sent(r)
  /\ Once(tasks, SettledOf(r))
LeaseInv == HttpInv /\ \A r \in Requests : RequestOK(r)

\* What a step does to the microtasks of x: a grant of g (nobody when {}) may be
\* added to those of `first`.
TasksOf(first, g, x) ==
  /\ Some(tasks', SettledOf(x)) <=> Some(first, SettledOf(x)) \/ x \in g
  /\ Some(tasks', AbortOf(x)) <=> Some(first, AbortOf(x))
  /\ Some(tasks', CancelOf(x)) <=> Some(first, CancelOf(x))
  /\ Once(first, SettledOf(x)) /\ ~(Some(first, SettledOf(x)) /\ x \in g)
       => Once(tasks', SettledOf(x))

\* A request that a step is not about: it may be granted a permit.
Bystander(x) ==
  /\ x \in pool.leased => x \in pool'.leased
  /\ Queued(x)' => Queued(x)
  /\ \/ TasksOf(tasks, {}, x) /\ pool'.leased \cap {x} = pool.leased \cap {x}
     \/ /\ TasksOf(tasks, {x}, x) /\ Queued(x) /\ ~Queued(x)'
        /\ x \in pool'.leased /\ x \notin pool.leased
  /\ pc'[x] = pc[x]
  /\ x \in holds' <=> x \in holds
  /\ x \in calling' <=> x \in calling
  /\ x \in cancels' <=> x \in cancels
  /\ x \in aborted' <=> x \in aborted
  /\ x \in late' <=> x \in late

LEMMA BystanderOK ==
  ASSUME NEW x \in Requests, RequestOK(x), Bystander(x) PROVE RequestOK(x)'
<1>0. Done(x)' = Done(x) /\ (Sent(x)' <=> Sent(x))
  BY DEF Bystander, Done, Sent
<1>1. CASE TasksOf(tasks, {}, x) /\ pool'.leased \cap {x} = pool.leased \cap {x}
  <2>1. x \in pool'.leased <=> x \in pool.leased
    BY <1>1
  <2> QED
    BY <1>0, <1>1, <2>1 DEF Bystander, RequestOK, TasksOf
<1>2. CASE /\ TasksOf(tasks, {x}, x) /\ Queued(x) /\ ~Queued(x)'
           /\ x \in pool'.leased /\ x \notin pool.leased
  BY <1>0, <1>2 DEF Bystander, RequestOK, TasksOf
<1> QED
  BY <1>1, <1>2 DEF Bystander

-----------------------------------------------------------------------------
\* What an operation of r does to everybody else's place in the pool: those of
\* g get a permit.
Moves(p, q, r, g) ==
  /\ r \notin g
  /\ \A x \in Clients \ {r} :
       /\ x \in g => /\ x \in ToSet(p.queue) /\ x \notin ToSet(q.queue)
                     /\ x \in q.leased /\ x \notin p.leased
       /\ x \in ToSet(q.queue) => x \in ToSet(p.queue)
       /\ x \notin g => (x \in q.leased <=> x \in p.leased)
Grants(q, g) == (q.granted = <<>> /\ g = {}) \/ (\E h \in Clients : q.granted = <<h>> /\ g = {h})

LEMMA ReleaseMoves ==
  ASSUME NEW p, PoolInv(p), p.granted = <<>>, NEW r
  PROVE  /\ \E g : Moves(p, Release(p, r), r, g) /\ Grants(Release(p, r), g)
         /\ r \notin Release(p, r).leased
         /\ r \in ToSet(Release(p, r).queue) => r \in ToSet(p.queue)
<1> DEFINE z == Release(p, r)
<1>1. CASE r \notin p.leased
  <2>1. z = p
    BY <1>1 DEF Release
  <2>2. Moves(p, p, r, {}) /\ Grants(p, {})
    BY DEF Moves, Grants
  <2> QED
    BY <1>1, <2>1, <2>2
<1>2. CASE r \in p.leased
  <2>1. PICK q : q = [p EXCEPT !.running = IF @ > 0 THEN @ - 1 ELSE @, !.leased = @ \ {r}]
    OBVIOUS
  <2>2. p \in Pools /\ (p.running > 0 => p.running - 1 \in Nat)
    BY DEF PoolInv, Pools
  <2>3. q \in Pools /\ q.queue = p.queue /\ q.leased = p.leased \ {r} /\ q.granted = <<>>
    BY <2>1, <2>2 DEF Pools
  <2>4. z = Drain(q)
    BY <1>2, <2>1 DEF Release
  <2>5. CASE ~(HasPermit(q) /\ q.queue # <<>>)
    <3>1. z = q
      BY <2>4, <2>5 DEF Drain
    <3> HIDE DEF z
    <3>2. Moves(p, z, r, {}) /\ Grants(z, {})
      BY <2>3, <3>1 DEF Moves, Grants
    <3> QED
      BY <2>3, <3>1, <3>2 DEF z
  <2>6. CASE HasPermit(q) /\ q.queue # <<>>
    <3>1. PICK h : h = Head(q.queue)
      OBVIOUS
    <3>2. z = [MakeLease([q EXCEPT !.queue = Tail(@)], h) EXCEPT !.granted = <<h>>]
      BY <2>4, <2>6, <3>1 DEF Drain
    <3>3. z.leased = q.leased \cup {h} /\ z.queue = Tail(q.queue) /\ z.granted = <<h>>
      BY <2>3, <3>2 DEF MakeLease, Pools
    <3>4. /\ h \in Clients /\ h \in ToSet(p.queue)
          /\ ToSet(Tail(q.queue)) = ToSet(p.queue) \ {h}
      BY <2>3, <2>6, <3>1, TailNode DEF PoolInv, Pools
    <3>5. h \notin p.leased /\ h # r
      BY <1>2, <3>4 DEF PoolInv
    <3> HIDE DEF z
    <3>6. Moves(p, z, r, {h}) /\ Grants(z, {h})
      BY <2>3, <3>3, <3>4, <3>5 DEF Moves, Grants
    <3> QED
      BY <2>3, <3>3, <3>4, <3>5, <3>6 DEF z
  <2> QED
    BY <2>5, <2>6
<1> QED
  BY <1>1, <1>2

LEMMA RemoveMoves ==
  ASSUME NEW p, PoolInv(p), p.granted = <<>>, NEW r
  PROVE  /\ Moves(p, RemoveWaiter(p, r), r, {}) /\ Grants(RemoveWaiter(p, r), {})
         /\ RemoveWaiter(p, r).leased = p.leased
         /\ r \notin ToSet(RemoveWaiter(p, r).queue)
<1>1. PICK q, ws : q = RemoveWaiter(p, r) /\ ws = RemoveFirst(p.queue, r)
  OBVIOUS
<1>2. p.queue \in Seq(Clients) /\ IsInjective(p.queue) /\ p \in Pools
  BY DEF PoolInv, Pools
<1>3. ToSet(ws) = ToSet(p.queue) \ {r}
  BY <1>1, <1>2, RemoveFirstNode
<1>4. q.queue = ws /\ q.leased = p.leased /\ q.granted = <<>>
  BY <1>1, <1>2 DEF RemoveWaiter, Pools
<1>5. Moves(p, q, r, {}) /\ Grants(q, {})
  BY <1>3, <1>4 DEF Moves, Grants
<1> QED
  BY <1>1, <1>3, <1>4, <1>5

\* A request that stops early leaves the queue or gives back what it holds.
LEMMA WithdrawnMoves ==
  ASSUME HttpInv, NEW r
  PROVE  /\ \E g : Moves(pool, Withdrawn(r), r, g) /\ Grants(Withdrawn(r), g)
         /\ r \notin ToSet(Withdrawn(r).queue)
         /\ r \in Withdrawn(r).leased => r \in pool.leased /\ r \notin holds
<1>1. PICK p : p = pool
  OBVIOUS
<1>2. PoolInv(p) /\ p.granted = <<>> /\ ToSet(p.queue) \cap p.leased = {}
  BY <1>1 DEF HttpInv, PoolInv
<1>3. CASE Queued(r)
  <2>1. Withdrawn(r) = RemoveWaiter(p, r) /\ r \notin p.leased
    BY <1>1, <1>2, <1>3 DEF Withdrawn, Queued
  <2> QED
    BY <1>1, <1>2, <2>1, RemoveMoves
<1>4. CASE ~Queued(r) /\ r \in holds
  <2>1. Withdrawn(r) = Release(p, r) /\ r \notin ToSet(p.queue)
    BY <1>1, <1>4 DEF Withdrawn, Queued
  <2> QED
    BY <1>1, <1>2, <2>1, ReleaseMoves
<1>5. CASE ~Queued(r) /\ r \notin holds
  <2>1. Withdrawn(r) = p /\ r \notin ToSet(p.queue)
    BY <1>1, <1>5 DEF Withdrawn, Queued
  <2>2. Moves(p, p, r, {}) /\ Grants(p, {})
    BY <1>2 DEF Moves, Grants
  <2> QED
    BY <1>1, <1>5, <2>1, <2>2
<1> QED
  BY <1>3, <1>4, <1>5

-----------------------------------------------------------------------------
\* The microtasks after an operation: those of `first`, one for each grant, and
\* `more`.
Posted(first, g, more, x) ==
  /\ Some(tasks', SettledOf(x))
       <=> Some(first, SettledOf(x)) \/ x \in g \/ Some(more, SettledOf(x))
  /\ Some(tasks', AbortOf(x)) <=> Some(first, AbortOf(x)) \/ Some(more, AbortOf(x))
  /\ Some(tasks', CancelOf(x)) <=> Some(first, CancelOf(x)) \/ Some(more, CancelOf(x))
  /\ /\ Once(first, SettledOf(x)) /\ Once(more, SettledOf(x))
     /\ ~(Some(first, SettledOf(x)) /\ x \in g)
     /\ ~(Some(more, SettledOf(x)) /\ (Some(first, SettledOf(x)) \/ x \in g))
     => Once(tasks', SettledOf(x))

LEMMA SettledTasks ==
  ASSUME NEW q, NEW g, Grants(q, g), NEW x \in Requests
  PROVE  /\ Settled(q) \in Seq(Tasks(Requests))
         /\ Some(Settled(q), SettledOf(x)) <=> x \in g
         /\ ~Some(Settled(q), AbortOf(x)) /\ ~Some(Settled(q), CancelOf(x))
         /\ Once(Settled(q), SettledOf(x))
<1>1. CASE q.granted = <<>> /\ g = {}
  <2>1. Settled(q) = <<>>
    BY <1>1 DEF Settled
  <2>2. PICK U : U = Tasks(Requests)
    OBVIOUS
  <2>3. <<>> \in Seq(U)
    OBVIOUS
  <2> QED
    BY <1>1, <2>1, <2>2, <2>3, SomeSingle
<1>2. ASSUME NEW h \in Clients, q.granted = <<h>>, g = {h}
      PROVE  /\ Settled(q) \in Seq(Tasks(Requests))
             /\ Some(Settled(q), SettledOf(x)) <=> x \in g
             /\ ~Some(Settled(q), AbortOf(x)) /\ ~Some(Settled(q), CancelOf(x))
             /\ Once(Settled(q), SettledOf(x))
  <2>1. PICK t : t = Task("settled", h, FALSE)
    OBVIOUS
  <2>2. Settled(q) = <<t>>
    <3>1. Settled(q) = [i \in 1..1 |-> Task("settled", <<h>>[i], FALSE)]
      BY <1>2 DEF Settled
    <3>2. \A i \in 1..1 : Task("settled", <<h>>[i], FALSE) = t
      <4>1. <<h>>[1] = h /\ \A i \in 1..1 : i = 1
        OBVIOUS
      <4> QED
        BY <2>1, <4>1 DEF Task
    <3>3. Settled(q) = [i \in 1..1 |-> t]
      BY <3>1, <3>2
    <3> QED
      BY <3>3
  <2>3. t \in Tasks(Requests)
    BY <1>2, <2>1, ClientsAssumption DEF Task, Tasks
  <2>4. (t \in SettledOf(x) <=> x = h) /\ t \notin AbortOf(x) /\ t \notin CancelOf(x)
    BY <2>1 DEF Task, SettledOf, AbortOf, CancelOf
  <2>5. PICK U : U = Tasks(Requests)
    OBVIOUS
  <2>6. <<t>> \in Seq(U)
    BY <2>3, <2>5
  <2> QED
    BY <1>2, <2>2, <2>4, <2>5, <2>6, SomeSingle
<1> QED
  BY <1>1, <1>2 DEF Grants

LEMMA BecomesPosted ==
  ASSUME NEW q, NEW g, Grants(q, g), NEW first \in Seq(Tasks(Requests)),
         NEW more \in Seq(Tasks(Requests)), PoolBecomes(q, first, more), NEW x \in Requests
  PROVE  Posted(first, g, more, x)
<1>1. PICK U, z : U = Tasks(Requests) /\ z = Settled(q)
  OBVIOUS
<1>2. /\ z \in Seq(U) /\ first \in Seq(U) /\ more \in Seq(U)
      /\ tasks' = (first \o z) \o more
  BY <1>1, SettledTasks DEF PoolBecomes
<1>3. PICK c : c = first \o z
  OBVIOUS
<1>4. c \in Seq(U)
  BY <1>2, <1>3
<1>5. ASSUME NEW M
      PROVE  /\ Some(tasks', M) <=> Some(first, M) \/ Some(z, M) \/ Some(more, M)
             /\ /\ Once(first, M) /\ Once(z, M) /\ Once(more, M)
                /\ ~(Some(first, M) /\ Some(z, M))
                /\ ~((Some(first, M) \/ Some(z, M)) /\ Some(more, M))
                => Once(tasks', M)
  <2>1. /\ Some(c, M) <=> Some(first, M) \/ Some(z, M)
        /\ Once(first, M) /\ Once(z, M) /\ ~(Some(first, M) /\ Some(z, M)) => Once(c, M)
    BY <1>2, <1>3, SomeConcat
  <2>2. /\ Some(tasks', M) <=> Some(c, M) \/ Some(more, M)
        /\ Once(c, M) /\ Once(more, M) /\ ~(Some(c, M) /\ Some(more, M)) => Once(tasks', M)
    <3>1. PICK d : d = c \o more
      OBVIOUS
    <3>2. /\ Some(d, M) <=> Some(c, M) \/ Some(more, M)
          /\ Once(c, M) /\ Once(more, M) /\ ~(Some(c, M) /\ Some(more, M)) => Once(d, M)
      BY <1>2, <1>4, <3>1, SomeConcat
    <3> QED
      BY <1>2, <1>3, <3>1, <3>2
  <2> QED
    BY <2>1, <2>2
<1>6. /\ Some(z, SettledOf(x)) <=> x \in g
      /\ ~Some(z, AbortOf(x)) /\ ~Some(z, CancelOf(x)) /\ Once(z, SettledOf(x))
  BY <1>1, SettledTasks
<1> QED
  BY <1>5, <1>6 DEF Posted

LEMMA TypedTasks ==
  ASSUME HttpInv
  PROVE  /\ tasks \in Seq(Tasks(Requests))
         /\ \A r \in Requests : Undelivered(r) <=> Some(tasks, SettledOf(r))
<1>1. PICK S : S = {r \in Requests : Sent(r)}
  OBVIOUS
<1>2. PICK q : q = tasks
  OBVIOUS
<1>3. q \in Seq(Tasks(S)) /\ S \subseteq Requests
  BY <1>1, <1>2 DEF HttpInv
<1>4. q \in Seq(Tasks(Requests))
  BY <1>3, TasksGrow
<1>5. \A i \in DOMAIN q : q[i] \in Tasks(Requests)
  BY <1>4
<1>6. \A i \in DOMAIN q, r \in Requests :
        q[i] \in SettledOf(r) <=> q[i].kind = "settled" /\ q[i].of = r
  BY <1>5 DEF Tasks, SettledOf
<1> QED
  BY <1>2, <1>4, <1>6 DEF Undelivered, Some

-----------------------------------------------------------------------------
\* Nobody but r is sent, finished, aborted, called or cancelled.
OthersKept(r) ==
  \A x \in Requests \ {r} :
    /\ pc'[x] = pc[x]
    /\ x \in holds' <=> x \in holds
    /\ x \in calling' <=> x \in calling
    /\ x \in cancels' <=> x \in cancels
    /\ x \in aborted' <=> x \in aborted
    /\ x \in late' <=> x \in late

\* The microtasks a step leaves: all of them, or the first, of r, has run.
FirstOf(first, r) == \/ first = tasks
                     \/ tasks # <<>> /\ Head(tasks).of = r /\ first = Tail(tasks)

LEMMA FirstTasks ==
  ASSUME HttpInv, NEW r, NEW first, FirstOf(first, r)
  PROVE  /\ first \in Seq(Tasks(Requests))
         /\ \A x \in Requests \ {r} :
              /\ Some(first, SettledOf(x)) <=> Some(tasks, SettledOf(x))
              /\ Some(first, AbortOf(x)) <=> Some(tasks, AbortOf(x))
              /\ Some(first, CancelOf(x)) <=> Some(tasks, CancelOf(x))
              /\ Once(tasks, SettledOf(x)) => Once(first, SettledOf(x))
<1>1. CASE first = tasks
  BY <1>1, TypedTasks
<1>2. CASE tasks # <<>> /\ Head(tasks).of = r /\ first = Tail(tasks)
  <2>1. PICK U, q : U = Tasks(Requests) /\ q = tasks
    OBVIOUS
  <2>2. q \in Seq(U) /\ q # <<>> /\ first = Tail(q) /\ first \in Seq(U)
    BY <1>2, <2>1, TypedTasks
  <2>3. \A x \in Requests \ {r} :
          Head(q) \notin SettledOf(x) /\ Head(q) \notin AbortOf(x) /\ Head(q) \notin CancelOf(x)
    BY <1>2, <2>1 DEF SettledOf, AbortOf, CancelOf
  <2>4. \A M : /\ Some(q, M) <=> Head(q) \in M \/ Some(first, M)
               /\ Once(q, M) => Once(first, M)
    BY <2>2, SomeTail
  <2> QED
    BY <2>1, <2>2, <2>3, <2>4
<1> QED
  BY <1>1, <1>2 DEF FirstOf

LEMMA MoreTasks ==
  ASSUME NEW r \in Requests, NEW more \in Seq(Tasks({r}))
  PROVE  /\ more \in Seq(Tasks(Requests))
         /\ \A x \in Requests \ {r} :
              /\ ~Some(more, SettledOf(x)) /\ ~Some(more, AbortOf(x)) /\ ~Some(more, CancelOf(x))
              /\ Once(more, SettledOf(x))
<1>1. PICK R : R = Requests
  OBVIOUS
<1>2. more \in Seq(Tasks(R))
  BY <1>1, TasksGrow
<1>3. \A i \in DOMAIN more : more[i] \in Tasks({r})
  OBVIOUS
<1>4. \A i \in DOMAIN more : more[i].of = r
  BY <1>3 DEF Tasks
<1> QED
  BY <1>1, <1>2, <1>4 DEF Some, Once, SettledOf, AbortOf, CancelOf

LEMMA OthersOK ==
  ASSUME LeaseInv, NEW r \in Requests, NEW q, NEW g, Moves(pool, q, r, g),
         pool'.leased = q.leased, pool'.queue = q.queue,
         \A x \in Requests \ {r} : TasksOf(tasks, g, x), OthersKept(r)
  PROVE  \A x \in Requests \ {r} : RequestOK(x)'
<1> SUFFICES ASSUME NEW x \in Requests \ {r} PROVE RequestOK(x)'
  OBVIOUS
<1>1. RequestOK(x) /\ x \in Clients \ {r} /\ TasksOf(tasks, g, x)
  BY ClientsAssumption DEF LeaseInv
<1>2. CASE x \in g
  <2>1. /\ Queued(x) /\ ~Queued(x)' /\ x \in pool'.leased /\ x \notin pool.leased
    BY <1>1, <1>2 DEF Moves, Queued
  <2>2. TasksOf(tasks, {x}, x)
    BY <1>1, <1>2 DEF TasksOf
  <2>3. Bystander(x)
    BY <2>1, <2>2 DEF Bystander, OthersKept
  <2> QED
    BY <1>1, <2>3, BystanderOK
<1>3. CASE x \notin g
  <2>1. (x \in pool'.leased <=> x \in pool.leased) /\ (Queued(x)' => Queued(x))
    BY <1>1, <1>3 DEF Moves, Queued
  <2>2. TasksOf(tasks, {}, x) /\ pool'.leased \cap {x} = pool.leased \cap {x}
    BY <1>1, <1>3, <2>1 DEF TasksOf
  <2>3. Bystander(x)
    BY <2>1, <2>2 DEF Bystander, OthersKept
  <2> QED
    BY <1>1, <2>3, BystanderOK
<1> QED
  BY <1>2, <1>3

\* The two ways in which a step of r changes pool and microtasks.
LEMMA BecomesOthers ==
  ASSUME LeaseInv, NEW r \in Requests, NEW q, PoolInv(q),
         \E g : Moves(pool, q, r, g) /\ Grants(q, g),
         NEW first, FirstOf(first, r), NEW more \in Seq(Tasks({r})),
         PoolBecomes(q, first, more), OthersKept(r)
  PROVE  /\ \A x \in Requests \ {r} : RequestOK(x)'
         /\ Posted(first, {}, more, r)
         /\ pool'.leased = q.leased /\ pool'.queue = q.queue
<1>1. PICK g : Moves(pool, q, r, g) /\ Grants(q, g)
  OBVIOUS
<1>2. pool'.leased = q.leased /\ pool'.queue = q.queue
  BY DEF PoolBecomes, PoolInv, Pools
<1>3. first \in Seq(Tasks(Requests)) /\ more \in Seq(Tasks(Requests)) /\ HttpInv
  BY FirstTasks, MoreTasks DEF LeaseInv
<1>4. \A x \in Requests : Posted(first, g, more, x)
  BY <1>1, <1>3, BecomesPosted
<1>5. \A x \in Requests \ {r} : TasksOf(tasks, g, x)
  <2> SUFFICES ASSUME NEW x \in Requests \ {r} PROVE TasksOf(tasks, g, x)
    OBVIOUS
  <2>1. /\ Some(first, SettledOf(x)) <=> Some(tasks, SettledOf(x))
        /\ Some(first, AbortOf(x)) <=> Some(tasks, AbortOf(x))
        /\ Some(first, CancelOf(x)) <=> Some(tasks, CancelOf(x))
        /\ Once(tasks, SettledOf(x)) => Once(first, SettledOf(x))
    BY <1>3, FirstTasks
  <2>2. /\ ~Some(more, SettledOf(x)) /\ ~Some(more, AbortOf(x)) /\ ~Some(more, CancelOf(x))
        /\ Once(more, SettledOf(x))
    BY MoreTasks
  <2>3. Posted(first, g, more, x)
    BY <1>4
  <2> QED
    BY <2>1, <2>2, <2>3 DEF Posted, TasksOf
<1>6. Posted(first, {}, more, r)
  <2>1. r \notin g /\ Posted(first, g, more, r)
    BY <1>1, <1>4 DEF Moves
  <2> QED
    BY <2>1 DEF Posted
<1> QED
  BY <1>1, <1>2, <1>5, <1>6, OthersOK

LEMMA KeptOthers ==
  ASSUME LeaseInv, NEW r \in Requests, NEW first, FirstOf(first, r),
         pool' = pool, tasks' = first, OthersKept(r)
  PROVE  \A x \in Requests \ {r} : RequestOK(x)'
<1>1. Moves(pool, pool, r, {})
  BY DEF Moves
<1>2. HttpInv
  BY DEF LeaseInv
<1>3. \A x \in Requests \ {r} : TasksOf(tasks, {}, x)
  BY <1>2, FirstTasks DEF TasksOf
<1> QED
  BY <1>1, <1>3, OthersOK

\* All requests, when r is one of them.
LEMMA AllOK ==
  ASSUME NEW r, RequestOK(r)', \A x \in Requests \ {r} : RequestOK(x)', HttpInv'
  PROVE  LeaseInv'
BY DEF LeaseInv

LEMMA LeaseInit == HttpInit => LeaseInv
<1> SUFFICES ASSUME HttpInit PROVE LeaseInv
  OBVIOUS
<1>1. HttpInv
  BY HttpInitInv
<1>2. /\ pool.leased = {} /\ ToSet(pool.queue) = {} /\ tasks = <<>>
      /\ calling = {} /\ aborted = {}
  BY DEF HttpInit, EmptyPool, ToSet
<1>3. \A M : ~Some(tasks, M) /\ Once(tasks, M)
  BY <1>2, SomeSingle
<1> QED
  BY <1>1, <1>2, <1>3 DEF LeaseInv, RequestOK, Queued

-----------------------------------------------------------------------------
(* The steps *)

LEMMA SameLease ==
  ASSUME LeaseInv, UNCHANGED clientVars,
         \A x \in Requests : Done(x)' = Done(x) /\ (Sent(x)' <=> Sent(x))
  PROVE  \A x \in Requests : RequestOK(x)'
BY DEF LeaseInv, clientVars, RequestOK, Queued

LEMMA AdmitLease ==
  ASSUME LeaseInv, NEW r \in Requests, Admit(r) PROVE \A x \in Requests : RequestOK(x)'
<1>1. /\ pc[r] = "new" /\ pc \in [Requests -> {"new", "rejected", "built", "running", "ended"}]
      /\ pc' = [pc EXCEPT ![r] = "built"] \/ pc' = [pc EXCEPT ![r] = "rejected"]
      /\ UNCHANGED clientVars
  BY DEF Admit, Protect, LeaseInv, HttpInv
<1>2. \A x \in Requests : Done(x)' = Done(x) /\ (Sent(x)' <=> Sent(x))
  BY <1>1 DEF Done, Sent
<1> QED
  BY <1>1, <1>2, SameLease

\* A request that was not sent has left no trace.
LEMMA UnsentClean ==
  ASSUME HttpInv, NEW r \in Requests, ~Sent(r)
  PROVE  /\ r \notin pool.leased /\ ~Queued(r) /\ r \notin calling
         /\ ~Some(tasks, SettledOf(r)) /\ ~Some(tasks, AbortOf(r)) /\ ~Some(tasks, CancelOf(r))
<1>1. \A i \in DOMAIN tasks : tasks[i] \in Tasks({x \in Requests : Sent(x)})
  BY DEF HttpInv
<1>2. \A i \in DOMAIN tasks : tasks[i].of # r
  BY <1>1 DEF Tasks
<1>3. r \notin Members(pool) /\ r \notin calling
  BY DEF HttpInv
<1> QED
  BY <1>2, <1>3 DEF Members, Queued, Some, SettledOf, AbortOf, CancelOf

\* A request that is sent without asking for a permit or a place has one
\* microtask, t.
LEMMA PostedFirst ==
  ASSUME LeaseInv, NEW r \in Requests, ~Sent(r), Sent(r)', OthersKept(r),
         UNCHANGED <<pool, calling, late>>,
         NEW t \in Tasks({r}), tasks' = Append(tasks, t),
         t \notin CancelOf(r), t \in AbortOf(r) => r \in aborted'
  PROVE  \A x \in Requests : RequestOK(x)'
<1>1. /\ r \notin pool.leased /\ ~Queued(r) /\ r \notin calling
      /\ ~Some(tasks, SettledOf(r)) /\ ~Some(tasks, AbortOf(r)) /\ ~Some(tasks, CancelOf(r))
      /\ RequestOK(r)
  BY UnsentClean DEF LeaseInv
<1>2. t \in Tasks(Requests) /\ tasks \in Seq(Tasks(Requests))
  BY TypedTasks DEF Tasks, LeaseInv
<1>3. PICK U, q, one : U = Tasks(Requests) /\ q = tasks /\ one = <<t>>
  OBVIOUS
<1>4. one \in Seq(U) /\ q \in Seq(U) /\ tasks' = q \o one
  BY <1>2, <1>3, AppendIsConcat
<1>5. ASSUME NEW M
      PROVE  /\ Some(tasks', M) <=> Some(tasks, M) \/ t \in M
             /\ Once(tasks, M) /\ ~(Some(tasks, M) /\ t \in M) => Once(tasks', M)
  <2>1. (Some(one, M) <=> t \in M) /\ Once(one, M)
    BY <1>3, SomeSingle
  <2>2. /\ Some(q \o one, M) <=> Some(q, M) \/ Some(one, M)
        /\ Once(q, M) /\ Once(one, M) /\ ~(Some(q, M) /\ Some(one, M)) => Once(q \o one, M)
    BY <1>4, SomeConcat
  <2> QED
    BY <1>3, <1>4, <2>1, <2>2
<1>6. \A x \in Requests \ {r} : t \notin SettledOf(x) /\ t \notin AbortOf(x) /\ t \notin CancelOf(x)
  BY DEF Tasks, SettledOf, AbortOf, CancelOf
<1>7. \A x \in Requests \ {r} : TasksOf(tasks, {}, x)
  BY <1>5, <1>6 DEF TasksOf
<1>8. Moves(pool, pool, r, {})
  BY DEF Moves
<1>9. RequestOK(r)'
  BY <1>1, <1>5 DEF RequestOK, Queued
<1> QED
  BY <1>7, <1>8, <1>9, OthersOK

LEMMA SendLease ==
  ASSUME LeaseInv, NEW r \in Requests, Send(r) PROVE \A x \in Requests : RequestOK(x)'
<1>1. /\ ~Sent(r) /\ Sent(r)' /\ ~Done(r)' /\ pc[r] = "built"
      /\ \A x \in Requests \ {r} : pc'[x] = pc[x]
  BY DEF Send, Start, LeaseInv, HttpInv, Sent, Done
<1>2. /\ r \notin pool.leased /\ ~Queued(r) /\ r \notin calling
      /\ ~Some(tasks, SettledOf(r)) /\ ~Some(tasks, AbortOf(r)) /\ ~Some(tasks, CancelOf(r))
      /\ r \notin aborted /\ RequestOK(r)
  BY <1>1, UnsentClean DEF LeaseInv, RequestOK
<1>3. /\ UNCHANGED late /\ OthersKept(r)
      /\ SentAborted(r) \/ AsksPool(r)
  BY <1>1 DEF Send, SentAborted, AsksPool, OthersKept, Calls
<1>4. PICK p : p = pool
  OBVIOUS
<1>5. PoolInv(p) /\ p \in Pools
  BY <1>4 DEF LeaseInv, HttpInv, PoolInv
<1>6. CASE AsksPool(r) /\ HasPermit(pool)
  <2>1. /\ pool' = MakeLease(p, r) /\ tasks' = tasks /\ aborted' = aborted
        /\ r \in holds' /\ r \in calling' /\ r \in cancels'
    BY <1>4, <1>6 DEF AsksPool, Calls
  <2>2. pool'.leased = p.leased \cup {r} /\ pool'.queue = p.queue
    BY <1>5, <2>1 DEF MakeLease, Pools
  <2>3. Moves(pool, pool', r, {})
    BY <1>4, <2>2 DEF Moves
  <2>4. \A x \in Requests \ {r} : TasksOf(tasks, {}, x)
    BY <2>1 DEF TasksOf
  <2>5. RequestOK(r)'
    BY <1>1, <1>2, <1>3, <1>4, <2>1, <2>2 DEF RequestOK, Queued
  <2> QED
    BY <1>3, <2>3, <2>4, <2>5, OthersOK
<1>7. CASE AsksPool(r) /\ ~HasPermit(pool) /\ ~IsFull(pool)
  <2>1. /\ pool' = Enqueue(p, r) /\ tasks' = tasks /\ calling' = calling
        /\ aborted' = aborted
    BY <1>4, <1>7 DEF AsksPool
  <2>2. pool'.leased = p.leased /\ pool'.queue = Append(p.queue, r)
    BY <1>5, <2>1 DEF Enqueue, Pools
  <2>3. ToSet(pool'.queue) = ToSet(p.queue) \cup {r}
    BY <1>5, <2>2, AppendNode, ClientsAssumption DEF Pools
  <2>4. Moves(pool, pool', r, {})
    BY <1>4, <2>2, <2>3 DEF Moves
  <2>5. \A x \in Requests \ {r} : TasksOf(tasks, {}, x)
    BY <2>1 DEF TasksOf
  <2>6. RequestOK(r)'
    BY <1>1, <1>2, <1>3, <1>4, <2>1, <2>2 DEF RequestOK, Queued
  <2> QED
    BY <1>3, <2>4, <2>5, <2>6, OthersOK
<1>8. CASE AsksPool(r) /\ ~HasPermit(pool) /\ IsFull(pool)
  <2>1. PICK t : t = Task("settled", r, FALSE)
    OBVIOUS
  <2>2. /\ pool' = pool /\ tasks' = Append(tasks, t) /\ calling' = calling
    BY <1>8, <2>1 DEF AsksPool, PoolKept
  <2>3. t \in Tasks({r}) /\ t \notin AbortOf(r) /\ t \notin CancelOf(r)
    BY <2>1 DEF Task, Tasks, AbortOf, CancelOf
  <2> QED
    BY <1>1, <1>3, <2>2, <2>3, PostedFirst
<1>9. CASE SentAborted(r)
  <2>1. PICK t : t = Task("abort", r, FALSE)
    OBVIOUS
  <2>2. /\ pool' = pool /\ tasks' = Append(tasks, t) /\ calling' = calling
        /\ r \in aborted'
    BY <1>9, <2>1 DEF SentAborted, PoolKept
  <2>3. t \in Tasks({r}) /\ t \notin CancelOf(r)
    BY <2>1 DEF Task, Tasks, CancelOf
  <2> QED
    BY <1>1, <1>3, <2>2, <2>3, PostedFirst
<1> QED
  BY <1>3, <1>6, <1>7, <1>8, <1>9

LEMMA AnswerLease ==
  ASSUME LeaseInv, NEW r \in Requests, Answer(r) PROVE \A x \in Requests : RequestOK(x)'
<1>1. HttpInv /\ RequestOK(r) /\ Sent(r) /\ FirstOf(tasks, r)
  BY DEF LeaseInv, HttpInv, Answer, FirstOf
<1>2. CASE Done(r)
  <2>1. /\ pool' = pool /\ tasks' = tasks /\ pc' = pc /\ calling' = calling \ {r}
        /\ UNCHANGED <<holds, cancels, aborted, late>>
    BY <1>2 DEF Answer, NotFinished, requestVars
  <2>2. OthersKept(r)
    BY <2>1 DEF OthersKept
  <2>3. RequestOK(r)'
    BY <1>1, <2>1 DEF RequestOK, Queued, Done, Sent
  <2> QED
    BY <1>1, <2>1, <2>2, <2>3, KeptOthers
<1>3. CASE ~Done(r)
  <2>1. /\ PoolBecomes(Release(pool, r), tasks, <<>>) /\ calling' = calling \ {r}
        /\ cancels' = cancels \ {r} /\ UNCHANGED <<holds, aborted, late>>
        /\ pc' = [pc EXCEPT ![r] = "ended"]
    BY <1>3 DEF Answer, Finish
  <2>2. OthersKept(r) /\ Sent(r)'
    BY <1>1, <2>1 DEF OthersKept, HttpInv, Sent
  <2>3. /\ PoolInv(Release(pool, r)) /\ r \notin Release(pool, r).leased
        /\ r \in ToSet(Release(pool, r).queue) => Queued(r)
        /\ \E g : Moves(pool, Release(pool, r), r, g) /\ Grants(Release(pool, r), g)
    BY <1>1, ReleaseInv, ReleaseMoves DEF HttpInv, Queued
  <2>4. PICK q : q = Release(pool, r)
    OBVIOUS
  <2>5. <<>> \in Seq(Tasks({r}))
    OBVIOUS
  <2>6. /\ \A x \in Requests \ {r} : RequestOK(x)'
        /\ Posted(tasks, {}, <<>>, r)
        /\ pool'.leased = q.leased /\ pool'.queue = q.queue
    BY <1>1, <2>1, <2>2, <2>3, <2>4, <2>5, BecomesOthers
  <2>7. \A M : ~Some(<<>>, M) /\ Once(<<>>, M)
    BY SomeSingle
  <2>8. RequestOK(r)'
    BY <1>1, <2>1, <2>2, <2>3, <2>4, <2>6, <2>7 DEF RequestOK, Queued, Posted
  <2> QED
    BY <2>6, <2>8
<1> QED
  BY <1>2, <1>3

LEMMA MicrotaskLease ==
  ASSUME LeaseInv, Microtask PROVE \A x \in Requests : RequestOK(x)'
<1>1. HttpInv /\ tasks # <<>> /\ tasks \in Seq(Tasks(Requests)) /\ UNCHANGED <<aborted, late>>
  BY TypedTasks DEF LeaseInv, Microtask
<1>2. PICK U, q, t, first :
        U = Tasks(Requests) /\ q = tasks /\ t = Head(q) /\ first = Tail(q)
  OBVIOUS
<1>3. q \in Seq(U) /\ q # <<>> /\ t \in U
  BY <1>1, <1>2
<1>4. PICK r : r = t.of
  OBVIOUS
<1>5. r \in Requests /\ t \in Tasks(Requests) /\ FirstOf(first, r) /\ RequestOK(r)
  BY <1>1, <1>2, <1>3, <1>4 DEF Tasks, FirstOf, LeaseInv
<1>6. \A M : /\ Some(tasks, M) <=> t \in M \/ Some(first, M)
             /\ Once(tasks, M) => Once(first, M) /\ ~(t \in M /\ Some(first, M))
  BY <1>2, <1>3, SomeTail
<1>7. \/ t.kind = "settled" /\ Delivered(r, t.flag)
      \/ t.kind = "abort" /\ Aborts(r, t.flag)
  BY <1>2, <1>4 DEF Microtask
<1>8. \A x \in Requests \ {r} : pc'[x] = pc[x]
  BY <1>1, <1>7 DEF Delivered, Refused, Aborts, Finish, NotFinished, requestVars, HttpInv
<1>9. OthersKept(r)
  BY <1>1, <1>7, <1>8 DEF OthersKept, Delivered, Aborts, Calls
<1>10. Sent(r) /\ Sent(r)'
  <2>1. tasks \in Seq(Tasks({x \in Requests : Sent(x)}))
    BY <1>1 DEF HttpInv
  <2>2. PICK V : V = Tasks({x \in Requests : Sent(x)})
    OBVIOUS
  <2>3. t \in V
    BY <1>1, <1>2, <2>1, <2>2
  <2>4. Sent(r)
    BY <1>4, <2>2, <2>3 DEF Tasks
  <2> QED
    BY <1>1, <1>5, <1>7, <2>4
       DEF Delivered, Refused, Aborts, Finish, NotFinished, requestVars, HttpInv, Sent
<1>11. CASE t.kind = "settled" /\ Delivered(r, t.flag)
  <2>1. t \in SettledOf(r) /\ t \notin AbortOf(r) /\ t \notin CancelOf(r)
    BY <1>4, <1>5, <1>11 DEF Tasks, SettledOf, AbortOf, CancelOf
  <2>2. /\ Some(tasks, SettledOf(r)) /\ ~Some(first, SettledOf(r)) /\ Once(first, SettledOf(r))
        /\ Some(tasks, AbortOf(r)) <=> Some(first, AbortOf(r))
        /\ Some(tasks, CancelOf(r)) <=> Some(first, CancelOf(r))
    BY <1>5, <1>6, <2>1 DEF RequestOK
  <2>3. CASE Done(r) /\ r \in pool.leased
    <3>1. /\ PoolBecomes(Release(pool, r), first, <<>>) /\ pc' = pc
          /\ UNCHANGED <<holds, calling, cancels>>
      BY <1>2, <1>11, <2>3 DEF Delivered, NotFinished, requestVars
    <3>2. /\ PoolInv(Release(pool, r)) /\ r \notin Release(pool, r).leased
          /\ r \in ToSet(Release(pool, r).queue) => Queued(r)
          /\ \E g : Moves(pool, Release(pool, r), r, g) /\ Grants(Release(pool, r), g)
      BY <1>1, ReleaseInv, ReleaseMoves DEF HttpInv, Queued
    <3>3. PICK p : p = Release(pool, r)
      OBVIOUS
    <3>4. <<>> \in Seq(Tasks({r}))
      OBVIOUS
    <3>5. /\ \A x \in Requests \ {r} : RequestOK(x)'
          /\ Posted(first, {}, <<>>, r)
          /\ pool'.leased = p.leased /\ pool'.queue = p.queue
      BY <1>5, <1>9, <3>1, <3>2, <3>3, <3>4, BecomesOthers
    <3>6. \A M : ~Some(<<>>, M) /\ Once(<<>>, M)
      BY SomeSingle
    <3>7. RequestOK(r)'
      BY <1>1, <1>5, <1>10, <2>2, <2>3, <3>1, <3>2, <3>3, <3>5, <3>6
         DEF RequestOK, Queued, Posted
    <3> QED
      BY <3>5, <3>7
  <2>4. CASE ~(Done(r) /\ r \in pool.leased)
    <3>1. pool' = pool /\ tasks' = first
      BY <1>2, <1>11, <2>4 DEF Delivered, PoolKept
    <3>2. RequestOK(r)'
      <4>1. CASE ~Done(r) /\ r \in pool.leased
        <5>1. r \in holds' /\ r \in cancels' /\ pc' = pc
          BY <1>11, <4>1 DEF Delivered, Calls, NotFinished, requestVars
        <5> QED
          BY <1>1, <1>5, <1>10, <2>2, <3>1, <4>1, <5>1 DEF RequestOK, Queued, Done
      <4>2. CASE r \notin pool.leased
        <5>1. calling' = calling
          BY <1>11, <4>2 DEF Delivered
        <5> QED
          BY <1>1, <1>5, <1>10, <2>2, <3>1, <4>2, <5>1 DEF RequestOK, Queued
      <4> QED
        BY <2>4, <4>1, <4>2
    <3> QED
      BY <1>5, <1>9, <3>1, <3>2, KeptOthers
  <2> QED
    BY <2>3, <2>4
<1>12. CASE t.kind = "abort" /\ Aborts(r, t.flag)
  <2>1. /\ t \notin SettledOf(r) /\ t \in AbortOf(r) /\ (t \in CancelOf(r) => t.flag)
    BY <1>4, <1>5, <1>12 DEF Tasks, SettledOf, AbortOf, CancelOf
  <2>2. /\ Some(tasks, SettledOf(r)) <=> Some(first, SettledOf(r))
        /\ Once(first, SettledOf(r)) /\ r \in aborted
        /\ Some(first, CancelOf(r)) => Some(tasks, CancelOf(r))
        /\ ~t.flag => (Some(tasks, CancelOf(r)) <=> Some(first, CancelOf(r)))
    BY <1>5, <1>6, <2>1 DEF RequestOK
  <2>3. /\ pool' = pool /\ tasks' = first
        /\ calling' = IF t.flag THEN calling \ {r} ELSE calling
    BY <1>2, <1>12 DEF Aborts, PoolKept
  <2>4. Done(r)'
    BY <1>1, <1>5, <1>12 DEF Aborts, Finish, NotFinished, requestVars, Done, HttpInv
  <2>5. RequestOK(r)'
    BY <1>1, <1>5, <1>10, <2>2, <2>3, <2>4 DEF RequestOK, Queued
  <2> QED
    BY <1>5, <1>9, <2>3, <2>5, KeptOthers
<1> QED
  BY <1>7, <1>11, <1>12

LEMMA RefusalTasks ==
  ASSUME NEW r \in Requests, NEW b \in BOOLEAN
  PROVE  /\ Refusal(r, b) \in Seq(Tasks({r}))
         /\ Some(Refusal(r, b), SettledOf(r)) <=> Queued(r)
         /\ ~Some(Refusal(r, b), AbortOf(r)) /\ ~Some(Refusal(r, b), CancelOf(r))
         /\ Once(Refusal(r, b), SettledOf(r))
<1>1. PICK U, t : U = Tasks({r}) /\ t = Task("settled", r, b)
  OBVIOUS
<1>2. t \in U /\ t \in SettledOf(r) /\ t \notin AbortOf(r) /\ t \notin CancelOf(r)
  BY <1>1 DEF Task, Tasks, SettledOf, AbortOf, CancelOf
<1>3. <<>> \in Seq(U) /\ <<t>> \in Seq(U)
  BY <1>2
<1> QED
  BY <1>1, <1>2, <1>3, SomeSingle DEF Refusal

\* A request that stops early (Withdrawn) and posts `more`.
LEMMA WithdrawsLease ==
  ASSUME LeaseInv, NEW r \in Requests, NEW more \in Seq(Tasks({r})),
         PoolBecomes(Withdrawn(r), tasks, more), OthersKept(r)
  PROVE  /\ \A x \in Requests \ {r} : RequestOK(x)'
         /\ Posted(tasks, {}, more, r)
         /\ ~Queued(r)' /\ (r \in pool'.leased => r \in pool.leased /\ r \notin holds)
<1>1. HttpInv /\ FirstOf(tasks, r)
  BY DEF LeaseInv, FirstOf
<1>2. PICK q : q = Withdrawn(r)
  OBVIOUS
<1>3. /\ PoolInv(q) /\ r \notin ToSet(q.queue)
      /\ r \in q.leased => r \in pool.leased /\ r \notin holds
      /\ \E g : Moves(pool, q, r, g) /\ Grants(q, g)
  BY <1>1, <1>2, WithdrawnPool, WithdrawnMoves
<1>4. /\ \A x \in Requests \ {r} : RequestOK(x)'
      /\ Posted(tasks, {}, more, r)
      /\ pool'.leased = q.leased /\ pool'.queue = q.queue
  BY <1>1, <1>2, <1>3, BecomesOthers
<1> QED
  BY <1>3, <1>4 DEF Queued

LEMMA StopsLease ==
  ASSUME LeaseInv, NEW r \in Requests, NEW outcome, Stops(r, outcome),
         \A x \in Requests \ {r} : x \in holds' <=> x \in holds, late' = late
  PROVE  \A x \in Requests : RequestOK(x)'
<1>1. /\ pc[r] = "running" /\ pc' = [pc EXCEPT ![r] = "ended"]
      /\ PoolBecomes(Withdrawn(r), tasks, Refusal(r, TRUE)) /\ aborted' = aborted
      /\ calling' = IF r \in cancels THEN calling \ {r} ELSE calling
      /\ cancels' = cancels \ {r}
  BY DEF Stops, Active, Finish
<1>2. HttpInv /\ RequestOK(r)
  BY DEF LeaseInv
<1>3. OthersKept(r) /\ Sent(r)' /\ Done(r)' /\ ~Done(r)
  BY <1>1, <1>2 DEF OthersKept, HttpInv, Sent, Done
<1>4. PICK more : more = Refusal(r, TRUE)
  OBVIOUS
<1>5. /\ more \in Seq(Tasks({r})) /\ Once(more, SettledOf(r))
      /\ Some(more, SettledOf(r)) <=> Queued(r)
      /\ ~Some(more, AbortOf(r)) /\ ~Some(more, CancelOf(r))
  BY <1>4, RefusalTasks
<1>6. /\ \A x \in Requests \ {r} : RequestOK(x)'
      /\ Posted(tasks, {}, more, r)
      /\ ~Queued(r)' /\ (r \in pool'.leased => r \in pool.leased /\ r \notin holds)
  BY <1>1, <1>3, <1>4, <1>5, WithdrawsLease
<1>7. RequestOK(r)'
  BY <1>1, <1>2, <1>3, <1>5, <1>6 DEF RequestOK, Posted
<1> QED
  BY <1>6, <1>7

LEMMA CallerAbortsLease ==
  ASSUME LeaseInv, NEW r \in Requests, CallerAborts(r)
  PROVE  \A x \in Requests : RequestOK(x)'
<1>1. /\ pc[r] = "running" /\ aborted' = aborted \cup {r}
      /\ late' = IF r \in pool.leased \ holds THEN late \cup {r} ELSE late
      /\ cancels' = cancels \ {r} /\ holds' = holds \ {r}
  BY DEF CallerAborts, Active
<1>2. HttpInv /\ RequestOK(r)
  BY DEF LeaseInv
<1>3. CASE /\ NotFinished /\ UNCHANGED calling
           /\ PoolBecomes(Withdrawn(r), tasks,
                          Append(Refusal(r, TRUE), Task("abort", r, r \in cancels)))
  <2>1. OthersKept(r) /\ Sent(r)'
    BY <1>1, <1>3 DEF OthersKept, NotFinished, requestVars, Sent
  <2>2. PICK f, t, U : f = Refusal(r, TRUE) /\ t = Task("abort", r, r \in cancels) /\ U = Tasks({r})
    OBVIOUS
  <2>3. /\ t \in U /\ t \notin SettledOf(r) /\ t \in AbortOf(r)
        /\ t \in CancelOf(r) <=> r \in cancels
    <3>1. PICK yes, no : yes = Task("abort", r, TRUE) /\ no = Task("abort", r, FALSE)
      OBVIOUS
    <3>2. IF r \in cancels THEN t = yes ELSE t = no
      <4>1. CASE r \in cancels
        <5>1. (r \in cancels) = TRUE
          BY <4>1
        <5> QED
          BY <2>2, <3>1, <4>1, <5>1
      <4>2. CASE r \notin cancels
        <5>1. (r \in cancels) = FALSE
          BY <4>2
        <5> QED
          BY <2>2, <3>1, <4>2, <5>1
      <4> QED
        BY <4>1, <4>2
    <3>3. yes \in U /\ yes \notin SettledOf(r) /\ yes \in AbortOf(r)
      BY <2>2, <3>1 DEF Task, Tasks, SettledOf, AbortOf
    <3>4. no \in U /\ no \notin SettledOf(r) /\ no \in AbortOf(r)
      BY <2>2, <3>1 DEF Task, Tasks, SettledOf, AbortOf
    <3>5. yes \in CancelOf(r) /\ no \notin CancelOf(r)
      BY <3>1 DEF Task, CancelOf
    <3> QED
      BY <3>2, <3>3, <3>4, <3>5
  <2>4. f \in Seq(U) /\ <<t>> \in Seq(U)
    <3>1. \A b \in BOOLEAN : Refusal(r, b) \in Seq(Tasks({r}))
      BY RefusalTasks
    <3>2. Refusal(r, TRUE) \in Seq(Tasks({r}))
      BY <3>1
    <3>3. <<t>> \in Seq(U)
      BY <2>3
    <3> QED
      BY <2>2, <3>2, <3>3
  <2>5. PICK more, one : more = Append(f, t) /\ one = <<t>>
    OBVIOUS
  <2>6. more = f \o one /\ one \in Seq(U) /\ more \in Seq(U)
    BY <2>3, <2>4, <2>5, AppendIsConcat
  <2>7. \A M : /\ Some(more, M) <=> Some(f, M) \/ t \in M
               /\ Once(f, M) /\ ~(Some(f, M) /\ t \in M) => Once(more, M)
    <3> SUFFICES ASSUME NEW M
                 PROVE  /\ Some(more, M) <=> Some(f, M) \/ t \in M
                        /\ Once(f, M) /\ ~(Some(f, M) /\ t \in M) => Once(more, M)
      OBVIOUS
    <3>1. (Some(one, M) <=> t \in M) /\ Once(one, M)
      BY <2>5, SomeSingle
    <3>2. /\ Some(f \o one, M) <=> Some(f, M) \/ Some(one, M)
          /\ Once(f, M) /\ Once(one, M) /\ ~(Some(f, M) /\ Some(one, M)) => Once(f \o one, M)
      BY <2>4, <2>6, SomeConcat
    <3> QED
      BY <2>6, <3>1, <3>2
  <2>8. /\ Once(more, SettledOf(r))
        /\ Some(more, SettledOf(r)) <=> Queued(r)
        /\ Some(more, CancelOf(r)) <=> r \in cancels
    BY <2>2, <2>3, <2>7, RefusalTasks
  <2>9. /\ \A x \in Requests \ {r} : RequestOK(x)'
        /\ Posted(tasks, {}, more, r)
        /\ ~Queued(r)' /\ (r \in pool'.leased => r \in pool.leased /\ r \notin holds)
    BY <1>3, <2>1, <2>2, <2>5, <2>6, WithdrawsLease
  <2>10. Some(tasks', CancelOf(r)) <=> Some(tasks, CancelOf(r)) \/ r \in cancels
    BY <2>8, <2>9 DEF Posted
  <2>11. r \in calling' => Some(tasks', CancelOf(r)) \/ (Done(r) /\ r \in calling)
    BY <1>2, <1>3, <2>10 DEF RequestOK
  <2>12. ~Done(r)
    BY <1>1 DEF Done
  <2>13. Once(tasks', SettledOf(r))
    BY <1>2, <2>8, <2>9 DEF RequestOK, Posted
  <2>14. RequestOK(r)'
    BY <1>1, <2>1, <2>9, <2>11, <2>12, <2>13 DEF RequestOK
  <2> QED
    BY <2>9, <2>14
<1>4. CASE /\ calling' = calling \ {r} /\ Finish(r, "abort")
           /\ PoolBecomes(Withdrawn(r), tasks, <<Task("abort", r, FALSE)>>)
           /\ r \in holds /\ r \in calling
  <2>1. OthersKept(r) /\ Sent(r)'
    BY <1>1, <1>2, <1>4 DEF OthersKept, Finish, HttpInv, Sent
  <2>2. PICK t, U : t = Task("abort", r, FALSE) /\ U = Tasks({r})
    OBVIOUS
  <2>3. t \in U /\ t \notin SettledOf(r)
    BY <2>2 DEF Task, Tasks, SettledOf
  <2>4. PICK more : more = <<t>>
    OBVIOUS
  <2>5. more \in Seq(U) /\ ~Some(more, SettledOf(r)) /\ Once(more, SettledOf(r))
    BY <2>3, <2>4, SomeSingle
  <2>6. /\ \A x \in Requests \ {r} : RequestOK(x)'
        /\ Posted(tasks, {}, more, r)
        /\ ~Queued(r)' /\ (r \in pool'.leased => r \in pool.leased /\ r \notin holds)
    BY <1>4, <2>1, <2>2, <2>4, <2>5, WithdrawsLease
  <2>7. RequestOK(r)'
    BY <1>1, <1>2, <1>4, <2>1, <2>5, <2>6 DEF RequestOK, Posted
  <2> QED
    BY <2>6, <2>7
<1> QED
  BY <1>3, <1>4 DEF CallerAborts

LEMMA QueueTimesOutLease ==
  ASSUME LeaseInv, NEW r \in Requests, QueueTimesOut(r)
  PROVE  \A x \in Requests : RequestOK(x)'
<1>1. /\ PoolBecomes(RemoveWaiter(pool, r), tasks, Refusal(r, FALSE)) /\ pc' = pc /\ Queued(r)
      /\ UNCHANGED <<holds, calling, cancels, aborted, late>>
  BY DEF QueueTimesOut, NotFinished, requestVars
<1>2. HttpInv /\ RequestOK(r) /\ OthersKept(r)
  BY <1>1 DEF LeaseInv, OthersKept
<1>3. Withdrawn(r) = RemoveWaiter(pool, r)
  BY <1>1 DEF Withdrawn
<1>4. PICK more : more = Refusal(r, FALSE)
  OBVIOUS
<1>5. /\ more \in Seq(Tasks({r})) /\ Once(more, SettledOf(r))
      /\ Some(more, SettledOf(r)) <=> Queued(r)
      /\ ~Some(more, AbortOf(r)) /\ ~Some(more, CancelOf(r))
  BY <1>4, RefusalTasks
<1>6. /\ \A x \in Requests \ {r} : RequestOK(x)'
      /\ Posted(tasks, {}, more, r)
      /\ ~Queued(r)' /\ (r \in pool'.leased => r \in pool.leased /\ r \notin holds)
  BY <1>1, <1>2, <1>3, <1>4, <1>5, WithdrawsLease
<1>7. r \notin pool.leased
  BY <1>1, <1>2 DEF HttpInv, PoolInv, Queued
<1>8. RequestOK(r)'
  BY <1>1, <1>2, <1>5, <1>6, <1>7 DEF RequestOK, Posted, Done, Sent
<1> QED
  BY <1>6, <1>8

LEMMA LeaseNext == LeaseInv /\ [HttpNext]_httpVars => LeaseInv'
<1> SUFFICES ASSUME LeaseInv, [HttpNext]_httpVars PROVE \A x \in Requests : RequestOK(x)'
  BY HttpNextStep DEF LeaseInv
<1>1. CASE UNCHANGED httpVars \/ ((Reset \/ Tick) /\ UNCHANGED clientVars)
  <2>1. UNCHANGED clientVars /\ pc' = pc
    BY <1>1 DEF httpVars, vars, requestVars, Reset, Tick
  <2> QED
    BY <2>1, SameLease DEF Done, Sent
<1>2. ASSUME NEW r \in Requests, CallerCancels(r) \/ TimesOut(r)
      PROVE  \A x \in Requests : RequestOK(x)'
  <2>1. /\ late' = late /\ \A x \in Requests \ {r} : x \in holds' <=> x \in holds
        /\ Stops(r, "interrupt") \/ Stops(r, "failure")
    BY <1>2 DEF CallerCancels, TimesOut
  <2> QED
    BY <2>1, StopsLease
<1> QED
  BY <1>1, <1>2, AdmitLease, SendLease, AnswerLease, MicrotaskLease, CallerAbortsLease,
     QueueTimesOutLease DEF HttpNext

LEMMA LeaseSafe == LeaseInv => LeasesFollowCalls
<1> SUFFICES ASSUME LeaseInv PROVE LeasesFollowCalls
  OBVIOUS
<1>1. HttpInv /\ calling \subseteq Requests
  BY DEF LeaseInv, HttpInv
<1>2. LeaseReturned
  BY <1>1, TypedTasks DEF LeaseReturned, LeaseInv, RequestOK
<1>3. tasks = <<>> => \A M : ~Some(tasks, M)
  BY SomeSingle
<1>4. CallsHavePermits
  BY <1>1, <1>3 DEF CallsHavePermits, LeaseInv, RequestOK
<1> QED
  BY <1>2, <1>4 DEF LeasesFollowCalls

-----------------------------------------------------------------------------
(* The theorems *)

\* Whatever is aborted, cancelled, timed out or answered when, the pool's
\* counter is the number of leases out, never more than its limit, and nobody
\* queues while a permit is free (pool.ts).
THEOREM PoolExactTheorem == HttpSpec => []PoolExact
<1>1. HttpInv => PoolExact
  BY DEF HttpInv, PoolInv, PoolExact
<1> QED
  BY <1>1, HttpInvariant, PTL

\* Permits go to the first of the queue, and a newcomer takes one only when
\* nobody waits, whoever leaves the queue early.
THEOREM GrantsInOrderTheorem == HttpSpec => GrantsInOrder
<1>1. HttpInv /\ [HttpNext]_httpVars =>
        [\A r \in pool'.leased \ pool.leased :
           pool.queue # <<>> => r = Head(pool.queue)]_httpVars
  BY NextServes DEF FirstServed
<1> QED
  BY <1>1, HttpInvariant, HttpNextStep, PTL DEF HttpSpec, GrantsInOrder

\* A finished request owns no permit once its microtasks have run, unless it was
\* aborted between grant and delivery, and between two macrotasks no call goes on
\* without a permit, whatever aborts, timeouts, cancels and answers interleave.
THEOREM LeasesFollowCallsTheorem == HttpSpec => []LeasesFollowCalls
<1>1. HttpSpec => []LeaseInv
  BY LeaseInit, LeaseNext, PTL DEF HttpSpec
<1> QED
  BY <1>1, LeaseSafe, PTL

\* The client is a correct user of the breaker: a request that timed out, was
\* aborted or cancelled is not reported to it a second time.
THEOREM ImplementsBreakerTheorem == HttpSpec => ImplementsBreaker
<1>1. HttpInit => Init
  BY DEF HttpInit
<1> QED
  BY <1>1, HttpInvariant, HttpNextStep, PTL DEF HttpSpec, ImplementsBreaker, Spec

\* What is proved of the breaker alone therefore holds of the client: an open
\* circuit lets nobody through before resetTimeout has passed, ...
THEOREM ClientCoolsDown == HttpSpec => CoolsDown
BY ImplementsBreakerTheorem, CoolsDownTheorem, PTL DEF ImplementsBreaker

\* ... and its counts are those of the present round.
THEOREM ClientCountsOfThisRound == HttpSpec => []CountsOfThisRound
BY ImplementsBreakerTheorem, CountsOfThisRoundTheorem, PTL DEF ImplementsBreaker

-----------------------------------------------------------------------------
(* The timer wheel: its numbers.                                             *)

LEMMA WheelNumbers ==
  /\ Slots \in Nat \ {0} /\ Lag \in Nat /\ TickMs \in Nat /\ FineTickMs \in Nat
  /\ Tracks = {"wheel", "fine"} /\ "none" \notin Tracks
  /\ \A tr \in Tracks : Period[tr] \in Nat \ {0} /\ Turns[tr] \in Nat \ {0}
                        /\ Period[tr] <= TickMs + FineTickMs
  /\ Turns["wheel"] = Slots /\ Turns["fine"] = 1
  /\ Period["wheel"] = TickMs /\ Period["fine"] = FineTickMs
  /\ None \notin Entries /\ None \notin Int /\ IsFiniteSet(Entries)
  /\ Cardinality(Entries) \in Nat /\ HostTimers \subseteq Nat \ {0}
BY WheelAssumption, FS_CardinalityType DEF Tracks, Period, Turns, HostTimers

LEMMA WheelFields ==
  ASSUME NEW v \in WheelType
  PROVE  /\ v.head \in [Lists -> Later(Entries)] /\ v.next \in [Entries -> Later(Entries)]
         /\ v.prev \in [Entries -> Later(Entries)] /\ v.slot \in [Entries -> Lists]
         /\ v.status \in [Entries -> {"new", "pending", "fired", "cancelled"}]
         /\ v.left \in [Entries -> Int] /\ v.tick \in 0..Slots - 1
         /\ v.pending \in [Tracks -> 0..Cardinality(Entries)]
         /\ v.handle \in [Tracks -> HostTimers \cup {NoTimer}]
         /\ v.due \in [Tracks -> [HostTimers -> Later(-Lag..TickMs + FineTickMs)]]
BY DEF WheelType

LEMMA TracksOfLists ==
  /\ \A l \in Lists : TrackOf(l) \in Tracks
  /\ Fine \in Lists /\ TrackOf(Fine) = "fine"
  /\ \A l \in 0..Slots - 1 : l \in Lists /\ l # Fine /\ TrackOf(l) = "wheel" /\ l \in Int
  /\ \A l \in Lists : l = Fine \/ l \in 0..Slots - 1
<1>1. \A l \in 0..Slots - 1 : l # Fine /\ l \in Int
  BY WheelNumbers DEF Fine
<1> QED
  BY <1>1 DEF Lists, TrackOf, Tracks

\* A tick later, a slot is one tick nearer, or its turn has come.
LEMMA TickOn ==
  ASSUME NEW t \in 0..Slots - 1
  PROVE  (t + 1) % Slots = (IF t + 1 = Slots THEN 0 ELSE t + 1) /\ (t + 1) % Slots \in 0..Slots - 1
<1>1. PICK s \in Nat \ {0} : s = Slots
  BY WheelNumbers
<1>2. t \in 0..s - 1
  BY <1>1
<1>3. CASE t + 1 = s
  <2>1. s % s = 0
    BY <1>1
  <2> QED
    BY <1>1, <1>2, <1>3, <2>1
<1>4. CASE t + 1 # s
  <2>1. t + 1 \in Nat /\ t + 1 < s
    BY <1>2, <1>4
  <2>2. (t + 1) % s = t + 1
    BY <1>1, <2>1
  <2> QED
    BY <1>1, <1>2, <2>1, <2>2
<1> QED
  BY <1>3, <1>4

LEMMA TicksToTurn ==
  ASSUME NEW v, v.tick \in 0..Slots - 1, NEW l \in Lists
  PROVE  /\ TicksTo(v, l) \in Nat \ {0} /\ TicksTo(v, l) <= Turns[TrackOf(l)]
         /\ l # Fine => (TicksTo(v, l) = Slots <=> l = v.tick)
         /\ l = v.tick \/ l = Fine => TicksTo(v, l) = Turns[TrackOf(l)]
<1>1. CASE l = Fine
  BY <1>1, WheelNumbers, TracksOfLists DEF TicksTo
<1>2. CASE l # Fine
  <2>1. l \in 0..Slots - 1 /\ TrackOf(l) = "wheel"
    BY <1>2, TracksOfLists
  <2>2. PICK t, s \in Int : t = v.tick /\ s = Slots
    BY WheelNumbers
  <2>3. TicksTo(v, l) = IF l > t THEN l - t ELSE l - t + s
    BY <1>2, <2>2 DEF TicksTo
  <2>4. s > 0 /\ t \in 0..s - 1 /\ l \in 0..s - 1 /\ Turns[TrackOf(l)] = s
    BY <2>1, <2>2, WheelNumbers
  <2> QED
    BY <1>2, <2>2, <2>3, <2>4
<1> QED
  BY <1>1, <1>2

LEMMA SlackNumbers ==
  ASSUME NEW tr \in Tracks, NEW d \in Int
  PROVE  /\ Slack(tr, d) \in Int
         /\ Slack(tr, d - 1) = Slack(tr, d) + Period[tr] + Lag
         /\ d <= Turns[tr] => Slack(tr, d) >= 0
         /\ d = Turns[tr] => Slack(tr, d) = 0
         /\ Slack(tr, 0) = Rotation[tr]
         /\ d >= 0 => Slack(tr, d) <= Rotation[tr]
<1>1. PICK p \in Nat : p = Period[tr] + Lag
  <2>1. Period[tr] + Lag \in Nat
    BY WheelNumbers
  <2> QED
    BY <2>1, Zenon
<1>2. PICK n \in Nat : n = Turns[tr]
  BY WheelNumbers
<1>3. \A k : Slack(tr, k) = (n - k) * p
  BY <1>1, <1>2 DEF Slack
<1>4. (n - d) * p \in Int
  OBVIOUS
<1>5. (n - (d - 1)) * p = (n - d) * p + p
  OBVIOUS
<1>6. d <= n => (n - d) * p >= 0
  <2>1. ASSUME d <= n PROVE (n - d) * p >= 0
    <3>1. PICK k \in Nat : k = n - d
      <4>1. n - d \in Nat
        BY <2>1
      <4> QED
        BY <4>1, Zenon
    <3>2. k * p >= 0
      OBVIOUS
    <3> QED
      BY <3>1, <3>2
  <2> QED
    BY <2>1
<1>7. d = n => (n - d) * p = 0
  <2>1. ASSUME d = n PROVE (n - d) * p = 0
    <3>1. n - d = 0 /\ 0 * p = 0
      BY <2>1
    <3> QED
      BY <3>1
  <2> QED
    BY <2>1
<1>8. (n - 0) * p = Rotation[tr]
  BY <1>1, <1>2 DEF Rotation
<1>9. d >= 0 => (n - d) * p <= (n - 0) * p
  <2>1. ASSUME d >= 0 PROVE (n - d) * p <= n * p
    <3>1. d * p >= 0 /\ (n - d) * p = n * p - d * p /\ n * p \in Int /\ d * p \in Int
      BY <2>1
    <3>2. PICK a, b \in Int : a = n * p /\ b = d * p
      BY <3>1
    <3> QED
      BY <3>1, <3>2
  <2> QED
    BY <2>1
<1>10. PICK a, b \in Int : a = (n - d) * p /\ b = (n - 0) * p
  BY <1>4
<1>11. Slack(tr, d) = a /\ Slack(tr, d - 1) = a + p /\ Slack(tr, 0) = b /\ b = Rotation[tr]
  BY <1>3, <1>5, <1>8, <1>10
<1>12. a + p = a + Period[tr] + Lag
  BY <1>1, WheelNumbers
<1> QED
  BY <1>2, <1>6, <1>7, <1>9, <1>10, <1>11, <1>12

-----------------------------------------------------------------------------
(* The lists.                                                                *)

\* What a pending entry and a head point to.
LEMMA Neighbours ==
  ASSUME NEW v \in WheelType, LinksOK(v)
  PROVE  /\ \A l \in Lists : v.head[l] # None =>
              /\ v.head[l] \in Entries /\ v.status[v.head[l]] = "pending"
              /\ v.slot[v.head[l]] = l /\ v.prev[v.head[l]] = None
         /\ \A e \in Entries : v.status[e] = "pending" =>
              /\ v.next[e] # None =>
                   /\ v.next[e] \in Entries /\ v.status[v.next[e]] = "pending"
                   /\ v.slot[v.next[e]] = v.slot[e] /\ v.prev[v.next[e]] = e
              /\ v.prev[e] # None =>
                   /\ v.prev[e] \in Entries /\ v.status[v.prev[e]] = "pending"
                   /\ v.slot[v.prev[e]] = v.slot[e] /\ v.next[v.prev[e]] = e
              /\ v.prev[e] = None => v.head[v.slot[e]] = e
              /\ v.next[e] # e /\ v.prev[e] # e /\ v.slot[e] \in Lists
         /\ \A e \in Entries : v.status[e] # "pending" => v.next[e] = None /\ v.prev[e] = None
<1>1. \A l \in Lists : v.head[l] # None =>
         /\ v.head[l] \in Entries /\ v.status[v.head[l]] = "pending"
         /\ v.slot[v.head[l]] = l /\ v.prev[v.head[l]] = None
  BY DEF LinksOK, Later, OnList
<1>2. ASSUME NEW e \in Entries, v.status[e] = "pending"
      PROVE  /\ v.next[e] # None =>
                  /\ v.next[e] \in Entries /\ v.status[v.next[e]] = "pending"
                  /\ v.slot[v.next[e]] = v.slot[e] /\ v.prev[v.next[e]] = e
             /\ v.prev[e] # None =>
                  /\ v.prev[e] \in Entries /\ v.status[v.prev[e]] = "pending"
                  /\ v.slot[v.prev[e]] = v.slot[e] /\ v.next[v.prev[e]] = e
             /\ v.prev[e] = None => v.head[v.slot[e]] = e
             /\ v.next[e] # e /\ v.prev[e] # e /\ v.slot[e] \in Lists
  <2>1. /\ v.next[e] \in Later(OnList(v, v.slot[e])) /\ v.prev[e] \in Later(OnList(v, v.slot[e]))
        /\ v.next[e] # None => v.prev[v.next[e]] = e
        /\ IF v.prev[e] = None THEN v.head[v.slot[e]] = e ELSE v.next[v.prev[e]] = e
    BY <1>2 DEF LinksOK
  <2>2. v.prev[e] # e
    <3>1. {e} \in SUBSET {y \in Entries : v.status[y] = "pending"} /\ {e} # {}
      BY <1>2
    <3>2. \E y \in {e} : v.prev[y] \notin {e}
      BY <3>1 DEF LinksOK
    <3> QED
      BY <3>2
  <2>3. v.next[e] # e
    BY <2>1, <2>2, WheelNumbers
  <2>4. v.slot[e] \in Lists
    BY WheelFields
  <2> QED
    BY <2>1, <2>2, <2>3, <2>4 DEF Later, OnList
<1>3. \A e \in Entries : v.status[e] # "pending" => v.next[e] = None /\ v.prev[e] = None
  BY DEF LinksOK
<1> QED
  BY <1>1, <1>2, <1>3

\* The same, the other way round.
LEMMA LinksFrom ==
  ASSUME NEW r,
         \A l \in Lists : r.head[l] # None =>
           /\ r.head[l] \in Entries /\ r.status[r.head[l]] = "pending"
           /\ r.slot[r.head[l]] = l /\ r.prev[r.head[l]] = None,
         \A e \in Entries : r.status[e] = "pending" =>
           /\ r.next[e] # None =>
                /\ r.next[e] \in Entries /\ r.status[r.next[e]] = "pending"
                /\ r.slot[r.next[e]] = r.slot[e] /\ r.prev[r.next[e]] = e
           /\ r.prev[e] # None =>
                /\ r.prev[e] \in Entries /\ r.status[r.prev[e]] = "pending"
                /\ r.slot[r.prev[e]] = r.slot[e] /\ r.next[r.prev[e]] = e
           /\ r.prev[e] = None => r.head[r.slot[e]] = e,
         \A e \in Entries : r.status[e] # "pending" => r.next[e] = None /\ r.prev[e] = None,
         \A S \in SUBSET {e \in Entries : r.status[e] = "pending"} :
           S # {} => \E e \in S : r.prev[e] \notin S
  PROVE  LinksOK(r)
<1>1. \A l \in Lists : r.head[l] \in Later(OnList(r, l)) /\ (r.head[l] # None => r.prev[r.head[l]] = None)
  BY DEF Later, OnList
<1>2. ASSUME NEW e \in Entries, r.status[e] = "pending"
      PROVE  /\ r.next[e] \in Later(OnList(r, r.slot[e])) /\ r.prev[e] \in Later(OnList(r, r.slot[e]))
             /\ r.next[e] # None => r.prev[r.next[e]] = e
             /\ IF r.prev[e] = None THEN r.head[r.slot[e]] = e ELSE r.next[r.prev[e]] = e
  BY <1>2 DEF Later, OnList
<1> QED
  BY <1>1, <1>2 DEF LinksOK

\* A new entry is linked before the first of its list.
LEMMA LinkKeeps ==
  ASSUME NEW v \in WheelType, LinksOK(v), NEW e \in Entries, v.status[e] = "new", NEW l \in Lists,
         NEW r, \A k \in Lists : r.head[k] = IF k = l THEN e ELSE v.head[k],
         \A y \in Entries : /\ r.next[y] = IF y = e THEN v.head[l] ELSE v.next[y]
                            /\ r.prev[y] = IF y = v.head[l] THEN e ELSE v.prev[y]
                            /\ r.slot[y] = IF y = e THEN l ELSE v.slot[y]
                            /\ r.status[y] = IF y = e THEN "pending" ELSE v.status[y]
  PROVE  LinksOK(r)
<1>0. None \notin Entries
  BY WheelNumbers
<1>1. v.prev[e] = None /\ v.next[e] = None
  BY Neighbours
<1>2. v.head[l] # e
  <2>1. v.head[l] # None => v.status[v.head[l]] = "pending"
    BY Neighbours
  <2> QED
    BY <1>0, <2>1
<1>3. \A k \in Lists : r.head[k] # None =>
         /\ r.head[k] \in Entries /\ r.status[r.head[k]] = "pending"
         /\ r.slot[r.head[k]] = k /\ r.prev[r.head[k]] = None
  <2> SUFFICES ASSUME NEW k \in Lists, r.head[k] # None
               PROVE  /\ r.head[k] \in Entries /\ r.status[r.head[k]] = "pending"
                      /\ r.slot[r.head[k]] = k /\ r.prev[r.head[k]] = None
    OBVIOUS
  <2>1. CASE k = l
    BY <1>1, <1>2, <2>1
  <2>2. CASE k # l
    <3>1. /\ r.head[k] = v.head[k] /\ v.head[k] \in Entries /\ v.status[v.head[k]] = "pending"
          /\ v.slot[v.head[k]] = k /\ v.prev[v.head[k]] = None
      BY <2>2, Neighbours
    <3>2. v.head[k] # e /\ v.head[k] # v.head[l]
      BY <2>2, <3>1, Neighbours
    <3> QED
      BY <3>1, <3>2
  <2> QED
    BY <2>1, <2>2
<1>4. ASSUME NEW y \in Entries, r.status[y] = "pending"
      PROVE  /\ r.next[y] # None =>
                  /\ r.next[y] \in Entries /\ r.status[r.next[y]] = "pending"
                  /\ r.slot[r.next[y]] = r.slot[y] /\ r.prev[r.next[y]] = y
             /\ r.prev[y] # None =>
                  /\ r.prev[y] \in Entries /\ r.status[r.prev[y]] = "pending"
                  /\ r.slot[r.prev[y]] = r.slot[y] /\ r.next[r.prev[y]] = y
             /\ r.prev[y] = None => r.head[r.slot[y]] = y
  <2>1. CASE y = e
    <3>1. r.prev[y] = None /\ r.next[y] = v.head[l] /\ r.slot[y] = l /\ r.head[l] = e
      BY <1>1, <1>2, <2>1
    <3>2. ASSUME v.head[l] # None
          PROVE  /\ v.head[l] \in Entries /\ r.status[v.head[l]] = "pending"
                 /\ r.slot[v.head[l]] = l /\ r.prev[v.head[l]] = e
      BY <1>2, <3>2, Neighbours
    <3> QED
      BY <2>1, <3>1, <3>2
  <2>2. CASE y # e
    <3>1. v.status[y] = "pending" /\ r.next[y] = v.next[y] /\ r.slot[y] = v.slot[y]
      BY <1>4, <2>2
    <3>2. /\ v.next[y] # None =>
               /\ v.next[y] \in Entries /\ v.status[v.next[y]] = "pending"
               /\ v.slot[v.next[y]] = v.slot[y] /\ v.prev[v.next[y]] = y
          /\ v.prev[y] # None =>
               /\ v.prev[y] \in Entries /\ v.status[v.prev[y]] = "pending"
               /\ v.slot[v.prev[y]] = v.slot[y] /\ v.next[v.prev[y]] = y
          /\ v.prev[y] = None => v.head[v.slot[y]] = y
      BY <3>1, Neighbours
    <3>3. v.head[l] # None => v.prev[v.head[l]] = None /\ v.slot[v.head[l]] = l
      BY Neighbours
    <3>4. r.next[y] # None =>
            /\ r.next[y] \in Entries /\ r.status[r.next[y]] = "pending"
            /\ r.slot[r.next[y]] = r.slot[y] /\ r.prev[r.next[y]] = y
      <4>1. ASSUME v.next[y] # None PROVE v.next[y] # e /\ v.next[y] # v.head[l]
        BY <1>0, <3>2, <3>3, <4>1
      <4> QED
        BY <3>1, <3>2, <4>1
    <3>5. CASE y = v.head[l]
      <4>1. r.prev[y] = e /\ v.slot[y] = l
        BY <1>0, <3>3, <3>5
      <4>2. r.next[e] = y /\ r.status[e] = "pending" /\ r.slot[e] = l
        BY <3>5
      <4> QED
        BY <1>0, <3>1, <3>4, <4>1, <4>2
    <3>6. CASE y # v.head[l]
      <4>1. r.prev[y] = v.prev[y]
        BY <3>6
      <4>2. v.prev[y] # None => v.prev[y] # e
        BY <3>2
      <4>3. v.prev[y] = None => v.slot[y] # l
        BY <3>2, <3>6
      <4>4. v.slot[y] \in Lists
        BY WheelFields
      <4> QED
        BY <3>1, <3>2, <3>4, <4>1, <4>2, <4>3, <4>4
    <3> QED
      BY <3>5, <3>6
  <2> QED
    BY <2>1, <2>2
<1>5. \A y \in Entries : r.status[y] # "pending" => r.next[y] = None /\ r.prev[y] = None
  <2> SUFFICES ASSUME NEW y \in Entries, r.status[y] # "pending"
               PROVE  r.next[y] = None /\ r.prev[y] = None
    OBVIOUS
  <2>1. y # e /\ v.status[y] # "pending"
    OBVIOUS
  <2>2. v.next[y] = None /\ v.prev[y] = None /\ y # v.head[l]
    BY <1>0, <2>1, Neighbours
  <2> QED
    BY <2>1, <2>2
<1>6. ASSUME NEW S \in SUBSET {y \in Entries : r.status[y] = "pending"}, S # {}
      PROVE  \E y \in S : r.prev[y] \notin S
  <2>1. CASE e \in S
    BY <1>0, <1>1, <1>2, <2>1
  <2>2. CASE e \notin S
    <3>1. S \in SUBSET {y \in Entries : v.status[y] = "pending"}
      BY <2>2
    <3>2. PICK y \in S : v.prev[y] \notin S
      BY <1>6, <3>1 DEF LinksOK
    <3> QED
      BY <2>2, <3>2
  <2> QED
    BY <2>1, <2>2
<1> QED
  BY <1>3, <1>4, <1>5, <1>6, LinksFrom

\* A pending entry is unlinked, and its neighbours linked to each other.
LEMMA UnlinkKeeps ==
  ASSUME NEW v \in WheelType, LinksOK(v), NEW e \in Entries, v.status[e] = "pending",
         NEW r, \A k \in Lists : r.head[k] = IF v.prev[e] = None /\ k = v.slot[e] THEN v.next[e]
                                             ELSE v.head[k],
         \A y \in Entries :
           /\ r.next[y] = IF y = e THEN None ELSE IF y = v.prev[e] THEN v.next[e] ELSE v.next[y]
           /\ r.prev[y] = IF y = e THEN None ELSE IF y = v.next[e] THEN v.prev[e] ELSE v.prev[y]
           /\ r.slot[y] = v.slot[y]
           /\ y # e => r.status[y] = v.status[y],
         r.status[e] # "pending"
  PROVE  LinksOK(r)
<1>0. None \notin Entries
  BY WheelNumbers
<1>1. PICK p, n, l : p = v.prev[e] /\ n = v.next[e] /\ l = v.slot[e]
  OBVIOUS
<1>2. /\ n # None => /\ n \in Entries /\ v.status[n] = "pending" /\ v.slot[n] = l /\ v.prev[n] = e
      /\ p # None => /\ p \in Entries /\ v.status[p] = "pending" /\ v.slot[p] = l /\ v.next[p] = e
      /\ p = None => v.head[l] = e
      /\ n # e /\ p # e /\ l \in Lists
  BY <1>1, Neighbours
<1>3. /\ \A k \in Lists : r.head[k] = IF p = None /\ k = l THEN n ELSE v.head[k]
      /\ \A y \in Entries :
           /\ r.next[y] = IF y = e THEN None ELSE IF y = p THEN n ELSE v.next[y]
           /\ r.prev[y] = IF y = e THEN None ELSE IF y = n THEN p ELSE v.prev[y]
  BY <1>1
<1>4. n # None => n # p
  <2> SUFFICES ASSUME n # None, n = p PROVE FALSE
    OBVIOUS
  <2>1. {e, n} \in SUBSET {y \in Entries : v.status[y] = "pending"} /\ {e, n} # {}
    BY <1>2
  <2>2. \E y \in {e, n} : v.prev[y] \notin {e, n}
    BY <2>1 DEF LinksOK
  <2> QED
    BY <1>1, <1>2, <2>2
<1>5. \A k \in Lists : r.head[k] # None =>
         /\ r.head[k] \in Entries /\ r.status[r.head[k]] = "pending"
         /\ r.slot[r.head[k]] = k /\ r.prev[r.head[k]] = None
  <2> SUFFICES ASSUME NEW k \in Lists, r.head[k] # None
               PROVE  /\ r.head[k] \in Entries /\ r.status[r.head[k]] = "pending"
                      /\ r.slot[r.head[k]] = k /\ r.prev[r.head[k]] = None
    OBVIOUS
  <2>1. CASE p = None /\ k = l
    <3>1. r.head[k] = n
      BY <1>3, <2>1
    <3>2. n # None /\ n \in Entries /\ n # e
      BY <1>2, <3>1
    <3> QED
      BY <1>2, <1>3, <2>1, <3>1, <3>2
  <2>2. CASE ~(p = None /\ k = l)
    <3>1. r.head[k] = v.head[k]
      BY <1>3, <2>2
    <3>2. /\ v.head[k] \in Entries /\ v.status[v.head[k]] = "pending"
          /\ v.slot[v.head[k]] = k /\ v.prev[v.head[k]] = None
      BY <3>1, Neighbours
    <3>3. v.head[k] # e
      BY <1>1, <2>2, <3>2
    <3>4. v.head[k] # n
      BY <1>0, <1>2, <3>2
    <3> QED
      BY <1>3, <3>1, <3>2, <3>3, <3>4
  <2> QED
    BY <2>1, <2>2
<1>6. ASSUME NEW y \in Entries, r.status[y] = "pending"
      PROVE  /\ r.next[y] # None =>
                  /\ r.next[y] \in Entries /\ r.status[r.next[y]] = "pending"
                  /\ r.slot[r.next[y]] = r.slot[y] /\ r.prev[r.next[y]] = y
             /\ r.prev[y] # None =>
                  /\ r.prev[y] \in Entries /\ r.status[r.prev[y]] = "pending"
                  /\ r.slot[r.prev[y]] = r.slot[y] /\ r.next[r.prev[y]] = y
             /\ r.prev[y] = None => r.head[r.slot[y]] = y
  <2>1. y # e /\ v.status[y] = "pending" /\ r.slot[y] = v.slot[y] /\ v.slot[y] \in Lists
    BY <1>6, WheelFields
  <2>2. /\ v.next[y] # None =>
             /\ v.next[y] \in Entries /\ v.status[v.next[y]] = "pending"
             /\ v.slot[v.next[y]] = v.slot[y] /\ v.prev[v.next[y]] = y
        /\ v.prev[y] # None =>
             /\ v.prev[y] \in Entries /\ v.status[v.prev[y]] = "pending"
             /\ v.slot[v.prev[y]] = v.slot[y] /\ v.next[v.prev[y]] = y
        /\ v.prev[y] = None => v.head[v.slot[y]] = y
    BY <2>1, Neighbours
  <2>3. /\ r.next[y] # None =>
             /\ r.next[y] \in Entries /\ r.status[r.next[y]] = "pending"
             /\ r.slot[r.next[y]] = r.slot[y] /\ r.prev[r.next[y]] = y
    <3>1. CASE y = p
      <4>1. r.next[y] = n
        BY <1>3, <2>1, <3>1
      <4>2. p # None /\ v.slot[p] = l /\ r.slot[p] = l
        BY <1>0, <1>2, <3>1
      <4>3. n # None => n \in Entries /\ r.status[n] = "pending" /\ r.slot[n] = l /\ r.prev[n] = p
        BY <1>2, <1>3
      <4> QED
        BY <3>1, <4>1, <4>2, <4>3
    <3>2. CASE y # p
      <4>1. r.next[y] = v.next[y]
        BY <1>3, <2>1, <3>2
      <4>2. ASSUME v.next[y] # None PROVE v.next[y] # e /\ v.next[y] # n
        BY <1>1, <1>2, <2>1, <2>2, <3>2, <4>2
      <4> QED
        BY <1>3, <2>1, <2>2, <4>1, <4>2
    <3> QED
      BY <3>1, <3>2
  <2>4. /\ r.prev[y] # None =>
             /\ r.prev[y] \in Entries /\ r.status[r.prev[y]] = "pending"
             /\ r.slot[r.prev[y]] = r.slot[y] /\ r.next[r.prev[y]] = y
        /\ r.prev[y] = None => r.head[r.slot[y]] = y
    <3>1. CASE y = n
      <4>1. r.prev[y] = p /\ n # None /\ v.slot[y] = l
        BY <1>0, <1>2, <1>3, <2>1, <3>1
      <4>2. p # None => r.next[p] = n /\ r.status[p] = "pending" /\ r.slot[p] = l /\ p \in Entries
        BY <1>2, <1>3
      <4>3. p = None => r.head[l] = n
        BY <1>2, <1>3
      <4> QED
        BY <2>1, <3>1, <4>1, <4>2, <4>3
    <3>2. CASE y # n
      <4>1. r.prev[y] = v.prev[y]
        BY <1>3, <2>1, <3>2
      <4>2. ASSUME v.prev[y] # None PROVE v.prev[y] # e /\ v.prev[y] # p
        BY <1>1, <1>2, <2>1, <2>2, <3>2, <4>2
      <4>3. v.prev[y] = None => ~(p = None /\ v.slot[y] = l)
        BY <1>2, <2>1, <2>2
      <4> QED
        BY <1>3, <2>1, <2>2, <4>1, <4>2, <4>3
    <3> QED
      BY <3>1, <3>2
  <2> QED
    BY <2>3, <2>4
<1>7. \A y \in Entries : r.status[y] # "pending" => r.next[y] = None /\ r.prev[y] = None
  <2> SUFFICES ASSUME NEW y \in Entries, r.status[y] # "pending", y # e
               PROVE  r.next[y] = None /\ r.prev[y] = None
    BY <1>3
  <2>1. v.status[y] # "pending"
    OBVIOUS
  <2>2. v.next[y] = None /\ v.prev[y] = None
    BY <2>1, Neighbours
  <2>3. y # p /\ y # n
    BY <1>0, <1>2, <2>1
  <2> QED
    BY <1>3, <2>2, <2>3
<1>8. ASSUME NEW S \in SUBSET {y \in Entries : r.status[y] = "pending"}, S # {}
      PROVE  \E y \in S : r.prev[y] \notin S
  <2>1. e \notin S /\ S \in SUBSET {y \in Entries : v.status[y] = "pending"} /\ S \subseteq Entries
    OBVIOUS
  <2>2. PICK y \in S : v.prev[y] \notin S
    BY <1>8, <2>1 DEF LinksOK
  <2>3. CASE y # n
    BY <1>3, <2>1, <2>2, <2>3
  <2>4. CASE y = n /\ p \notin S
    BY <1>3, <2>1, <2>4
  <2>5. CASE y = n /\ p \in S
    <3>1. S \cup {e} \in SUBSET {z \in Entries : v.status[z] = "pending"} /\ S \cup {e} # {}
      BY <2>1
    <3>2. PICK z \in S \cup {e} : v.prev[z] \notin S \cup {e}
      BY <3>1 DEF LinksOK
    <3>3. z # e
      BY <1>1, <2>5, <3>2
    <3>4. z # n
      BY <1>2, <2>5, <3>2, <1>0, <2>1
    <3> QED
      BY <1>3, <2>1, <3>2, <3>3, <3>4
  <2> QED
    BY <2>3, <2>4, <2>5
<1> QED
  BY <1>5, <1>6, <1>7, <1>8, LinksFrom

-----------------------------------------------------------------------------
(* What a walk along a list finds.                                           *)

Onward(v, W) == W \cup {v.next[x] : x \in W \ {None}}
Walk(f, v, l, n) == [i \in 0..n |-> IF i = 0 THEN {v.head[l]} ELSE Onward(v, f[i - 1])]

LEMMA WalkExists ==
  ASSUME NEW v, NEW l, NEW n \in Nat
  PROVE  \E f : f = Walk(f, v, l, n)
<1> DEFINE bad == {k \in Nat : ~\E f : f = Walk(f, v, l, k)}
<1> SUFFICES ASSUME bad # {} PROVE FALSE
  OBVIOUS
<1>1. PICK k \in bad : \A j \in bad : k <= j
  <2>1. bad \subseteq Nat
    OBVIOUS
  <2> HIDE DEF bad
  <2> QED
    BY <2>1, LeastNumber
<1>2. k \in Nat /\ ~\E f : f = Walk(f, v, l, k)
  BY <1>1
<1>3. CASE k = 0
  <2> DEFINE g == [i \in 0..0 |-> {v.head[l]}]
  <2>1. g = Walk(g, v, l, 0)
    BY DEF Walk
  <2> QED
    BY <1>2, <1>3, <2>1
<1>4. CASE k # 0
  <2>1. PICK m \in Nat : k = m + 1
    <3>1. k - 1 \in Nat /\ k = (k - 1) + 1
      BY <1>2, <1>4
    <3> QED
      BY <3>1
  <2>2. m \notin bad
    BY <1>1, <1>2, <2>1
  <2>3. PICK f : f = Walk(f, v, l, m)
    BY <2>2
  <2>4. \A i \in 0..m : f[i] = IF i = 0 THEN {v.head[l]} ELSE Onward(v, f[i - 1])
    BY <2>3, Zenon DEF Walk
  <2> DEFINE g == [i \in 0..(m + 1) |-> IF i <= m THEN f[i] ELSE Onward(v, f[m])]
  <2>5. \A i \in 0..(m + 1) : g[i] = IF i <= m THEN f[i] ELSE Onward(v, f[m])
    OBVIOUS
  <2>6. \A i \in 0..m : g[i] = f[i]
    BY <2>5
  <2>7. ASSUME NEW i \in 0..(m + 1)
        PROVE  g[i] = IF i = 0 THEN {v.head[l]} ELSE Onward(v, g[i - 1])
    <3>1. CASE i = m + 1
      <4>1. ~(i <= m) /\ i # 0 /\ i - 1 = m /\ m \in 0..m
        BY <3>1
      <4>2. g[i] = Onward(v, f[m]) /\ g[i - 1] = f[m]
        BY <2>5, <2>6, <4>1
      <4> QED
        BY <4>1, <4>2
    <3>2. CASE i = 0
      <4>1. 0 \in 0..m
        OBVIOUS
      <4> QED
        BY <2>4, <2>6, <3>2, <4>1
    <3>3. CASE i # 0 /\ i # m + 1
      <4>1. i \in 0..m /\ i - 1 \in 0..m
        BY <3>3
      <4>2. g[i] = f[i] /\ g[i - 1] = f[i - 1]
        BY <2>6, <4>1
      <4> QED
        BY <2>4, <3>3, <4>1, <4>2
    <3> QED
      BY <3>1, <3>2, <3>3
  <2>8. g = [i \in 0..(m + 1) |-> g[i]]
    OBVIOUS
  <2> HIDE DEF g
  <2>9. g = Walk(g, v, l, m + 1)
    BY <2>7, <2>8 DEF Walk
  <2> QED
    BY <1>2, <2>1, <2>9
<1> QED
  BY <1>3, <1>4

\* The walk stays in the list, ...
LEMMA WalkInside ==
  ASSUME NEW v \in WheelType, LinksOK(v), NEW l \in Lists, NEW n \in Nat,
         NEW f, f = Walk(f, v, l, n), NEW i \in 0..n
  PROVE  f[i] \subseteq Later(OnList(v, l)) /\ v.head[l] \in f[i]
<1> DEFINE Good(k) == f[k] \subseteq Later(OnList(v, l)) /\ v.head[l] \in f[k]
           bad == {k \in 0..n : ~Good(k)}
<1>1. \A k \in 0..n : f[k] = IF k = 0 THEN {v.head[l]} ELSE Onward(v, f[k - 1])
  BY Zenon DEF Walk
<1> SUFFICES ASSUME bad # {} PROVE FALSE
  OBVIOUS
<1>2. PICK k \in bad : \A j \in bad : k <= j
  <2>1. bad \subseteq Nat
    OBVIOUS
  <2> HIDE DEF bad
  <2> QED
    BY <2>1, LeastNumber
<1>3. k \in 0..n /\ ~Good(k)
  BY <1>2
<1>4. CASE k = 0
  <2>1. f[k] = {v.head[l]}
    BY <1>1, <1>3, <1>4
  <2>2. v.head[l] \in Later(OnList(v, l))
    BY DEF LinksOK
  <2> QED
    BY <1>3, <2>1, <2>2
<1>5. CASE k # 0
  <2>1. k - 1 \in 0..n /\ k - 1 < k
    BY <1>3, <1>5
  <2>2. Good(k - 1)
    <3>1. k - 1 \notin bad
      BY <1>2, <1>3, <2>1
    <3> QED
      BY <2>1, <3>1
  <2>3. PICK W : W = f[k - 1]
    OBVIOUS
  <2>4. f[k] = Onward(v, W)
    BY <1>1, <1>3, <1>5, <2>3
  <2>5. \A x \in W \ {None} : v.next[x] \in Later(OnList(v, l))
    <3> SUFFICES ASSUME NEW x \in W \ {None} PROVE v.next[x] \in Later(OnList(v, l))
      OBVIOUS
    <3>1. x \in Entries /\ v.status[x] = "pending" /\ v.slot[x] = l
      BY <2>2, <2>3 DEF Later, OnList
    <3> QED
      BY <3>1 DEF LinksOK
  <2> QED
    BY <1>3, <2>2, <2>3, <2>4, <2>5 DEF Onward
<1> QED
  BY <1>4, <1>5

\* ... and each step finds another entry, until nothing is left to find.
LEMMA WalkGrows ==
  ASSUME NEW v \in WheelType, LinksOK(v), NEW l \in Lists, NEW n \in Nat,
         NEW f, f = Walk(f, v, l, n), NEW i \in 0..n
  PROVE  \/ Onward(v, f[i]) \subseteq Later(f[i])
         \/ Cardinality(f[i] \ {None}) >= i + 1
<1> DEFINE Good(k) == \/ Onward(v, f[k]) \subseteq Later(f[k])
                      \/ Cardinality(f[k] \ {None}) >= k + 1
           bad == {k \in 0..n : ~Good(k)}
<1>1. \A k \in 0..n : f[k] = IF k = 0 THEN {v.head[l]} ELSE Onward(v, f[k - 1])
  BY Zenon DEF Walk
<1>0. \A k \in 0..n : IsFiniteSet(f[k] \ {None}) /\ Cardinality(f[k] \ {None}) \in Nat
  <2> SUFFICES ASSUME NEW k \in 0..n
               PROVE  IsFiniteSet(f[k] \ {None}) /\ Cardinality(f[k] \ {None}) \in Nat
    OBVIOUS
  <2>1. f[k] \ {None} \subseteq Entries
    BY WalkInside DEF Later, OnList
  <2> QED
    BY <2>1, WheelNumbers, FS_Subset, FS_CardinalityType
<1> SUFFICES ASSUME bad # {} PROVE FALSE
  OBVIOUS
<1>2. PICK k \in bad : \A j \in bad : k <= j
  <2>1. bad \subseteq Nat
    OBVIOUS
  <2> HIDE DEF bad
  <2> QED
    BY <2>1, LeastNumber
<1>3. k \in 0..n /\ ~Good(k)
  BY <1>2
<1>4. CASE k = 0
  <2>1. f[k] = {v.head[l]}
    BY <1>1, <1>3, <1>4
  <2>2. CASE v.head[l] = None
    <3>1. Onward(v, f[k]) \subseteq Later(f[k])
      BY <2>1, <2>2 DEF Onward, Later
    <3> QED
      BY <1>3, <3>1
  <2>3. CASE v.head[l] # None
    <3>1. f[k] \ {None} = {v.head[l]}
      BY <2>1, <2>3
    <3>2. Cardinality(f[k] \ {None}) = 1
      BY <3>1, FS_Singleton
    <3> QED
      BY <1>3, <1>4, <3>2
  <2> QED
    BY <2>2, <2>3
<1>5. CASE k # 0
  <2>1. k - 1 \in 0..n /\ k - 1 < k
    BY <1>3, <1>5
  <2>2. Good(k - 1)
    <3>1. k - 1 \notin bad
      BY <1>2, <1>3, <2>1
    <3> QED
      BY <2>1, <3>1
  <2>3. PICK W, X : W = f[k - 1] /\ X = f[k]
    OBVIOUS
  <2>4. X = Onward(v, W) /\ W \subseteq X
    <3>1. X = Onward(v, W)
      BY <1>1, <1>3, <1>5, <2>3
    <3> QED
      BY <3>1 DEF Onward
  <2>5. CASE X \subseteq Later(W)
    <3>1. Onward(v, X) \subseteq Later(X)
      <4>1. \A x \in X \ {None} : x \in W
        BY <2>5 DEF Later
      <4>2. \A x \in X \ {None} : v.next[x] \in X
        BY <2>4, <4>1 DEF Onward
      <4> QED
        BY <4>2 DEF Onward, Later
    <3> QED
      BY <1>3, <2>3, <3>1
  <2>6. CASE ~(X \subseteq Later(W))
    <3>1. Cardinality(W \ {None}) >= (k - 1) + 1
      BY <2>2, <2>3, <2>4, <2>6
    <3>2. PICK y \in X : y # None /\ y \notin W
      BY <2>6 DEF Later
    <3>3. PICK A, B : A = W \ {None} /\ B = X \ {None}
      OBVIOUS
    <3>4. IsFiniteSet(B) /\ IsFiniteSet(A) /\ Cardinality(A) \in Nat /\ Cardinality(B) \in Nat
      BY <1>0, <1>3, <2>1, <2>3, <3>3
    <3>5. A \cup {y} \subseteq B /\ y \notin A
      BY <2>4, <3>2, <3>3
    <3>6. Cardinality(A \cup {y}) = Cardinality(A) + 1
      BY <3>4, <3>5, FS_AddElement
    <3>7. Cardinality(A \cup {y}) <= Cardinality(B)
      BY <3>4, <3>5, FS_Subset
    <3>8. Cardinality(B) >= k + 1
      BY <1>3, <3>1, <3>3, <3>4, <3>6, <3>7
    <3> QED
      BY <1>3, <2>3, <3>3, <3>8
  <2> QED
    BY <2>5, <2>6
<1> QED
  BY <1>4, <1>5

LEMMA FoundIsTheList ==
  ASSUME NEW v \in WheelType, LinksOK(v), NEW l \in Lists
  PROVE  Found(v, l) = OnList(v, l)
<1> DEFINE n == Cardinality(Entries)
<1>1. PICK m \in Nat : m = n
  BY WheelNumbers
<1>2. PICK g : g = Walk(g, v, l, m)
  BY WalkExists
<1>3. PICK f : f = Walk(f, v, l, m) /\ Found(v, l) = f[m] \ {None}
  <2> DEFINE walk[i \in 0..m] ==
               IF i = 0 THEN {v.head[l]} ELSE walk[i - 1] \cup {v.next[x] : x \in walk[i - 1] \ {None}}
  <2>1. Found(v, l) = walk[m] \ {None}
    BY <1>1 DEF Found
  <2>2. walk = Walk(walk, v, l, m)
    BY <1>2 DEF Walk, Onward
  <2> HIDE DEF walk
  <2> QED
    BY <2>1, <2>2
<1>4. m \in 0..m
  OBVIOUS
<1>5. PICK W : W = f[m]
  OBVIOUS
<1>6. W \subseteq Later(OnList(v, l)) /\ v.head[l] \in W
  BY <1>3, <1>4, <1>5, WalkInside
<1>7. Onward(v, W) \subseteq Later(W)
  <2>1. Cardinality(W \ {None}) <= n /\ Cardinality(W \ {None}) \in Nat
    <3>1. W \ {None} \subseteq Entries
      BY <1>6 DEF Later, OnList
    <3> QED
      BY <3>1, WheelNumbers, FS_Subset, FS_CardinalityType
  <2>2. \/ Onward(v, W) \subseteq Later(W) \/ Cardinality(W \ {None}) >= m + 1
    BY <1>3, <1>4, <1>5, WalkGrows
  <2> QED
    BY <1>1, <2>1, <2>2
<1>8. OnList(v, l) \subseteq W
  <2> DEFINE S == OnList(v, l) \ W
  <2> SUFFICES ASSUME S # {} PROVE FALSE
    OBVIOUS
  <2>1. S \in SUBSET {e \in Entries : v.status[e] = "pending"}
    BY DEF OnList
  <2>2. PICK e \in S : v.prev[e] \notin S
    BY <2>1 DEF LinksOK
  <2>3. /\ e \in Entries /\ v.status[e] = "pending" /\ v.slot[e] = l /\ e \notin W /\ e # None
    BY <2>2, WheelNumbers DEF OnList
  <2>4. v.prev[e] # None
    BY <1>6, <2>3, Neighbours
  <2>5. PICK p : p = v.prev[e] /\ p \in Entries /\ v.status[p] = "pending" /\ v.slot[p] = l
                 /\ v.next[p] = e /\ p # None
    BY <2>3, <2>4, Neighbours
  <2>6. p \in W
    BY <2>2, <2>5 DEF OnList
  <2>7. e \in Later(W)
    BY <1>7, <2>5, <2>6 DEF Onward
  <2> QED
    BY <2>3, <2>7 DEF Later
<1>9. None \notin OnList(v, l)
  BY WheelNumbers DEF OnList
<1> QED
  BY <1>3, <1>5, <1>6, <1>8, <1>9 DEF Later

-----------------------------------------------------------------------------
(* Host timers.                                                              *)

\* Nothing but the host timers differs.
SameEntries(r, v) ==
  /\ r.head = v.head /\ r.next = v.next /\ r.prev = v.prev /\ r.slot = v.slot
  /\ r.status = v.status /\ r.left = v.left /\ r.tick = v.tick /\ r.pending = v.pending

\* TimersOK in two parts: the host timers are those booked, and there is room for one
\* more of the track `more', which is about to be set.
Booked(v) ==
  \A tr \in Tracks :
    /\ v.pending[tr] = Cardinality(OnTrack(v, tr))
    /\ v.handle[tr] # NoTimer => v.due[tr][v.handle[tr]] # None
    /\ \A i \in TimersSet(v, tr) : v.due[tr][i] <= Period[tr]
RoomFor(v, running, more) ==
  \A tr \in Tracks :
    Cardinality(TimersSet(v, tr)) + (IF running = tr THEN 1 ELSE 0) + (IF more = tr THEN 1 ELSE 0)
      <= Cardinality(Begun(v, tr))

LEMMA TimersOKParts ==
  ASSUME NEW v, NEW running
  PROVE  TimersOK(v, running) <=> Booked(v) /\ RoomFor(v, running, "no")
<1>1. "no" \notin Tracks
  BY DEF Tracks
<1>2. \A tr \in Tracks : (IF "no" = tr THEN 1 ELSE 0) = 0
  BY <1>1
<1>3. \A tr \in Tracks : Cardinality(TimersSet(v, tr)) \in Nat
  <2> SUFFICES ASSUME NEW tr \in Tracks PROVE Cardinality(TimersSet(v, tr)) \in Nat
    OBVIOUS
  <2>1. IsFiniteSet(HostTimers)
    BY WheelNumbers, FS_Interval DEF HostTimers
  <2>2. TimersSet(v, tr) \subseteq HostTimers
    BY DEF TimersSet
  <2> QED
    BY <2>1, <2>2, FS_Subset, FS_CardinalityType
<1>4. \A tr \in Tracks :
         Cardinality(TimersSet(v, tr)) + (IF running = tr THEN 1 ELSE 0) + (IF "no" = tr THEN 1 ELSE 0)
         = Cardinality(TimersSet(v, tr)) + (IF running = tr THEN 1 ELSE 0)
  BY <1>2, <1>3
<1>5. RoomFor(v, running, "no") <=>
        \A tr \in Tracks : Cardinality(TimersSet(v, tr)) + (IF running = tr THEN 1 ELSE 0)
                             <= Cardinality(Begun(v, tr))
  BY <1>4 DEF RoomFor
<1> QED
  BY <1>5 DEF TimersOK, Booked

LEMMA TimerCounts ==
  ASSUME NEW v, NEW tr
  PROVE  /\ IsFiniteSet(TimersSet(v, tr)) /\ Cardinality(TimersSet(v, tr)) \in Nat
         /\ IsFiniteSet(OnTrack(v, tr)) /\ Cardinality(OnTrack(v, tr)) \in Nat
         /\ IsFiniteSet(Begun(v, tr)) /\ Cardinality(Begun(v, tr)) \in Nat
         /\ Cardinality(OnTrack(v, tr)) <= Cardinality(Entries)
         /\ Cardinality(Begun(v, tr)) <= Cardinality(Entries)
         /\ IsFiniteSet(HostTimers) /\ Cardinality(HostTimers) = Cardinality(Entries) + 1
<1>1. IsFiniteSet(HostTimers) /\ Cardinality(HostTimers) = Cardinality(Entries) + 1
  <2>1. PICK n \in Nat : n = Cardinality(Entries)
    BY WheelNumbers
  <2>2. 1 \in Int /\ n + 1 \in Int /\ HostTimers = 1..(n + 1)
    BY <2>1 DEF HostTimers
  <2>3. IsFiniteSet(1..(n + 1)) /\ Cardinality(1..(n + 1)) = IF 1 > n + 1 THEN 0 ELSE (n + 1) - 1 + 1
    BY <2>2, FS_Interval
  <2> QED
    BY <2>1, <2>2, <2>3
<1>2. /\ TimersSet(v, tr) \subseteq HostTimers /\ OnTrack(v, tr) \subseteq Entries
      /\ Begun(v, tr) \subseteq Entries
  BY DEF TimersSet, OnTrack, Begun
<1> QED
  BY <1>1, <1>2, WheelNumbers, FS_Subset, FS_CardinalityType

LEMMA SameSets ==
  ASSUME NEW v, NEW r, SameEntries(r, v), NEW tr
  PROVE  OnTrack(r, tr) = OnTrack(v, tr) /\ Begun(r, tr) = Begun(v, tr)
BY DEF SameEntries, OnTrack, Begun

LEMMA SetTimerKeeps ==
  ASSUME NEW v \in WheelType, NEW tr \in Tracks, NEW running, Booked(v), RoomFor(v, running, tr),
         NEW r, r = SetTimer(v, tr)
  PROVE  /\ r \in WheelType /\ SameEntries(r, v) /\ TimersOK(r, running)
         /\ \E i \in HostTimers : /\ v.due[tr][i] = None /\ r.due[tr][i] = Period[tr]
                                  /\ \A t \in Tracks, j \in HostTimers :
                                       t # tr \/ j # i => r.due[t][j] = v.due[t][j]
<1>1. Unset(v, tr) # {}
  <2> SUFFICES ASSUME Unset(v, tr) = {} PROVE FALSE
    OBVIOUS
  <2>1. TimersSet(v, tr) = HostTimers
    BY DEF Unset, TimersSet
  <2>2. Cardinality(TimersSet(v, tr)) = Cardinality(Entries) + 1
    BY <2>1, TimerCounts
  <2>3. PICK a, b, c \in Nat : /\ a = Cardinality(Entries) /\ b = Cardinality(Begun(v, tr))
                               /\ c = Cardinality(TimersSet(v, tr)) /\ b <= a /\ c = a + 1
    BY <2>2, WheelNumbers, TimerCounts
  <2>4. c + (IF running = tr THEN 1 ELSE 0) + 1 <= b
    BY <2>3 DEF RoomFor
  <2> QED
    BY <2>3, <2>4
<1>2. PICK i : i = CHOOSE j \in Unset(v, tr) : \A k \in Unset(v, tr) : j <= k
  OBVIOUS
<1>3. i \in HostTimers /\ v.due[tr][i] = None
  <2>1. Unset(v, tr) \subseteq Nat
    BY WheelNumbers DEF Unset
  <2>2. \E j \in Unset(v, tr) : \A k \in Unset(v, tr) : j <= k
    BY <1>1, <2>1, LeastNumber
  <2>3. i \in Unset(v, tr)
    BY <1>2, <2>2
  <2> QED
    BY <2>3 DEF Unset
<1>4. r = [v EXCEPT !.due[tr][i] = Period[tr], !.handle[tr] = i]
  BY <1>2 DEF SetTimer
<1>5. PICK d, h : /\ d = [v.due EXCEPT ![tr] = [v.due[tr] EXCEPT ![i] = Period[tr]]]
                  /\ h = [v.handle EXCEPT ![tr] = i]
  OBVIOUS
<1>6. /\ v.due \in [Tracks -> [HostTimers -> Later(-Lag..TickMs + FineTickMs)]]
      /\ v.handle \in [Tracks -> HostTimers \cup {NoTimer}]
  BY WheelFields
<1>7. Period[tr] \in Later(-Lag..TickMs + FineTickMs)
  <2>1. Period[tr] \in -Lag..TickMs + FineTickMs
    BY WheelNumbers
  <2> QED
    BY <2>1 DEF Later
<1>8. /\ d \in [Tracks -> [HostTimers -> Later(-Lag..TickMs + FineTickMs)]]
      /\ h \in [Tracks -> HostTimers \cup {NoTimer}]
  BY <1>3, <1>5, <1>6, <1>7
<1>9. /\ r.head = v.head /\ r.next = v.next /\ r.prev = v.prev /\ r.slot = v.slot
      /\ r.status = v.status /\ r.left = v.left /\ r.tick = v.tick /\ r.pending = v.pending
      /\ r.due = d /\ r.handle = h /\ r \in WheelType
  <2>1. r = [v EXCEPT !.due = d, !.handle = h]
    BY <1>4, <1>5 DEF WheelType
  <2> QED
    BY <1>8, <2>1 DEF WheelType
<1>10. SameEntries(r, v)
  BY <1>9 DEF SameEntries
<1>11. /\ r.due[tr][i] = Period[tr] /\ r.handle[tr] = i
       /\ \A t \in Tracks, j \in HostTimers : t # tr \/ j # i => r.due[t][j] = v.due[t][j]
       /\ \A t \in Tracks \ {tr} : r.handle[t] = v.handle[t]
  BY <1>3, <1>5, <1>6, <1>9
<1>12. \A t \in Tracks : TimersSet(r, t) = IF t = tr THEN TimersSet(v, t) \cup {i} ELSE TimersSet(v, t)
  <2>1. Period[tr] # None
    BY WheelNumbers
  <2> QED
    BY <1>3, <1>11, <2>1 DEF TimersSet
<1>13. Booked(r)
  <2> SUFFICES ASSUME NEW t \in Tracks
               PROVE  /\ r.pending[t] = Cardinality(OnTrack(r, t))
                      /\ r.handle[t] # NoTimer => r.due[t][r.handle[t]] # None
                      /\ \A j \in TimersSet(r, t) : r.due[t][j] <= Period[t]
    BY DEF Booked
  <2>1. r.pending[t] = Cardinality(OnTrack(r, t))
    BY <1>9, <1>10, SameSets DEF Booked
  <2>2. r.handle[t] # NoTimer => r.due[t][r.handle[t]] # None
    <3>1. CASE t = tr
      BY <1>11, <3>1, WheelNumbers
    <3>2. CASE t # tr
      BY <1>6, <1>11, <3>2 DEF Booked
    <3> QED
      BY <3>1, <3>2
  <2>3. \A j \in TimersSet(r, t) : r.due[t][j] <= Period[t]
    <3> SUFFICES ASSUME NEW j \in TimersSet(r, t) PROVE r.due[t][j] <= Period[t]
      OBVIOUS
    <3>1. CASE t = tr /\ j = i
      <4>1. Period[tr] \in Nat
        BY WheelNumbers
      <4> QED
        BY <1>11, <3>1, <4>1
    <3>2. CASE ~(t = tr /\ j = i)
      <4>1. j \in TimersSet(v, t) /\ j \in HostTimers
        BY <1>12, <3>2 DEF TimersSet
      <4> QED
        BY <1>11, <3>2, <4>1 DEF Booked
    <3> QED
      BY <3>1, <3>2
  <2> QED
    BY <2>1, <2>2, <2>3
<1>14. RoomFor(r, running, "no")
  <2> SUFFICES ASSUME NEW t \in Tracks
               PROVE  Cardinality(TimersSet(r, t)) + (IF running = t THEN 1 ELSE 0)
                        + (IF "no" = t THEN 1 ELSE 0) <= Cardinality(Begun(r, t))
    BY DEF RoomFor
  <2>1. (IF "no" = t THEN 1 ELSE 0) = 0
    BY DEF Tracks
  <2>2. PICK a, b, c, k \in Nat :
           /\ a = Cardinality(TimersSet(r, t)) /\ b = Cardinality(Begun(r, t))
           /\ c = Cardinality(TimersSet(v, t)) /\ k = IF running = t THEN 1 ELSE 0
    BY TimerCounts
  <2>3. c + k + (IF tr = t THEN 1 ELSE 0) <= b
    BY <1>10, <2>2, SameSets DEF RoomFor
  <2>4. a = IF t = tr THEN c + 1 ELSE c
    <3>1. CASE t = tr
      <4>1. i \notin TimersSet(v, t)
        BY <1>3, <3>1 DEF TimersSet
      <4> QED
        BY <1>12, <2>2, <3>1, <4>1, TimerCounts, FS_AddElement
    <3>2. CASE t # tr
      BY <1>12, <2>2, <3>2
    <3> QED
      BY <3>1, <3>2
  <2>5. a + k + 0 <= b
    BY <2>3, <2>4
  <2> QED
    BY <2>1, <2>2, <2>5
<1> QED
  BY <1>3, <1>9, <1>10, <1>11, <1>13, <1>14, TimersOKParts

LEMMA ClearTimerKeeps ==
  ASSUME NEW v \in WheelType, NEW tr \in Tracks, NEW running, TimersOK(v, running),
         NEW r, r = ClearTimer(v, tr)
  PROVE  /\ r \in WheelType /\ SameEntries(r, v) /\ TimersOK(r, running)
         /\ \A t \in Tracks \ {tr}, j \in HostTimers : r.due[t][j] = v.due[t][j]
<1>1. CASE v.handle[tr] = NoTimer
  <2>1. r = v
    BY <1>1 DEF ClearTimer
  <2> QED
    BY <2>1 DEF SameEntries
<1>2. CASE v.handle[tr] # NoTimer
  <2>1. /\ v.due \in [Tracks -> [HostTimers -> Later(-Lag..TickMs + FineTickMs)]]
        /\ v.handle \in [Tracks -> HostTimers \cup {NoTimer}]
    BY WheelFields
  <2>2. PICK i \in HostTimers : i = v.handle[tr]
    BY <1>2, <2>1
  <2>3. PICK d, h : /\ d = [v.due EXCEPT ![tr] = [v.due[tr] EXCEPT ![i] = None]]
                    /\ h = [v.handle EXCEPT ![tr] = NoTimer]
    OBVIOUS
  <2>4. /\ d \in [Tracks -> [HostTimers -> Later(-Lag..TickMs + FineTickMs)]]
        /\ h \in [Tracks -> HostTimers \cup {NoTimer}]
    BY <2>1, <2>2, <2>3 DEF Later
  <2>5. /\ r.head = v.head /\ r.next = v.next /\ r.prev = v.prev /\ r.slot = v.slot
        /\ r.status = v.status /\ r.left = v.left /\ r.tick = v.tick /\ r.pending = v.pending
        /\ r.due = d /\ r.handle = h /\ r \in WheelType
    <3>1. r = [v EXCEPT !.due = d, !.handle = h]
      BY <1>2, <2>2, <2>3 DEF ClearTimer, WheelType
    <3> QED
      BY <2>4, <3>1 DEF WheelType
  <2>6. SameEntries(r, v)
    BY <2>5 DEF SameEntries
  <2>7. /\ r.due[tr][i] = None /\ r.handle[tr] = NoTimer
        /\ \A t \in Tracks, j \in HostTimers : t # tr \/ j # i => r.due[t][j] = v.due[t][j]
        /\ \A t \in Tracks \ {tr} : r.handle[t] = v.handle[t]
    BY <2>1, <2>2, <2>3, <2>5
  <2>8. \A t \in Tracks : TimersSet(r, t) \subseteq TimersSet(v, t)
    BY <2>7 DEF TimersSet
  <2>9. Booked(v) /\ RoomFor(v, running, "no")
    BY TimersOKParts
  <2>10. Booked(r)
    <3> SUFFICES ASSUME NEW t \in Tracks
                 PROVE  /\ r.pending[t] = Cardinality(OnTrack(r, t))
                        /\ r.handle[t] # NoTimer => r.due[t][r.handle[t]] # None
                        /\ \A j \in TimersSet(r, t) : r.due[t][j] <= Period[t]
      BY DEF Booked
    <3>1. r.pending[t] = Cardinality(OnTrack(r, t))
      BY <2>5, <2>6, <2>9, SameSets DEF Booked
    <3>2. r.handle[t] # NoTimer => r.due[t][r.handle[t]] # None
      <4>1. CASE t = tr
        BY <2>7, <4>1
      <4>2. CASE t # tr
        BY <2>1, <2>7, <2>9, <4>2 DEF Booked
      <4> QED
        BY <4>1, <4>2
    <3>3. \A j \in TimersSet(r, t) : r.due[t][j] <= Period[t]
      <4> SUFFICES ASSUME NEW j \in TimersSet(r, t) PROVE r.due[t][j] <= Period[t]
        OBVIOUS
      <4>1. j \in TimersSet(v, t) /\ j \in HostTimers /\ r.due[t][j] # None
        BY <2>8 DEF TimersSet
      <4>2. r.due[t][j] = v.due[t][j]
        BY <2>7, <4>1
      <4> QED
        BY <2>9, <4>1, <4>2 DEF Booked
    <3> QED
      BY <3>1, <3>2, <3>3
  <2>11. RoomFor(r, running, "no")
    <3> SUFFICES ASSUME NEW t \in Tracks
                 PROVE  Cardinality(TimersSet(r, t)) + (IF running = t THEN 1 ELSE 0)
                          + (IF "no" = t THEN 1 ELSE 0) <= Cardinality(Begun(r, t))
      BY DEF RoomFor
    <3>1. PICK a, b, c, k, m \in Nat :
             /\ a = Cardinality(TimersSet(r, t)) /\ b = Cardinality(Begun(r, t))
             /\ c = Cardinality(TimersSet(v, t)) /\ k = IF running = t THEN 1 ELSE 0
             /\ m = IF "no" = t THEN 1 ELSE 0
      BY TimerCounts
    <3>2. c + k + m <= b
      BY <2>6, <2>9, <3>1, SameSets DEF RoomFor
    <3>3. a <= c
      BY <2>8, <3>1, TimerCounts, FS_Subset
    <3>4. a + k + m <= b
      BY <3>2, <3>3
    <3> QED
      BY <3>1, <3>4
  <2> QED
    BY <2>5, <2>6, <2>7, <2>10, <2>11, TimersOKParts
<1> QED
  BY <1>1, <1>2

-----------------------------------------------------------------------------
(* The operations.                                                           *)

\* How late one entry of a track may be.
LateAt(v, running, R, tr, y) ==
  IF running = tr
  THEN v.left[y] > -Slack(tr, IF y \in R THEN 0 ELSE TicksTo(v, v.slot[y]))
  ELSE \E i \in TimersSet(v, tr) :
         v.left[y] > v.due[tr][i] + Lag - Slack(tr, TicksTo(v, v.slot[y]) - 1)

LEMMA LateOKAt ==
  ASSUME NEW v, NEW running, NEW R
  PROVE  LateOK(v, running, R)
           <=> \A tr \in Tracks : \A y \in OnTrack(v, tr) : LateAt(v, running, R, tr, y)
BY DEF LateOK, LateAt

\* It is kept where the entry stays and the host timers stay.
LEMMA LateAtKeeps ==
  ASSUME NEW v, NEW r, NEW running, NEW R, NEW Q, NEW tr, NEW y, LateAt(v, running, R, tr, y),
         r.tick = v.tick, r.left[y] = v.left[y], r.slot[y] = v.slot[y], y \in R <=> y \in Q,
         \A i \in HostTimers : v.due[tr][i] # None => r.due[tr][i] = v.due[tr][i]
  PROVE  LateAt(r, running, Q, tr, y)
<1>2. TicksTo(r, r.slot[y]) = TicksTo(v, v.slot[y])
  BY DEF TicksTo
<1>3. CASE running = tr
  BY <1>2, <1>3 DEF LateAt
<1>4. CASE running # tr
  <2>1. PICK i \in TimersSet(v, tr) :
             v.left[y] > v.due[tr][i] + Lag - Slack(tr, TicksTo(v, v.slot[y]) - 1)
    BY <1>4 DEF LateAt
  <2>2. i \in TimersSet(r, tr) /\ r.due[tr][i] = v.due[tr][i]
    BY <2>1 DEF TimersSet
  <2>3. r.left[y] > r.due[tr][i] + Lag - Slack(tr, TicksTo(r, r.slot[y]) - 1)
    BY <1>2, <2>1, <2>2
  <2> QED
    BY <1>4, <2>2, <2>3 DEF LateAt
<1> QED
  BY <1>3, <1>4

LEMMA LateKeeps ==
  ASSUME NEW v, NEW r, NEW running, NEW R, NEW Q, LateOK(v, running, R),
         r.tick = v.tick,
         \A tr \in Tracks : \A y \in OnTrack(r, tr) :
           /\ y \in OnTrack(v, tr) /\ r.left[y] = v.left[y] /\ r.slot[y] = v.slot[y]
           /\ y \in R <=> y \in Q
           /\ \A i \in HostTimers : v.due[tr][i] # None => r.due[tr][i] = v.due[tr][i]
  PROVE  LateOK(r, running, Q)
<1>1. ASSUME NEW tr \in Tracks, NEW y \in OnTrack(r, tr)
      PROVE  LateAt(r, running, Q, tr, y)
  <2>1. LateAt(v, running, R, tr, y)
    BY LateOKAt
  <2> QED
    BY <2>1, LateAtKeeps
<1> QED
  BY <1>1, LateOKAt

\* An entry that fires or is cancelled.
LEMMA OffFields ==
  ASSUME NEW v \in WheelType, NEW e \in Entries, NEW status \in {"fired", "cancelled"},
         v.pending[TrackOf(v.slot[e])] > 0, v.prev[e] # e, v.next[e] # e,
         NEW r, r = Off(v, e, status)
  PROVE  /\ r \in WheelType
         /\ \A k \in Lists : r.head[k] = IF v.prev[e] = None /\ k = v.slot[e] THEN v.next[e]
                                         ELSE v.head[k]
         /\ \A y \in Entries :
              /\ r.next[y] = IF y = e THEN None ELSE IF y = v.prev[e] THEN v.next[e] ELSE v.next[y]
              /\ r.prev[y] = IF y = e THEN None ELSE IF y = v.next[e] THEN v.prev[e] ELSE v.prev[y]
              /\ r.status[y] = IF y = e THEN status ELSE v.status[y]
         /\ \A t \in Tracks : r.pending[t] = IF t = TrackOf(v.slot[e]) THEN v.pending[t] - 1
                                             ELSE v.pending[t]
         /\ r.slot = v.slot /\ r.left = v.left /\ r.tick = v.tick
         /\ r.handle = v.handle /\ r.due = v.due
<1>1. PICK p, n : p = v.prev[e] /\ n = v.next[e] /\ p \in Later(Entries) /\ n \in Later(Entries)
  BY WheelFields
<1>2. PICK hd, nx, pv, st, pe :
        /\ hd = [l \in Lists |-> IF p = None /\ l = v.slot[e] THEN n ELSE v.head[l]]
        /\ nx = [x \in Entries |-> CASE x = e -> None [] x = p -> n [] OTHER -> v.next[x]]
        /\ pv = [x \in Entries |-> CASE x = e -> None [] x = n -> p [] OTHER -> v.prev[x]]
        /\ st = [v.status EXCEPT ![e] = status]
        /\ pe = [v.pending EXCEPT ![TrackOf(v.slot[e])] = v.pending[TrackOf(v.slot[e])] - 1]
  OBVIOUS
<1>3. r = [v EXCEPT !.head = hd, !.next = nx, !.prev = pv, !.status = st, !.pending = pe]
  BY <1>1, <1>2 DEF Off, Unlink, WheelType
<1>4. /\ hd \in [Lists -> Later(Entries)] /\ nx \in [Entries -> Later(Entries)]
      /\ pv \in [Entries -> Later(Entries)]
  <2>1. None \in Later(Entries)
    BY DEF Later
  <2> QED
    BY <1>1, <1>2, <2>1, WheelFields
<1>5. st \in [Entries -> {"new", "pending", "fired", "cancelled"}]
  BY <1>2, WheelFields
<1>6. pe \in [Tracks -> 0..Cardinality(Entries)]
  <2>1. PICK t : t = TrackOf(v.slot[e]) /\ t \in Tracks
    BY WheelFields, TracksOfLists
  <2>2. v.pending \in [Tracks -> 0..Cardinality(Entries)] /\ v.pending[t] > 0
    BY <2>1, WheelFields
  <2>3. v.pending[t] - 1 \in 0..Cardinality(Entries)
    BY <2>1, <2>2, WheelNumbers
  <2> QED
    BY <1>2, <2>1, <2>2, <2>3
<1>7. /\ r \in WheelType
      /\ r.head = hd /\ r.next = nx /\ r.prev = pv /\ r.status = st /\ r.pending = pe
      /\ r.slot = v.slot /\ r.left = v.left /\ r.tick = v.tick
      /\ r.handle = v.handle /\ r.due = v.due
  BY <1>3, <1>4, <1>5, <1>6 DEF WheelType
<1>8. \A y \in Entries : st[y] = IF y = e THEN status ELSE v.status[y]
  BY <1>2, WheelFields
<1>9. \A t \in Tracks : pe[t] = IF t = TrackOf(v.slot[e]) THEN v.pending[t] - 1 ELSE v.pending[t]
  BY <1>2, WheelFields
<1>10. /\ \A k \in Lists : hd[k] = IF v.prev[e] = None /\ k = v.slot[e] THEN v.next[e]
                                   ELSE v.head[k]
       /\ \A y \in Entries :
            /\ nx[y] = IF y = e THEN None ELSE IF y = v.prev[e] THEN v.next[e] ELSE v.next[y]
            /\ pv[y] = IF y = e THEN None ELSE IF y = v.next[e] THEN v.prev[e] ELSE v.prev[y]
  <2>1. \A k \in Lists : hd[k] = IF p = None /\ k = v.slot[e] THEN n ELSE v.head[k]
    BY <1>2
  <2>2. \A y \in Entries : nx[y] = IF y = e THEN None ELSE IF y = p THEN n ELSE v.next[y]
    BY <1>1, <1>2
  <2>3. \A y \in Entries : pv[y] = IF y = e THEN None ELSE IF y = n THEN p ELSE v.prev[y]
    BY <1>1, <1>2
  <2> QED
    BY <1>1, <2>1, <2>2, <2>3
<1> QED
  BY <1>7, <1>8, <1>9, <1>10

\* What is left of the list when an entry is unlinked, the one the tick goes to next or another.
LEMMA RestWithout ==
  ASSUME NEW v \in WheelType, LinksOK(v), NEW running, NEW x, NEW R, RestOK(v, running, x, R),
         NEW e \in Entries, v.status[e] = "pending",
         NEW r, r.tick = v.tick,
         \A y \in Entries :
           /\ r.next[y] = IF y = e THEN None ELSE IF y = v.prev[e] THEN v.next[e] ELSE v.next[y]
           /\ r.prev[y] = IF y = e THEN None ELSE IF y = v.next[e] THEN v.prev[e] ELSE v.prev[y]
           /\ r.slot[y] = v.slot[y]
           /\ y # e => r.status[y] = v.status[y]
  PROVE  RestOK(r, running, IF e = x THEN v.next[e] ELSE x, R \ {e})
<1>0. None \notin Entries
  BY WheelNumbers
<1>1. PICK l : R \subseteq (IF running = "none" THEN {} ELSE OnList(v, l))
               /\ l = IF running = "wheel" THEN v.tick ELSE Fine
  BY DEF RestOK
<1>2. R \subseteq Entries /\ \A y \in R : v.status[y] = "pending" /\ y # None
  BY <1>0, <1>1 DEF OnList
<1>3. R \ {e} \subseteq (IF running = "none" THEN {} ELSE OnList(r, IF running = "wheel" THEN r.tick ELSE Fine))
  BY <1>1, <1>2 DEF OnList
<1>4. PICK p, n : p = v.prev[e] /\ n = v.next[e]
  OBVIOUS
<1>5. /\ n # None => n \in Entries /\ v.prev[n] = e
      /\ p # None => p \in Entries /\ v.next[p] = e
      /\ n # e /\ p # e /\ e # None
  BY <1>0, <1>4, Neighbours
<1>6. /\ IF x = None THEN R = {} ELSE x \in R /\ v.prev[x] \notin R
      /\ \A y \in R : v.next[y] \in Later(R) /\ (y # x => v.prev[y] \in R)
  BY DEF RestOK
<1>7. \A y \in R : /\ v.next[y] # None => v.prev[v.next[y]] = y
                   /\ v.prev[y] # None => v.next[v.prev[y]] = y
  BY <1>2, Neighbours
<1>8. \A y \in Entries \ {e} : /\ r.next[y] = IF y = p THEN n ELSE v.next[y]
                               /\ r.prev[y] = IF y = n THEN p ELSE v.prev[y]
  BY <1>4
<1>9. CASE e \notin R
  <2>1. R \ {e} = R /\ x # e
    BY <1>5, <1>6, <1>9
  <2>2. p \notin R
    BY <1>2, <1>5, <1>6, <1>9 DEF Later
  <2>3. IF x = None THEN R = {} ELSE x \in R /\ r.prev[x] \notin R
    BY <1>2, <1>6, <1>8, <2>1, <2>2
  <2>4. ASSUME NEW y \in R
        PROVE  r.next[y] \in Later(R) /\ (y # x => r.prev[y] \in R)
    <3>1. y \in Entries \ {e} /\ y # p
      BY <1>2, <1>9, <2>2
    <3>2. y # x => y # n
      BY <1>2, <1>5, <1>6, <1>9
    <3> QED
      BY <1>6, <1>8, <3>1, <3>2
  <2> QED
    BY <1>3, <2>1, <2>3, <2>4 DEF RestOK
<1>10. CASE e \in R /\ e # x
  <2>1. p \in R /\ n \in Later(R) /\ p # None
    BY <1>2, <1>4, <1>6, <1>10
  <2>2. x # None /\ x \in R \ {e} /\ v.prev[x] \notin R
    BY <1>6, <1>10
  <2>3. x # n
    BY <1>2, <1>5, <1>10, <2>2
  <2>4. r.prev[x] \notin R \ {e}
    BY <1>2, <1>8, <2>2, <2>3
  <2>5. ASSUME NEW y \in R \ {e}
        PROVE  r.next[y] \in Later(R \ {e}) /\ (y # x => r.prev[y] \in R \ {e})
    <3>1. y \in Entries \ {e} /\ y # None
      BY <1>2
    <3>2. CASE y = p
      <4>1. r.next[y] \in Later(R \ {e})
        BY <1>5, <1>8, <2>1, <3>1, <3>2 DEF Later
      <4>2. y # x => r.prev[y] \in R \ {e}
        <5>1. ASSUME y # x, y # n PROVE v.prev[y] \in R \ {e}
          BY <1>2, <1>4, <1>5, <1>6, <1>7, <5>1
        <5>2. p \in R \ {e}
          BY <1>5, <2>1
        <5> QED
          BY <1>8, <3>1, <5>1, <5>2
      <4> QED
        BY <4>1, <4>2
    <3>3. CASE y # p
      <4>1. v.next[y] \in Later(R) /\ v.next[y] # e
        BY <1>4, <1>5, <1>6, <1>7, <3>3
      <4>2. r.next[y] \in Later(R \ {e})
        BY <1>8, <3>1, <3>3, <4>1 DEF Later
      <4>3. y # x => r.prev[y] \in R \ {e}
        <5>1. ASSUME y # x, y # n PROVE v.prev[y] \in R \ {e}
          BY <1>2, <1>4, <1>5, <1>6, <1>7, <5>1
        <5>2. p \in R \ {e}
          BY <1>5, <2>1
        <5> QED
          BY <1>8, <3>1, <5>1, <5>2
      <4> QED
        BY <4>2, <4>3
    <3> QED
      BY <3>2, <3>3
  <2> QED
    BY <1>3, <1>10, <2>2, <2>4, <2>5 DEF RestOK
<1>11. CASE e \in R /\ e = x
  <2>1. n \in Later(R) /\ p \notin R
    BY <1>4, <1>5, <1>6, <1>11
  <2>2. \A y \in R \ {e} : v.prev[y] \in R
    BY <1>6, <1>11
  <2>3. ASSUME n = None PROVE R \ {e} = {}
    <3> SUFFICES ASSUME R \ {e} # {} PROVE FALSE
      OBVIOUS
    <3>1. R \ {e} \in SUBSET {y \in Entries : v.status[y] = "pending"}
      BY <1>2
    <3>2. PICK y \in R \ {e} : v.prev[y] \notin R \ {e}
      BY <3>1 DEF LinksOK
    <3>3. v.prev[y] = e
      BY <2>2, <3>2
    <3>4. v.next[e] = y /\ y # None
      BY <1>2, <1>5, <1>7, <3>2, <3>3
    <3> QED
      BY <1>4, <2>3, <3>4
  <2>4. ASSUME n # None PROVE n \in R \ {e} /\ r.prev[n] \notin R \ {e}
    <3>1. n \in R /\ n \in Entries \ {e}
      BY <1>2, <1>5, <2>1, <2>4 DEF Later
    <3> QED
      BY <1>8, <2>1, <3>1
  <2>5. ASSUME NEW y \in R \ {e}
        PROVE  r.next[y] \in Later(R \ {e}) /\ (y # n => r.prev[y] \in R \ {e})
    <3>1. y \in Entries \ {e} /\ y # None /\ y # p
      BY <1>2, <2>1
    <3>2. v.next[y] \in Later(R) /\ v.next[y] # e
      BY <1>4, <1>5, <1>6, <1>7, <3>1
    <3>3. y # n => v.prev[y] \in R /\ v.prev[y] # e
      BY <1>2, <1>4, <1>5, <1>7, <2>2
    <3> QED
      BY <1>8, <3>1, <3>2, <3>3 DEF Later
  <2>6. RestOK(r, running, n, R \ {e})
    BY <1>3, <2>3, <2>4, <2>5 DEF RestOK
  <2> QED
    BY <1>4, <1>11, <2>6
<1> QED
  BY <1>9, <1>10, <1>11

\* The lists depend on these fields only.
LEMMA SameLists ==
  ASSUME NEW v, NEW r, r.head = v.head, r.next = v.next, r.prev = v.prev, r.slot = v.slot,
         r.status = v.status, LinksOK(v)
  PROVE  LinksOK(r)
<1>1. \A l : OnList(r, l) = OnList(v, l)
  BY DEF OnList
<1> QED
  BY <1>1 DEF LinksOK

LEMMA SameLinks ==
  ASSUME NEW v, NEW r, SameEntries(r, v), NEW running, NEW x, NEW R
  PROVE  /\ LinksOK(v) => LinksOK(r)
         /\ RestOK(v, running, x, R) => RestOK(r, running, x, R)
<1>1. /\ r.head = v.head /\ r.next = v.next /\ r.prev = v.prev /\ r.slot = v.slot
      /\ r.status = v.status /\ r.tick = v.tick
  BY DEF SameEntries
<1>2. \A l : OnList(r, l) = OnList(v, l)
  BY <1>1 DEF OnList
<1>3. LinksOK(v) => LinksOK(r)
  BY <1>1, SameLists
<1>4. RestOK(v, running, x, R) => RestOK(r, running, x, R)
  BY <1>1, <1>2 DEF RestOK
<1> QED
  BY <1>3, <1>4

LEMMA OffKeeps ==
  ASSUME NEW v, NEW running, NEW x, NEW R, WheelOK(v, running, x, R),
         NEW e \in Entries, v.status[e] = "pending", NEW status \in {"fired", "cancelled"},
         NEW r, r = Off(v, e, status)
  PROVE  /\ WheelOK(r, running, IF e = x THEN v.next[e] ELSE x, R \ {e})
         /\ \A y \in Entries : r.status[y] = IF y = e THEN status ELSE v.status[y]
<1>1. /\ v \in WheelType /\ LinksOK(v) /\ TimersOK(v, running)
      /\ RestOK(v, running, x, R) /\ LateOK(v, running, R)
  BY DEF WheelOK
<1>2. PICK s : s = TrackOf(v.slot[e]) /\ s \in Tracks
  BY <1>1, WheelFields, TracksOfLists
<1>3. e \in OnTrack(v, s)
  BY <1>2 DEF OnTrack
<1>4. /\ v.pending[s] = Cardinality(OnTrack(v, s)) /\ v.pending[s] > 0
      /\ v.pending[s] - 1 = Cardinality(OnTrack(v, s) \ {e})
  <2>1. v.pending[s] = Cardinality(OnTrack(v, s))
    BY <1>1, <1>2 DEF TimersOK
  <2>2. Cardinality(OnTrack(v, s) \ {e}) = Cardinality(OnTrack(v, s)) - 1
    BY <1>3, TimerCounts, FS_RemoveElement
  <2>3. Cardinality(OnTrack(v, s) \ {e}) \in Nat
    BY TimerCounts, FS_Subset, FS_CardinalityType
  <2>4. PICK a, b \in Nat : a = Cardinality(OnTrack(v, s)) /\ b = Cardinality(OnTrack(v, s) \ {e})
    BY <2>3, TimerCounts
  <2> QED
    BY <2>1, <2>2, <2>4
<1>5. /\ r \in WheelType
      /\ \A k \in Lists : r.head[k] = IF v.prev[e] = None /\ k = v.slot[e] THEN v.next[e]
                                      ELSE v.head[k]
      /\ \A y \in Entries :
           /\ r.next[y] = IF y = e THEN None ELSE IF y = v.prev[e] THEN v.next[e] ELSE v.next[y]
           /\ r.prev[y] = IF y = e THEN None ELSE IF y = v.next[e] THEN v.prev[e] ELSE v.prev[y]
           /\ r.status[y] = IF y = e THEN status ELSE v.status[y]
      /\ \A t \in Tracks : r.pending[t] = IF t = TrackOf(v.slot[e]) THEN v.pending[t] - 1
                                          ELSE v.pending[t]
      /\ r.slot = v.slot /\ r.left = v.left /\ r.tick = v.tick
      /\ r.handle = v.handle /\ r.due = v.due
  <2>1. v.prev[e] # e /\ v.next[e] # e
    BY <1>1, Neighbours
  <2> QED
    BY <1>1, <1>2, <1>4, <2>1, OffFields
<1>6. /\ r.tick = v.tick /\ r.status[e] # "pending"
      /\ \A y \in Entries :
           /\ r.next[y] = IF y = e THEN None ELSE IF y = v.prev[e] THEN v.next[e] ELSE v.next[y]
           /\ r.prev[y] = IF y = e THEN None ELSE IF y = v.next[e] THEN v.prev[e] ELSE v.prev[y]
           /\ r.slot[y] = v.slot[y]
           /\ y # e => r.status[y] = v.status[y]
  BY <1>5
<1>7. LinksOK(r)
  BY <1>1, <1>5, <1>6, UnlinkKeeps
<1>8. RestOK(r, running, IF e = x THEN v.next[e] ELSE x, R \ {e})
  BY <1>1, <1>6, RestWithout
<1>9. \A t \in Tracks : /\ OnTrack(r, t) = IF t = s THEN OnTrack(v, t) \ {e} ELSE OnTrack(v, t)
                        /\ Begun(r, t) = Begun(v, t) /\ TimersSet(r, t) = TimersSet(v, t)
  <2> SUFFICES ASSUME NEW t \in Tracks
               PROVE  /\ OnTrack(r, t) = IF t = s THEN OnTrack(v, t) \ {e} ELSE OnTrack(v, t)
                      /\ Begun(r, t) = Begun(v, t) /\ TimersSet(r, t) = TimersSet(v, t)
    OBVIOUS
  <2>1. OnTrack(r, t) = OnTrack(v, t) \ {e}
    BY <1>5 DEF OnTrack
  <2>2. t # s => e \notin OnTrack(v, t)
    BY <1>2 DEF OnTrack
  <2>3. Begun(r, t) = Begun(v, t)
    BY <1>5 DEF Begun
  <2>4. TimersSet(r, t) = TimersSet(v, t)
    BY <1>5 DEF TimersSet
  <2> QED
    BY <2>1, <2>2, <2>3, <2>4
<1>10. TimersOK(r, running)
  <2> SUFFICES ASSUME NEW t \in Tracks
               PROVE  /\ r.pending[t] = Cardinality(OnTrack(r, t))
                      /\ r.handle[t] # NoTimer => r.due[t][r.handle[t]] # None
                      /\ \A i \in TimersSet(r, t) : r.due[t][i] <= Period[t]
                      /\ Cardinality(TimersSet(r, t)) + (IF running = t THEN 1 ELSE 0)
                           <= Cardinality(Begun(r, t))
    BY DEF TimersOK
  <2>1. r.pending[t] = Cardinality(OnTrack(r, t))
    <3>1. CASE t = s
      BY <1>2, <1>4, <1>5, <1>9, <3>1
    <3>2. CASE t # s
      <4>1. v.pending[t] = Cardinality(OnTrack(v, t))
        BY <1>1 DEF TimersOK
      <4> QED
        BY <1>2, <1>5, <1>9, <3>2, <4>1
    <3> QED
      BY <3>1, <3>2
  <2>2. /\ r.handle[t] # NoTimer => r.due[t][r.handle[t]] # None
        /\ \A i \in TimersSet(r, t) : r.due[t][i] <= Period[t]
    BY <1>1, <1>5, <1>9 DEF TimersOK
  <2>3. Cardinality(TimersSet(r, t)) + (IF running = t THEN 1 ELSE 0) <= Cardinality(Begun(r, t))
    BY <1>1, <1>9 DEF TimersOK
  <2> QED
    BY <2>1, <2>2, <2>3
<1>11. LateOK(r, running, R \ {e})
  <2>1. ASSUME NEW tr \in Tracks, NEW y \in OnTrack(r, tr)
        PROVE  /\ y \in OnTrack(v, tr) /\ r.left[y] = v.left[y] /\ r.slot[y] = v.slot[y]
               /\ y \in R <=> y \in R \ {e}
               /\ \A i \in HostTimers : v.due[tr][i] # None => r.due[tr][i] = v.due[tr][i]
    <3>1. y # e
      BY <1>6 DEF OnTrack
    <3>2. y \in OnTrack(v, tr)
      BY <1>9
    <3> QED
      BY <1>5, <3>1, <3>2
  <2>2. PICK Q : Q = R \ {e}
    OBVIOUS
  <2>3. \A tr \in Tracks : \A y \in OnTrack(r, tr) :
          /\ y \in OnTrack(v, tr) /\ r.left[y] = v.left[y] /\ r.slot[y] = v.slot[y]
          /\ y \in R <=> y \in Q
          /\ \A i \in HostTimers : v.due[tr][i] # None => r.due[tr][i] = v.due[tr][i]
    BY <2>1, <2>2
  <2>4. LateOK(r, running, Q)
    BY <1>1, <1>5, <2>3, LateKeeps
  <2> QED
    BY <2>2, <2>4
<1> QED
  BY <1>5, <1>7, <1>8, <1>10, <1>11 DEF WheelOK

LEMMA CancelledKeeps ==
  ASSUME NEW v, NEW running, NEW x, NEW R, WheelOK(v, running, x, R),
         NEW e \in Entries, v.status[e] = "pending", e # x, NEW r, r = Cancelled(v, e)
  PROVE  WheelOK(r, running, x, R \ {e})
<1>1. PICK u : u = Off(v, e, "cancelled")
  OBVIOUS
<1>2. WheelOK(u, running, x, R \ {e})
  BY <1>1, OffKeeps
<1>3. PICK s : s = TrackOf(v.slot[e]) /\ s \in Tracks
  BY WheelFields, TracksOfLists DEF WheelOK
<1>4. r = MaybeStopTimer(u, s)
  BY <1>1, <1>3 DEF Cancelled
<1>5. CASE u.pending[s] # 0
  BY <1>2, <1>4, <1>5 DEF MaybeStopTimer
<1>6. CASE u.pending[s] = 0
  <2>1. r = ClearTimer(u, s)
    BY <1>4, <1>6 DEF MaybeStopTimer
  <2>2. /\ u \in WheelType /\ LinksOK(u) /\ TimersOK(u, running)
        /\ RestOK(u, running, x, R \ {e}) /\ LateOK(u, running, R \ {e})
    BY <1>2 DEF WheelOK
  <2>3. /\ r \in WheelType /\ SameEntries(r, u) /\ TimersOK(r, running)
        /\ \A t \in Tracks \ {s}, j \in HostTimers : r.due[t][j] = u.due[t][j]
    BY <1>3, <2>1, <2>2, ClearTimerKeeps
  <2>4. OnTrack(r, s) = {}
    <3>1. Cardinality(OnTrack(u, s)) = 0
      BY <1>3, <1>6, <2>2 DEF TimersOK
    <3>2. OnTrack(u, s) = {}
      BY <3>1, TimerCounts, FS_EmptySet
    <3> QED
      BY <2>3, <3>2, SameSets
  <2>5. \A t \in Tracks : \A y \in OnTrack(r, t) :
          /\ y \in OnTrack(u, t) /\ r.left[y] = u.left[y] /\ r.slot[y] = u.slot[y]
          /\ y \in R \ {e} <=> y \in R \ {e}
          /\ \A i \in HostTimers : u.due[t][i] # None => r.due[t][i] = u.due[t][i]
    <3> SUFFICES ASSUME NEW t \in Tracks, NEW y \in OnTrack(r, t)
                 PROVE  /\ y \in OnTrack(u, t) /\ r.left[y] = u.left[y] /\ r.slot[y] = u.slot[y]
                        /\ \A i \in HostTimers : r.due[t][i] = u.due[t][i]
      OBVIOUS
    <3>1. t # s
      BY <2>4
    <3>2. y \in OnTrack(u, t)
      BY <2>3, SameSets
    <3> QED
      BY <2>3, <3>1, <3>2 DEF SameEntries
  <2>6. PICK Q : Q = R \ {e}
    OBVIOUS
  <2>7. LateOK(r, running, Q)
    <3>1. LateOK(u, running, Q) /\ r.tick = u.tick
      BY <2>2, <2>3, <2>6 DEF SameEntries
    <3>2. \A t \in Tracks : \A y \in OnTrack(r, t) :
            /\ y \in OnTrack(u, t) /\ r.left[y] = u.left[y] /\ r.slot[y] = u.slot[y]
            /\ y \in Q <=> y \in Q
            /\ \A i \in HostTimers : u.due[t][i] # None => r.due[t][i] = u.due[t][i]
      BY <2>5
    <3> QED
      BY <2>2, <3>1, <3>2, LateKeeps
  <2>8. LinksOK(r) /\ RestOK(r, running, x, Q)
    BY <2>2, <2>3, <2>6, SameLinks
  <2> QED
    BY <2>3, <2>6, <2>7, <2>8 DEF WheelOK
<1> QED
  BY <1>5, <1>6

\* The tick goes on to the next entry, when the one it is at is not due.
LEMMA StepOver ==
  ASSUME NEW v, NEW running \in Tracks, NEW x \in Entries, NEW R, WheelOK(v, running, x, R),
         v.left[x] > 0
  PROVE  WheelOK(v, running, v.next[x], R \ {x})
<1>0. None \notin Entries /\ running # "none"
  BY WheelNumbers
<1>1. /\ v \in WheelType /\ LinksOK(v) /\ TimersOK(v, running)
      /\ RestOK(v, running, x, R) /\ LateOK(v, running, R)
  BY DEF WheelOK
<1>2. PICK l : R \subseteq OnList(v, l) /\ l = IF running = "wheel" THEN v.tick ELSE Fine
  BY <1>0, <1>1 DEF RestOK
<1>3. /\ x \in R /\ v.prev[x] \notin R
      /\ \A y \in R : v.next[y] \in Later(R) /\ (y # x => v.prev[y] \in R)
  BY <1>0, <1>1 DEF RestOK
<1>4. \A y \in R : y \in Entries /\ v.status[y] = "pending" /\ v.slot[y] = l /\ y # None
  BY <1>0, <1>2 DEF OnList
<1>5. \A y \in R : /\ v.next[y] # None => v.prev[v.next[y]] = y
                   /\ v.prev[y] # None => v.next[v.prev[y]] = y
                   /\ v.next[y] # y
  BY <1>1, <1>4, Neighbours
<1>6. PICK n, Q : n = v.next[x] /\ Q = R \ {x}
  OBVIOUS
<1>7. RestOK(v, running, n, Q)
  <2>1. Q \subseteq (IF running = "none" THEN {} ELSE OnList(v, IF running = "wheel" THEN v.tick ELSE Fine))
    BY <1>0, <1>2, <1>6
  <2>2. ASSUME n = None PROVE Q = {}
    <3> SUFFICES ASSUME Q # {} PROVE FALSE
      OBVIOUS
    <3>1. Q \in SUBSET {y \in Entries : v.status[y] = "pending"}
      BY <1>4, <1>6
    <3>2. PICK y \in Q : v.prev[y] \notin Q
      BY <1>1, <3>1 DEF LinksOK
    <3>3. v.prev[y] = x
      BY <1>3, <1>6, <3>2
    <3> QED
      BY <1>0, <1>4, <1>5, <1>6, <2>2, <3>2, <3>3
  <2>3. ASSUME n # None PROVE n \in Q /\ v.prev[n] \notin Q
    BY <1>3, <1>5, <1>6, <2>3 DEF Later
  <2>4. ASSUME NEW y \in Q
        PROVE  v.next[y] \in Later(Q) /\ (y # n => v.prev[y] \in Q)
    <3>1. y \in R /\ y # x
      BY <1>6
    <3>2. v.next[y] # x
      BY <1>3, <1>4, <1>5, <3>1
    <3>3. y # n => v.prev[y] # x
      BY <1>0, <1>4, <1>5, <1>6, <3>1
    <3> QED
      BY <1>3, <1>6, <3>1, <3>2, <3>3 DEF Later
  <2> QED
    BY <2>1, <2>2, <2>3, <2>4 DEF RestOK
<1>8. LateOK(v, running, Q)
  <2>1. ASSUME NEW tr \in Tracks, NEW y \in OnTrack(v, tr)
        PROVE  LateAt(v, running, Q, tr, y)
    <3>1. LateAt(v, running, R, tr, y)
      BY <1>1, LateOKAt
    <3>2. CASE y # x
      BY <1>6, <3>1, <3>2, LateAtKeeps
    <3>3. CASE y = x
      <4>1. v.slot[x] = l /\ TrackOf(l) = tr /\ l \in Lists /\ v.tick \in 0..Slots - 1
        BY <1>1, <1>3, <1>4, <3>3, WheelFields DEF OnTrack
      <4>2. l = v.tick \/ l = Fine
        BY <1>2
      <4>3. TicksTo(v, l) = Turns[tr]
        BY <4>1, <4>2, TicksToTurn
      <4>4. tr = running
        <5>1. running = "wheel" \/ running = "fine"
          BY WheelNumbers
        <5> QED
          BY <1>2, <4>1, <5>1, TracksOfLists
      <4>5. Slack(tr, TicksTo(v, v.slot[x])) = 0
        <5>1. TicksTo(v, l) \in Int
          BY <4>1, TicksToTurn
        <5> QED
          BY <4>1, <4>3, <5>1, SlackNumbers
      <4>6. x \notin Q /\ v.left[x] > -0
        BY <1>6
      <4> QED
        BY <3>3, <4>4, <4>5, <4>6 DEF LateAt
    <3> QED
      BY <3>2, <3>3
  <2> QED
    BY <2>1, LateOKAt
<1> QED
  BY <1>1, <1>6, <1>7, <1>8 DEF WheelOK

LEMMA EnsureTimerKeeps ==
  ASSUME NEW v \in WheelType, NEW tr \in Tracks, NEW running, Booked(v), RoomFor(v, running, tr),
         v.pending[tr] > 0, NEW r, r = EnsureTimer(v, tr)
  PROVE  /\ r \in WheelType /\ SameEntries(r, v) /\ TimersOK(r, running) /\ TimersSet(r, tr) # {}
         /\ \A t \in Tracks, i \in HostTimers : v.due[t][i] # None => r.due[t][i] = v.due[t][i]
<1>1. CASE v.handle[tr] # NoTimer
  <2>1. r = v
    BY <1>1 DEF EnsureTimer
  <2>2. v.handle[tr] \in HostTimers /\ v.due[tr][v.handle[tr]] # None
    BY <1>1, WheelFields DEF Booked
  <2>3. RoomFor(v, running, "no")
    <3> SUFFICES ASSUME NEW t \in Tracks
                 PROVE  Cardinality(TimersSet(v, t)) + (IF running = t THEN 1 ELSE 0)
                          + (IF "no" = t THEN 1 ELSE 0) <= Cardinality(Begun(v, t))
      BY DEF RoomFor
    <3>1. PICK c, b, k, m, m2 \in Nat :
             /\ c = Cardinality(TimersSet(v, t)) /\ b = Cardinality(Begun(v, t))
             /\ k = IF running = t THEN 1 ELSE 0
             /\ m = IF tr = t THEN 1 ELSE 0
             /\ m2 = IF "no" = t THEN 1 ELSE 0
      BY TimerCounts
    <3>2. c + k + m <= b
      BY <3>1 DEF RoomFor
    <3>3. m2 = 0
      BY <3>1 DEF Tracks
    <3>4. c + k + m2 <= b
      BY <3>2, <3>3
    <3> QED
      BY <3>1, <3>4
  <2> QED
    BY <2>1, <2>2, <2>3, TimersOKParts DEF SameEntries, TimersSet
<1>2. CASE v.handle[tr] = NoTimer
  <2>1. r = SetTimer(v, tr)
    BY <1>2 DEF EnsureTimer
  <2>2. /\ r \in WheelType /\ SameEntries(r, v) /\ TimersOK(r, running)
        /\ \E i \in HostTimers : /\ v.due[tr][i] = None /\ r.due[tr][i] = Period[tr]
                                 /\ \A t \in Tracks, j \in HostTimers :
                                      t # tr \/ j # i => r.due[t][j] = v.due[t][j]
    BY <2>1, SetTimerKeeps
  <2>3. Period[tr] # None
    BY WheelNumbers
  <2> QED
    BY <2>2, <2>3 DEF TimersSet
<1> QED
  BY <1>1, <1>2

LEMMA SlotForIsASlot ==
  ASSUME NEW v \in WheelType, NEW timeout \in Timeouts
  PROVE  SlotFor(v, timeout) \in 0..Slots - 1
<1>1. PICK t, m, s, k \in Nat : t = timeout /\ m = TickMs /\ s = Slots /\ k = v.tick
                                /\ m > 0 /\ s > 0
  <2>1. v.tick \in 0..Slots - 1 /\ Slots \in Nat
    BY WheelFields, WheelNumbers
  <2>2. v.tick \in Nat /\ timeout \in Nat /\ TickMs \in Nat /\ TickMs > 0 /\ Slots > 0
    BY <2>1, WheelAssumption
  <2> QED
    BY <2>1, <2>2
<1>2. (t + m - 1) \div m \in Nat
  BY <1>1
<1>3. PICK q \in Nat : q = (t + m - 1) \div m
  BY <1>2, Zenon
<1>4. (k + q) % s \in 0..s - 1
  BY <1>1
<1> QED
  BY <1>1, <1>3, <1>4 DEF SlotFor

\* An entry that is scheduled, before its host timer is seen to.
Linked(v, e, l, timeout) ==
  [Link(v, e, l) EXCEPT !.status[e] = "pending", !.left[e] = timeout,
                        !.pending[TrackOf(l)] = @ + 1]

LEMMA LinkedFields ==
  ASSUME NEW v \in WheelType, NEW e \in Entries, NEW l \in Lists, NEW t \in Nat,
         v.pending[TrackOf(l)] < Cardinality(Entries), NEW r, r = Linked(v, e, l, t)
  PROVE  /\ r \in WheelType
         /\ \A k \in Lists : r.head[k] = IF k = l THEN e ELSE v.head[k]
         /\ \A y \in Entries : /\ r.next[y] = IF y = e THEN v.head[l] ELSE v.next[y]
                               /\ r.prev[y] = IF y = v.head[l] THEN e ELSE v.prev[y]
                               /\ r.slot[y] = IF y = e THEN l ELSE v.slot[y]
                               /\ r.status[y] = IF y = e THEN "pending" ELSE v.status[y]
                               /\ r.left[y] = IF y = e THEN t ELSE v.left[y]
         /\ \A s \in Tracks : r.pending[s] = IF s = TrackOf(l) THEN v.pending[s] + 1
                                             ELSE v.pending[s]
         /\ r.tick = v.tick /\ r.handle = v.handle /\ r.due = v.due
<1>1. PICK f : f = v.head[l] /\ f \in Later(Entries)
  BY WheelFields
<1>2. PICK hd, nx, pv, sl, st, lf, pe :
        /\ hd = [v.head EXCEPT ![l] = e]
        /\ nx = [v.next EXCEPT ![e] = f]
        /\ pv = [x \in Entries |-> IF x = f THEN e ELSE v.prev[x]]
        /\ sl = [v.slot EXCEPT ![e] = l]
        /\ st = [v.status EXCEPT ![e] = "pending"]
        /\ lf = [v.left EXCEPT ![e] = t]
        /\ pe = [v.pending EXCEPT ![TrackOf(l)] = v.pending[TrackOf(l)] + 1]
  OBVIOUS
<1>3. r = [v EXCEPT !.head = hd, !.next = nx, !.prev = pv, !.slot = sl, !.status = st,
                    !.left = lf, !.pending = pe]
  <2>1. PICK q : q = Link(v, e, l)
    OBVIOUS
  <2>2. q = [v EXCEPT !.head = hd, !.slot = sl, !.next = nx, !.prev = pv]
    BY <1>1, <1>2, <2>1 DEF Link, WheelType
  <2>3. q.status = v.status /\ q.left = v.left /\ q.pending = v.pending
    BY <2>2 DEF WheelType
  <2>4. r = [q EXCEPT !.status = st, !.left = lf, !.pending = pe]
    BY <1>2, <2>1, <2>2, <2>3 DEF Linked, WheelType
  <2> QED
    BY <2>2, <2>4 DEF WheelType
<1>4. /\ hd \in [Lists -> Later(Entries)] /\ nx \in [Entries -> Later(Entries)]
      /\ pv \in [Entries -> Later(Entries)] /\ sl \in [Entries -> Lists]
      /\ st \in [Entries -> {"new", "pending", "fired", "cancelled"}]
      /\ lf \in [Entries -> Int]
  <2>1. e \in Later(Entries)
    BY DEF Later
  <2>2. /\ hd \in [Lists -> Later(Entries)] /\ nx \in [Entries -> Later(Entries)]
        /\ pv \in [Entries -> Later(Entries)]
    BY <1>1, <1>2, <2>1, WheelFields
  <2> QED
    BY <1>2, <2>2, WheelFields
<1>5. pe \in [Tracks -> 0..Cardinality(Entries)]
  <2>1. PICK s : s = TrackOf(l) /\ s \in Tracks
    BY TracksOfLists
  <2>2. v.pending \in [Tracks -> 0..Cardinality(Entries)] /\ v.pending[s] < Cardinality(Entries)
    BY <2>1, WheelFields
  <2>3. v.pending[s] + 1 \in 0..Cardinality(Entries)
    BY <2>1, <2>2, WheelNumbers
  <2> QED
    BY <1>2, <2>1, <2>2, <2>3
<1>6. /\ r \in WheelType
      /\ r.head = hd /\ r.next = nx /\ r.prev = pv /\ r.slot = sl /\ r.status = st
      /\ r.left = lf /\ r.pending = pe
      /\ r.tick = v.tick /\ r.handle = v.handle /\ r.due = v.due
  BY <1>3, <1>4, <1>5 DEF WheelType
<1>7. /\ \A k \in Lists : hd[k] = IF k = l THEN e ELSE v.head[k]
      /\ \A y \in Entries : /\ nx[y] = IF y = e THEN v.head[l] ELSE v.next[y]
                            /\ sl[y] = IF y = e THEN l ELSE v.slot[y]
                            /\ st[y] = IF y = e THEN "pending" ELSE v.status[y]
                            /\ lf[y] = IF y = e THEN t ELSE v.left[y]
      /\ \A s \in Tracks : pe[s] = IF s = TrackOf(l) THEN v.pending[s] + 1 ELSE v.pending[s]
  BY <1>1, <1>2, WheelFields
<1>8. \A y \in Entries : pv[y] = IF y = v.head[l] THEN e ELSE v.prev[y]
  BY <1>1, <1>2
<1> QED
  BY <1>6, <1>7, <1>8

LEMMA ScheduledKeeps ==
  ASSUME NEW v, NEW running, NEW x, NEW R, WheelOK(v, running, x, R),
         NEW e \in Entries, v.status[e] = "new", NEW timeout \in Timeouts,
         NEW r, r = Scheduled(v, e, timeout)
  PROVE  /\ WheelOK(r, running, x, R)
         /\ \A y \in Entries : r.status[y] = IF y = e THEN "pending" ELSE v.status[y]
<1>0. None \notin Entries /\ timeout \in Nat \ {0}
  BY WheelNumbers, WheelAssumption
<1>1. /\ v \in WheelType /\ LinksOK(v) /\ TimersOK(v, running)
      /\ RestOK(v, running, x, R) /\ LateOK(v, running, R)
  BY DEF WheelOK
<1>2. PICK l \in Lists : l = IF timeout <= FineThreshold THEN Fine ELSE SlotFor(v, timeout)
  BY <1>1, SlotForIsASlot, TracksOfLists
<1>3. PICK s \in Tracks : s = TrackOf(l)
  BY TracksOfLists
<1>4. PICK u : u = Linked(v, e, l, timeout)
  OBVIOUS
<1>5. r = EnsureTimer(u, s)
  BY <1>2, <1>3, <1>4 DEF Scheduled, Linked
<1>6. e \notin OnTrack(v, s) /\ e \notin Begun(v, s) /\ e \notin OnTrack(v, s)
  BY DEF OnTrack, Begun
<1>7. /\ v.pending[s] = Cardinality(OnTrack(v, s)) /\ v.pending[s] < Cardinality(Entries)
      /\ Cardinality(OnTrack(v, s) \cup {e}) = v.pending[s] + 1
  <2>1. v.pending[s] = Cardinality(OnTrack(v, s))
    BY <1>1 DEF TimersOK
  <2>2. Cardinality(OnTrack(v, s) \cup {e}) = Cardinality(OnTrack(v, s)) + 1
    BY <1>6, TimerCounts, FS_AddElement
  <2>3. OnTrack(v, s) \cup {e} \subseteq Entries
    BY DEF OnTrack
  <2>4. Cardinality(OnTrack(v, s) \cup {e}) <= Cardinality(Entries)
    BY <2>3, WheelNumbers, FS_Subset
  <2>5. PICK a, b \in Nat : a = Cardinality(OnTrack(v, s)) /\ b = Cardinality(Entries)
    BY TimerCounts, WheelNumbers
  <2> QED
    BY <2>1, <2>2, <2>4, <2>5
<1>8. /\ u \in WheelType
      /\ \A k \in Lists : u.head[k] = IF k = l THEN e ELSE v.head[k]
      /\ \A y \in Entries : /\ u.next[y] = IF y = e THEN v.head[l] ELSE v.next[y]
                            /\ u.prev[y] = IF y = v.head[l] THEN e ELSE v.prev[y]
                            /\ u.slot[y] = IF y = e THEN l ELSE v.slot[y]
                            /\ u.status[y] = IF y = e THEN "pending" ELSE v.status[y]
                            /\ u.left[y] = IF y = e THEN timeout ELSE v.left[y]
      /\ \A t \in Tracks : u.pending[t] = IF t = TrackOf(l) THEN v.pending[t] + 1
                                          ELSE v.pending[t]
      /\ u.tick = v.tick /\ u.handle = v.handle /\ u.due = v.due
  BY <1>0, <1>1, <1>3, <1>4, <1>7, LinkedFields
<1>9. \A t \in Tracks : /\ OnTrack(u, t) = IF t = s THEN OnTrack(v, t) \cup {e} ELSE OnTrack(v, t)
                        /\ Begun(u, t) = IF t = s THEN Begun(v, t) \cup {e} ELSE Begun(v, t) \ {e}
                        /\ TimersSet(u, t) = TimersSet(v, t)
  <2> SUFFICES ASSUME NEW t \in Tracks
               PROVE  /\ OnTrack(u, t) = IF t = s THEN OnTrack(v, t) \cup {e} ELSE OnTrack(v, t)
                      /\ Begun(u, t) = IF t = s THEN Begun(v, t) \cup {e} ELSE Begun(v, t) \ {e}
                      /\ TimersSet(u, t) = TimersSet(v, t)
    OBVIOUS
  <2>1. OnTrack(u, t) = IF t = s THEN OnTrack(v, t) \cup {e} ELSE OnTrack(v, t)
    <3>1. \A y \in Entries : y # e => (y \in OnTrack(u, t) <=> y \in OnTrack(v, t))
      BY <1>8 DEF OnTrack
    <3>2. e \in OnTrack(u, t) <=> t = s
      BY <1>3, <1>8 DEF OnTrack
    <3>3. e \notin OnTrack(v, t) /\ OnTrack(u, t) \subseteq Entries /\ OnTrack(v, t) \subseteq Entries
      BY DEF OnTrack
    <3> QED
      BY <3>1, <3>2, <3>3
  <2>2. Begun(u, t) = IF t = s THEN Begun(v, t) \cup {e} ELSE Begun(v, t) \ {e}
    <3>1. \A y \in Entries : y # e => (y \in Begun(u, t) <=> y \in Begun(v, t))
      BY <1>8 DEF Begun
    <3>2. e \in Begun(u, t) <=> t = s
      BY <1>3, <1>8 DEF Begun
    <3>3. e \notin Begun(v, t) /\ Begun(u, t) \subseteq Entries /\ Begun(v, t) \subseteq Entries
      BY DEF Begun
    <3> QED
      BY <3>1, <3>2, <3>3
  <2>3. TimersSet(u, t) = TimersSet(v, t)
    BY <1>8 DEF TimersSet
  <2> QED
    BY <2>1, <2>2, <2>3
<1>10. Booked(u)
  <2> SUFFICES ASSUME NEW t \in Tracks
               PROVE  /\ u.pending[t] = Cardinality(OnTrack(u, t))
                      /\ u.handle[t] # NoTimer => u.due[t][u.handle[t]] # None
                      /\ \A i \in TimersSet(u, t) : u.due[t][i] <= Period[t]
    BY DEF Booked
  <2>1. v.pending[t] = Cardinality(OnTrack(v, t))
    BY <1>1 DEF TimersOK
  <2>2. u.pending[t] = Cardinality(OnTrack(u, t))
    <3>1. CASE t = s
      BY <1>3, <1>7, <1>8, <1>9, <3>1
    <3>2. CASE t # s
      BY <1>3, <1>8, <1>9, <2>1, <3>2
    <3> QED
      BY <3>1, <3>2
  <2>3. /\ u.handle[t] # NoTimer => u.due[t][u.handle[t]] # None
        /\ \A i \in TimersSet(u, t) : u.due[t][i] <= Period[t]
    BY <1>1, <1>8, <1>9 DEF TimersOK
  <2> QED
    BY <2>2, <2>3
<1>11. RoomFor(u, running, s)
  <2> SUFFICES ASSUME NEW t \in Tracks
               PROVE  Cardinality(TimersSet(u, t)) + (IF running = t THEN 1 ELSE 0)
                        + (IF s = t THEN 1 ELSE 0) <= Cardinality(Begun(u, t))
    BY DEF RoomFor
  <2>1. Cardinality(TimersSet(v, t)) + (IF running = t THEN 1 ELSE 0) <= Cardinality(Begun(v, t))
    BY <1>1 DEF TimersOK
  <2>2. Cardinality(Begun(u, t)) = Cardinality(Begun(v, t)) + (IF s = t THEN 1 ELSE 0)
    <3>1. CASE t = s
      <4>1. Cardinality(Begun(v, t) \cup {e}) = Cardinality(Begun(v, t)) + 1
        BY <1>6, <3>1, TimerCounts, FS_AddElement
      <4> QED
        BY <1>9, <3>1, <4>1
    <3>2. CASE t # s
      <4>1. e \notin Begun(v, t)
        BY DEF Begun
      <4>2. Begun(u, t) = Begun(v, t)
        BY <1>9, <3>2, <4>1
      <4>3. Cardinality(Begun(v, t)) \in Nat
        BY TimerCounts
      <4> QED
        BY <3>2, <4>2, <4>3
    <3> QED
      BY <3>1, <3>2
  <2>3. PICK a, b, c, k, m \in Nat :
          /\ a = Cardinality(TimersSet(v, t)) /\ b = Cardinality(Begun(v, t))
          /\ c = Cardinality(Begun(u, t))
          /\ k = (IF running = t THEN 1 ELSE 0) /\ m = (IF s = t THEN 1 ELSE 0)
    BY TimerCounts
  <2>4. a + k <= b /\ c = b + m
    BY <2>1, <2>2, <2>3
  <2>5. a + k + m <= c
    BY <2>4
  <2> QED
    BY <1>9, <2>3, <2>5
<1>12. u.pending[s] > 0
  <2>1. v.pending[s] \in Nat
    BY <1>1, WheelFields, WheelNumbers
  <2> QED
    BY <1>3, <1>8, <2>1
<1>13. /\ r \in WheelType /\ SameEntries(r, u) /\ TimersOK(r, running) /\ TimersSet(r, s) # {}
       /\ \A t \in Tracks, i \in HostTimers : u.due[t][i] # None => r.due[t][i] = u.due[t][i]
  BY <1>5, <1>8, <1>10, <1>11, <1>12, EnsureTimerKeeps
<1>14. LinksOK(u)
  BY <1>1, <1>8, LinkKeeps
<1>15. RestOK(u, running, x, R)
  <2>1. PICK k : R \subseteq (IF running = "none" THEN {} ELSE OnList(v, k))
                 /\ k = IF running = "wheel" THEN v.tick ELSE Fine
    BY <1>1 DEF RestOK
  <2>2. \A y \in R : y \in Entries /\ v.status[y] = "pending" /\ y # e /\ y # None
    BY <1>0, <2>1 DEF OnList
  <2>3. R \subseteq (IF running = "none" THEN {} ELSE OnList(u, IF running = "wheel" THEN u.tick ELSE Fine))
    <3>1. \A y \in Entries : y # e => (y \in OnList(u, k) <=> y \in OnList(v, k))
      BY <1>8 DEF OnList
    <3> QED
      BY <1>8, <2>1, <2>2, <3>1
  <2>4. /\ IF x = None THEN R = {} ELSE x \in R /\ v.prev[x] \notin R
        /\ \A y \in R : v.next[y] \in Later(R) /\ (y # x => v.prev[y] \in R)
    BY <1>1 DEF RestOK
  <2>5. \A y \in R : y = v.head[l] => v.prev[y] = None /\ v.prev[y] \notin R
    BY <1>1, <2>2, Neighbours
  <2>6. e \notin R
    BY <2>2
  <2>7. \A y \in R : u.next[y] = v.next[y] /\ (u.prev[y] = v.prev[y] \/ (u.prev[y] = e /\ y = v.head[l]))
    BY <1>8, <2>2
  <2>8. IF x = None THEN R = {} ELSE x \in R /\ u.prev[x] \notin R
    BY <2>4, <2>6, <2>7
  <2>9. \A y \in R : u.next[y] \in Later(R) /\ (y # x => u.prev[y] \in R)
    BY <2>4, <2>5, <2>7
  <2> QED
    BY <2>3, <2>8, <2>9 DEF RestOK
<1>16. LinksOK(r) /\ RestOK(r, running, x, R)
  BY <1>13, <1>14, <1>15, SameLinks
<1>17. LateOK(r, running, R)
  <2>0. r.tick = v.tick /\ r.left = u.left /\ r.slot = u.slot /\ r.status = u.status
    BY <1>8, <1>13 DEF SameEntries
  <2>1. ASSUME NEW tr \in Tracks, NEW y \in OnTrack(r, tr)
        PROVE  LateAt(r, running, R, tr, y)
    <3>1. y \in OnTrack(u, tr) /\ y \in Entries
      BY <1>13, SameSets DEF OnTrack
    <3>2. CASE y # e
      <4>1. y \in OnTrack(v, tr)
        BY <1>9, <3>1, <3>2
      <4>2. LateAt(v, running, R, tr, y)
        BY <1>1, <4>1, LateOKAt
      <4>3. /\ r.left[y] = v.left[y] /\ r.slot[y] = v.slot[y]
            /\ \A i \in HostTimers : v.due[tr][i] # None => r.due[tr][i] = v.due[tr][i]
        BY <1>8, <1>13, <2>0, <3>1, <3>2
      <4> QED
        BY <2>0, <4>2, <4>3, LateAtKeeps
    <3>3. CASE y = e
      <4>1. tr = s /\ r.slot[e] = l /\ r.left[e] = timeout
        BY <1>3, <1>6, <1>8, <1>9, <2>0, <3>1, <3>3 DEF OnTrack
      <4>2. e \notin R
        BY <1>1 DEF RestOK, OnList
      <4>3. PICK d \in Int : d = TicksTo(r, l) /\ d <= Turns[s]
        BY <1>3, <1>13, TicksToTurn, WheelFields
      <4>4. PICK a, b \in Int : /\ a = Slack(s, d) /\ b = Slack(s, d - 1)
                                /\ b = a + Period[s] + Lag /\ a >= 0
        BY <4>3, SlackNumbers
      <4>5. CASE running = tr
        <5>1. r.left[e] > -a
          BY <1>0, <4>1, <4>4
        <5> QED
          BY <3>3, <4>1, <4>2, <4>3, <4>4, <4>5, <5>1 DEF LateAt
      <4>6. CASE running # tr
        <5>1. PICK i \in TimersSet(r, s) : r.due[s][i] <= Period[s]
          BY <1>13 DEF TimersOK
        <5>2. r.due[s][i] \in Int
          <6>1. r.due[s][i] \in Later(-Lag..TickMs + FineTickMs) /\ r.due[s][i] # None
            BY <1>13, <5>1, WheelFields DEF TimersSet
          <6> QED
            BY <6>1, WheelNumbers DEF Later
        <5>3. r.left[e] > r.due[s][i] + Lag - b
          <6>1. PICK k, p, g \in Int : k = r.due[s][i] /\ p = Period[s] /\ g = Lag
            BY <5>2, WheelNumbers
          <6>2. timeout > k + g - b
            BY <1>0, <4>4, <5>1, <6>1
          <6> QED
            BY <4>1, <6>1, <6>2
        <5> QED
          BY <3>3, <4>1, <4>3, <4>4, <4>6, <5>1, <5>3 DEF LateAt
      <4> QED
        BY <4>5, <4>6
    <3> QED
      BY <3>2, <3>3
  <2> QED
    BY <2>1, LateOKAt
<1>18. \A y \in Entries : r.status[y] = IF y = e THEN "pending" ELSE v.status[y]
  BY <1>8, <1>13 DEF SameEntries
<1> QED
  BY <1>13, <1>16, <1>17, <1>18 DEF WheelOK

LEMMA DestroyedKeeps ==
  ASSUME NEW v, NEW running, NEW x, NEW R, WheelOK(v, running, x, R), NEW r, r = Destroyed(v)
  PROVE  /\ x = None => WheelOK(r, running, None, {})
         /\ x # None => r.status[x] = "cancelled"
<1>0. None \notin Entries
  BY WheelNumbers
<1>1. /\ v \in WheelType /\ LinksOK(v) /\ TimersOK(v, running)
      /\ RestOK(v, running, x, R) /\ LateOK(v, running, R)
  BY DEF WheelOK
<1>2. PICK F : F = UNION {Found(v, l) : l \in Lists}
  OBVIOUS
<1>3. \A y \in Entries : y \in F <=> v.status[y] = "pending"
  <2> SUFFICES ASSUME NEW y \in Entries PROVE y \in F <=> v.status[y] = "pending"
    OBVIOUS
  <2>1. y \in F <=> \E l \in Lists : y \in Found(v, l)
    BY <1>2
  <2>2. \A l \in Lists : Found(v, l) = OnList(v, l)
    BY <1>1, FoundIsTheList
  <2>3. v.slot[y] \in Lists
    BY <1>1, WheelFields
  <2> QED
    BY <2>1, <2>2, <2>3 DEF OnList
<1>4. PICK hd, nx, pv, st, pe :
        /\ hd = [l \in Lists |-> None]
        /\ nx = [y \in Entries |-> IF y \in F THEN None ELSE v.next[y]]
        /\ pv = [y \in Entries |-> IF y \in F THEN None ELSE v.prev[y]]
        /\ st = [y \in Entries |-> IF y \in F THEN "cancelled" ELSE v.status[y]]
        /\ pe = [tr \in Tracks |-> 0]
  OBVIOUS
<1>5. PICK u, q : /\ u = [v EXCEPT !.head = hd, !.next = nx, !.prev = pv, !.status = st, !.pending = pe]
                  /\ q = ClearTimer(u, "wheel")
  OBVIOUS
<1>6. r = ClearTimer(q, "fine")
  BY <1>1, <1>2, <1>4, <1>5 DEF Destroyed, WheelType
<1>7. /\ hd \in [Lists -> Later(Entries)] /\ nx \in [Entries -> Later(Entries)]
      /\ pv \in [Entries -> Later(Entries)]
      /\ st \in [Entries -> {"new", "pending", "fired", "cancelled"}]
      /\ pe \in [Tracks -> 0..Cardinality(Entries)]
  <2>1. None \in Later(Entries) /\ 0 \in 0..Cardinality(Entries)
    BY WheelNumbers DEF Later
  <2>2. /\ v.next \in [Entries -> Later(Entries)] /\ v.prev \in [Entries -> Later(Entries)]
        /\ v.status \in [Entries -> {"new", "pending", "fired", "cancelled"}]
    BY <1>1, WheelFields
  <2> QED
    BY <1>4, <2>1, <2>2
<1>8. /\ u \in WheelType
      /\ u.head = hd /\ u.next = nx /\ u.prev = pv /\ u.status = st /\ u.pending = pe
      /\ u.slot = v.slot /\ u.left = v.left /\ u.tick = v.tick
      /\ u.handle = v.handle /\ u.due = v.due
  BY <1>1, <1>5, <1>7 DEF WheelType
<1>9. \A y \in Entries : /\ u.next[y] = None /\ u.prev[y] = None /\ u.status[y] # "pending"
                         /\ u.status[y] # "new" <=> v.status[y] # "new"
                         /\ v.status[y] = "pending" => u.status[y] = "cancelled"
  BY <1>1, <1>3, <1>4, <1>8, Neighbours
<1>10. \A tr \in Tracks : /\ OnTrack(u, tr) = {} /\ Begun(u, tr) = Begun(v, tr)
                          /\ TimersSet(u, tr) = TimersSet(v, tr)
  <2> SUFFICES ASSUME NEW tr \in Tracks
               PROVE  /\ OnTrack(u, tr) = {} /\ Begun(u, tr) = Begun(v, tr)
                      /\ TimersSet(u, tr) = TimersSet(v, tr)
    OBVIOUS
  <2>1. OnTrack(u, tr) = {}
    BY <1>9 DEF OnTrack
  <2>2. Begun(u, tr) = Begun(v, tr)
    BY <1>8, <1>9 DEF Begun
  <2>3. TimersSet(u, tr) = TimersSet(v, tr)
    BY <1>8 DEF TimersSet
  <2> QED
    BY <2>1, <2>2, <2>3
<1>11. TimersOK(u, running)
  <2> SUFFICES ASSUME NEW tr \in Tracks
               PROVE  /\ u.pending[tr] = Cardinality(OnTrack(u, tr))
                      /\ u.handle[tr] # NoTimer => u.due[tr][u.handle[tr]] # None
                      /\ \A i \in TimersSet(u, tr) : u.due[tr][i] <= Period[tr]
                      /\ Cardinality(TimersSet(u, tr)) + (IF running = tr THEN 1 ELSE 0)
                           <= Cardinality(Begun(u, tr))
    BY DEF TimersOK
  <2>1. u.pending[tr] = 0 /\ OnTrack(u, tr) = {} /\ Cardinality({}) = 0
    BY <1>4, <1>8, <1>10, FS_EmptySet
  <2>2. /\ v.handle[tr] # NoTimer => v.due[tr][v.handle[tr]] # None
        /\ \A i \in TimersSet(v, tr) : v.due[tr][i] <= Period[tr]
        /\ Cardinality(TimersSet(v, tr)) + (IF running = tr THEN 1 ELSE 0)
             <= Cardinality(Begun(v, tr))
    BY <1>1 DEF TimersOK
  <2> QED
    BY <1>8, <1>10, <2>1, <2>2
<1>12. /\ q \in WheelType /\ SameEntries(q, u) /\ TimersOK(q, running)
  BY <1>5, <1>8, <1>11, WheelNumbers, ClearTimerKeeps
<1>13. /\ r \in WheelType /\ SameEntries(r, q) /\ TimersOK(r, running)
  BY <1>6, <1>12, WheelNumbers, ClearTimerKeeps
<1>14. /\ r.head = u.head /\ r.next = u.next /\ r.prev = u.prev /\ r.slot = u.slot
       /\ r.status = u.status /\ r.tick = u.tick
  BY <1>12, <1>13 DEF SameEntries
<1>15. ASSUME x = None
       PROVE  WheelOK(r, running, None, {})
  <2>1. LinksOK(r)
    <3>1. \A l \in Lists : r.head[l] = None
      BY <1>4, <1>8, <1>14
    <3>2. \A y \in Entries : r.next[y] = None /\ r.prev[y] = None /\ r.status[y] # "pending"
      BY <1>9, <1>14
    <3>3. \A S \in SUBSET {y \in Entries : r.status[y] = "pending"} :
            S # {} => \E y \in S : r.prev[y] \notin S
      BY <3>2
    <3> QED
      BY <3>1, <3>2, <3>3, LinksFrom
  <2>2. RestOK(r, running, None, {})
    BY DEF RestOK
  <2>3. LateOK(r, running, {})
    <3>1. \A tr \in Tracks : OnTrack(r, tr) = {}
      BY <1>9, <1>14 DEF OnTrack
    <3> QED
      BY <3>1, LateOKAt
  <2> QED
    BY <1>13, <2>1, <2>2, <2>3 DEF WheelOK
<1>16. ASSUME x # None PROVE r.status[x] = "cancelled"
  <2>1. x \in R
    BY <1>1, <1>16 DEF RestOK
  <2>2. x \in Entries /\ v.status[x] = "pending"
    BY <1>1, <2>1 DEF RestOK, OnList
  <2> QED
    BY <1>9, <1>14, <2>2
<1> QED
  BY <1>15, <1>16

\* One call, or none, keeps the wheel, unless it cancels the entry the tick goes to next.
LEMMA WheelCallsKeep ==
  ASSUME NEW v, NEW running, NEW x, NEW R \in SUBSET Entries, WheelOK(v, running, x, R),
         NEW r \in WheelCalls(v)
  PROVE  \/ x # None /\ r.status[x] = "cancelled"
         \/ \E Q \in SUBSET Entries : WheelOK(r, running, x, Q)
<1>1. CASE r = v
  BY <1>1
<1>2. ASSUME NEW e \in Entries, v.status[e] = "new", NEW t \in Timeouts, r = Scheduled(v, e, t)
      PROVE  \E Q \in SUBSET Entries : WheelOK(r, running, x, Q)
  BY <1>2, ScheduledKeeps
<1>3. ASSUME NEW e \in Entries, v.status[e] = "pending", r = Cancelled(v, e)
      PROVE  \/ x # None /\ r.status[x] = "cancelled"
             \/ \E Q \in SUBSET Entries : WheelOK(r, running, x, Q)
  <2>1. CASE e # x
    <3>1. WheelOK(r, running, x, R \ {e})
      BY <1>3, <2>1, CancelledKeeps
    <3>2. PICK Q \in SUBSET Entries : Q = R \ {e}
      OBVIOUS
    <3> QED
      BY <3>1, <3>2
  <2>2. CASE e = x
    <3>1. PICK u : u = Off(v, e, "cancelled")
      OBVIOUS
    <3>2. u.status[e] = "cancelled" /\ \E y, Q : WheelOK(u, running, y, Q)
      <4>1. WheelOK(u, running, IF e = x THEN v.next[e] ELSE x, R \ {e})
        BY <1>3, <3>1, OffKeeps
      <4>2. v \in WheelType
        BY DEF WheelOK
      <4>3. u.status = [v.status EXCEPT ![e] = "cancelled"]
        BY <3>1, <4>2 DEF Off, Unlink, WheelType
      <4>4. u.status[e] = "cancelled"
        BY <4>2, <4>3, WheelFields
      <4> QED
        BY <4>1, <4>4, Zenon
    <3>3. PICK s \in Tracks : s = TrackOf(v.slot[e])
      BY WheelFields, TracksOfLists DEF WheelOK
    <3>4. r = MaybeStopTimer(u, s)
      BY <1>3, <3>1, <3>3 DEF Cancelled
    <3>5. r.status = u.status
      <4>1. u \in WheelType /\ TimersOK(u, running)
        BY <3>2 DEF WheelOK
      <4>2. r = u \/ r = ClearTimer(u, s)
        BY <3>4 DEF MaybeStopTimer
      <4> QED
        BY <4>1, <4>2, ClearTimerKeeps DEF SameEntries
    <3>6. e # None
      BY WheelNumbers
    <3> QED
      BY <2>2, <3>2, <3>5, <3>6
  <2> QED
    BY <2>1, <2>2
<1>4. ASSUME r = Destroyed(v)
      PROVE  \/ x # None /\ r.status[x] = "cancelled"
             \/ \E Q \in SUBSET Entries : WheelOK(r, running, x, Q)
  <2>1. /\ x = None => WheelOK(r, running, None, {})
        /\ x # None => r.status[x] = "cancelled"
    BY <1>4, DestroyedKeeps
  <2>2. {} \in SUBSET Entries
    OBVIOUS
  <2> QED
    BY <2>1, <2>2
<1>5. \/ r = v
      \/ \E e \in Entries, t \in Timeouts : v.status[e] = "new" /\ r = Scheduled(v, e, t)
      \/ \E e \in Entries : v.status[e] = "pending" /\ r = Cancelled(v, e)
      \/ r = Destroyed(v)
  BY DEF WheelCalls
<1> QED
  BY <1>1, <1>2, <1>3, <1>4, <1>5

-----------------------------------------------------------------------------
(* The ticks.                                                                *)

\* The wheel when a host timer has begun a turn.
Turned(v, tr, i) ==
  [v EXCEPT !.due[tr][i] = None, !.handle[tr] = NoTimer,
            !.tick = IF tr = "wheel" THEN (v.tick + 1) % Slots ELSE v.tick]

LEMMA BeginTickKeeps ==
  ASSUME NEW v, NEW R, WheelOK(v, "none", None, R), NEW tr \in Tracks, NEW i \in HostTimers,
         v.due[tr][i] # None,
         NEW r, r = Turned(v, tr, i),
         NEW l, l = IF tr = "wheel" THEN r.tick ELSE Fine
  PROVE  r.head = v.head /\ WheelOK(r, tr, v.head[l], OnList(r, l))
<1>0. None \notin Entries /\ tr # "none" /\ "none" \notin Tracks /\ (tr = "wheel" \/ tr = "fine")
  BY WheelNumbers
<1>1. /\ v \in WheelType /\ LinksOK(v) /\ TimersOK(v, "none") /\ LateOK(v, "none", R)
  BY DEF WheelOK
<1>2. /\ v.due \in [Tracks -> [HostTimers -> Later(-Lag..TickMs + FineTickMs)]]
      /\ v.handle \in [Tracks -> HostTimers \cup {NoTimer}] /\ v.tick \in 0..Slots - 1
  BY <1>1, WheelFields
<1>3. PICK d, h, k : /\ d = [v.due EXCEPT ![tr] = [v.due[tr] EXCEPT ![i] = None]]
                     /\ h = [v.handle EXCEPT ![tr] = NoTimer]
                     /\ k = IF tr = "wheel" THEN (v.tick + 1) % Slots ELSE v.tick
  OBVIOUS
<1>4. /\ d \in [Tracks -> [HostTimers -> Later(-Lag..TickMs + FineTickMs)]]
      /\ h \in [Tracks -> HostTimers \cup {NoTimer}]
  BY <1>2, <1>3 DEF Later
<1>5. k \in 0..Slots - 1
  BY <1>2, <1>3, TickOn
<1>6. /\ r \in WheelType
      /\ r.head = v.head /\ r.next = v.next /\ r.prev = v.prev /\ r.slot = v.slot
      /\ r.status = v.status /\ r.left = v.left /\ r.pending = v.pending
      /\ r.tick = k /\ r.due = d /\ r.handle = h
  <2>1. r = [v EXCEPT !.due = d, !.handle = h, !.tick = k]
    BY <1>1, <1>3 DEF Turned, WheelType
  <2> QED
    BY <1>1, <1>4, <1>5, <2>1 DEF WheelType
<1>7. l \in Lists
  BY <1>5, <1>6, TracksOfLists
<1>9. LinksOK(r)
  BY <1>1, <1>6, SameLists
<1>10. PICK x, Q : x = v.head[l] /\ Q = OnList(r, l)
  OBVIOUS
<1>11. \A y \in Entries : y \in Q <=> v.status[y] = "pending" /\ v.slot[y] = l
  BY <1>6, <1>10 DEF OnList
<1>12. Q \subseteq Entries
  BY <1>10 DEF OnList
<1>13. \A y \in Q : /\ v.next[y] \in Later(Q)
                    /\ v.prev[y] = None => x = y
                    /\ v.prev[y] # None => v.prev[y] \in Q
  <2> SUFFICES ASSUME NEW y \in Q
               PROVE  /\ v.next[y] \in Later(Q)
                      /\ v.prev[y] = None => x = y
                      /\ v.prev[y] # None => v.prev[y] \in Q
    OBVIOUS
  <2>1. y \in Entries /\ v.status[y] = "pending" /\ v.slot[y] = l
    BY <1>11, <1>12
  <2>2. /\ v.next[y] # None =>
             v.next[y] \in Entries /\ v.status[v.next[y]] = "pending" /\ v.slot[v.next[y]] = l
        /\ v.prev[y] # None =>
             v.prev[y] \in Entries /\ v.status[v.prev[y]] = "pending" /\ v.slot[v.prev[y]] = l
        /\ v.prev[y] = None => v.head[l] = y
    BY <1>1, <2>1, Neighbours
  <2> QED
    BY <1>10, <1>11, <2>2 DEF Later
<1>14. x # None => x \in Q /\ v.prev[x] = None
  BY <1>1, <1>7, <1>10, <1>11, Neighbours
<1>15. x = None => Q = {}
  <2> SUFFICES ASSUME x = None, Q # {} PROVE FALSE
    OBVIOUS
  <2>1. Q \in SUBSET {y \in Entries : v.status[y] = "pending"}
    BY <1>11, <1>12
  <2>2. PICK y \in Q : v.prev[y] \notin Q
    BY <1>1, <2>1 DEF LinksOK
  <2>3. y # None
    BY <1>0, <1>12
  <2> QED
    BY <1>13, <2>2, <2>3
<1>16. RestOK(r, tr, x, Q)
  <2>1. Q \subseteq (IF tr = "none" THEN {} ELSE OnList(r, IF tr = "wheel" THEN r.tick ELSE Fine))
    BY <1>0, <1>10
  <2>2. IF x = None THEN Q = {} ELSE x \in Q /\ r.prev[x] \notin Q
    BY <1>0, <1>6, <1>12, <1>14, <1>15
  <2>3. \A y \in Q : r.next[y] \in Later(Q) /\ (y # x => r.prev[y] \in Q)
    BY <1>6, <1>13
  <2> QED
    BY <2>1, <2>2, <2>3 DEF RestOK
<1>17. /\ \A t \in Tracks, j \in HostTimers : t # tr \/ j # i => r.due[t][j] = v.due[t][j]
       /\ r.due[tr][i] = None /\ r.handle[tr] = NoTimer
       /\ \A t \in Tracks \ {tr} : r.handle[t] = v.handle[t]
  BY <1>2, <1>3, <1>6
<1>18. TimersOK(r, tr)
  <2> SUFFICES ASSUME NEW t \in Tracks
               PROVE  /\ r.pending[t] = Cardinality(OnTrack(r, t))
                      /\ r.handle[t] # NoTimer => r.due[t][r.handle[t]] # None
                      /\ \A j \in TimersSet(r, t) : r.due[t][j] <= Period[t]
                      /\ Cardinality(TimersSet(r, t)) + (IF tr = t THEN 1 ELSE 0)
                           <= Cardinality(Begun(r, t))
    BY DEF TimersOK
  <2>1. /\ v.pending[t] = Cardinality(OnTrack(v, t))
        /\ v.handle[t] # NoTimer => v.due[t][v.handle[t]] # None
        /\ \A j \in TimersSet(v, t) : v.due[t][j] <= Period[t]
        /\ Cardinality(TimersSet(v, t)) + (IF "none" = t THEN 1 ELSE 0) <= Cardinality(Begun(v, t))
    BY <1>1 DEF TimersOK
  <2>2. OnTrack(r, t) = OnTrack(v, t) /\ Begun(r, t) = Begun(v, t)
    BY <1>6 DEF OnTrack, Begun
  <2>3. TimersSet(r, t) = IF t = tr THEN TimersSet(v, t) \ {i} ELSE TimersSet(v, t)
    BY <1>17 DEF TimersSet
  <2>4. r.pending[t] = Cardinality(OnTrack(r, t))
    BY <1>6, <2>1, <2>2
  <2>5. r.handle[t] # NoTimer => r.due[t][r.handle[t]] # None
    BY <1>2, <1>17, <2>1
  <2>6. \A j \in TimersSet(r, t) : r.due[t][j] <= Period[t]
    <3> SUFFICES ASSUME NEW j \in TimersSet(r, t) PROVE r.due[t][j] <= Period[t]
      OBVIOUS
    <3>1. j \in HostTimers /\ r.due[t][j] # None
      BY DEF TimersSet
    <3>2. r.due[t][j] = v.due[t][j] /\ j \in TimersSet(v, t)
      BY <1>17, <3>1 DEF TimersSet
    <3> QED
      BY <2>1, <3>2
  <2>7. Cardinality(TimersSet(r, t)) + (IF tr = t THEN 1 ELSE 0) <= Cardinality(Begun(r, t))
    <3>1. PICK a, b, c \in Nat : /\ a = Cardinality(TimersSet(v, t)) /\ b = Cardinality(Begun(v, t))
                                 /\ c = Cardinality(TimersSet(r, t))
      BY TimerCounts
    <3>2. a <= b
      <4>1. (IF "none" = t THEN 1 ELSE 0) = 0
        BY <1>0
      <4> QED
        BY <2>1, <3>1, <4>1
    <3>3. CASE t = tr
      <4>1. i \in TimersSet(v, t)
        BY <3>3 DEF TimersSet
      <4>2. c = a - 1
        <5>1. IsFiniteSet(TimersSet(v, t))
          BY TimerCounts
        <5>2. Cardinality(TimersSet(v, t) \ {i}) = Cardinality(TimersSet(v, t)) - 1
          BY <4>1, <5>1, FS_RemoveElement
        <5> QED
          BY <2>3, <3>1, <3>3, <5>2
      <4> QED
        BY <2>2, <3>1, <3>2, <3>3, <4>2
    <3>4. CASE t # tr
      <4>1. c = a /\ c + 0 <= b
        BY <2>3, <3>1, <3>2, <3>4
      <4> QED
        BY <2>2, <3>1, <3>4, <4>1
    <3> QED
      BY <3>3, <3>4
  <2> QED
    BY <2>4, <2>5, <2>6, <2>7
<1>19. LateOK(r, tr, Q)
  <2>1. ASSUME NEW t \in Tracks, NEW y \in OnTrack(r, t)
        PROVE  LateAt(r, tr, Q, t, y)
    <3>1. y \in OnTrack(v, t) /\ y \in Entries /\ v.status[y] = "pending" /\ TrackOf(v.slot[y]) = t
      BY <1>6 DEF OnTrack
    <3>2. LateAt(v, "none", R, t, y)
      BY <1>1, <3>1, LateOKAt
    <3>3. PICK j \in TimersSet(v, t) :
            v.left[y] > v.due[t][j] + Lag - Slack(t, TicksTo(v, v.slot[y]) - 1)
      BY <1>0, <3>2 DEF LateAt
    <3>4. PICK m \in Lists : m = v.slot[y]
      BY <1>1, <3>1, WheelFields
    <3>5. CASE t # tr
      <4>1. TicksTo(r, m) = TicksTo(v, m)
        <5>1. CASE t = "wheel"
          <6>1. tr = "fine" /\ r.tick = v.tick
            BY <1>0, <1>3, <1>6, <3>5, <5>1
          <6> QED
            BY <6>1 DEF TicksTo
        <5>2. CASE t # "wheel"
          <6>1. m = Fine
            BY <3>1, <3>4, <5>2, TracksOfLists
          <6> QED
            BY <6>1 DEF TicksTo
        <5> QED
          BY <5>1, <5>2
      <4>2. j \in TimersSet(r, t) /\ r.due[t][j] = v.due[t][j]
        BY <1>17, <3>5 DEF TimersSet
      <4>3. r.left[y] > r.due[t][j] + Lag - Slack(t, TicksTo(r, r.slot[y]) - 1)
        BY <1>6, <3>3, <3>4, <4>1, <4>2
      <4> QED
        BY <3>5, <4>2, <4>3 DEF LateAt
    <3>6. CASE t = tr
      <4>1. PICK c \in Int : c = TicksTo(v, m)
        BY <1>2, <3>4, TicksToTurn
      <4>2. PICK b \in Int : b = Slack(t, c - 1)
        <5>1. c - 1 \in Int
          BY <4>1
        <5> QED
          BY <5>1, SlackNumbers
      <4>3. v.due[t][j] \in Int /\ v.due[t][j] >= -Lag
        <5>1. v.due[t][j] \in Later(-Lag..TickMs + FineTickMs) /\ v.due[t][j] # None
          BY <1>2, <3>3 DEF TimersSet
        <5> QED
          BY <5>1, WheelNumbers DEF Later
      <4>4. v.left[y] \in Int
        BY <1>1, <3>1, WheelFields
      <4>5. v.left[y] > -b
        <5>1. PICK f, g, n \in Int : f = v.left[y] /\ g = v.due[t][j] /\ n = Lag
          BY <4>3, <4>4, WheelNumbers
        <5>2. f > g + n - b /\ g >= -n
          BY <3>3, <3>4, <4>1, <4>2, <4>3, <5>1
        <5> QED
          BY <5>1, <5>2
      <4>6. (IF y \in Q THEN 0 ELSE TicksTo(r, m)) = c - 1
        <5>1. CASE t = "fine"
          <6>1. m = Fine /\ l = Fine
            BY <1>0, <3>1, <3>4, <3>6, <5>1 DEF TrackOf
          <6>2. y \in Q /\ c = 1
            BY <1>11, <3>1, <3>4, <4>1, <6>1 DEF TicksTo
          <6> QED
            BY <6>2
        <5>2. CASE t = "wheel"
          <6>1. m # Fine /\ m \in 0..Slots - 1 /\ l = k
            BY <1>6, <3>1, <3>4, <3>6, <5>2, TracksOfLists
          <6>2. PICK a, s, n, z \in Int : a = v.tick /\ s = Slots /\ n = m /\ z = k
            BY <1>2, <1>5, <6>1, WheelNumbers
          <6>3. z = (IF a + 1 = s THEN 0 ELSE a + 1) /\ a \in 0..s - 1 /\ n \in 0..s - 1
            <7>1. k = (v.tick + 1) % Slots
              BY <1>3, <3>6, <5>2
            <7> QED
              BY <1>2, <6>1, <6>2, <7>1, TickOn
          <6>4. /\ c = IF n > a THEN n - a ELSE n - a + s
                /\ TicksTo(r, m) = IF n > z THEN n - z ELSE n - z + s
            BY <1>6, <4>1, <6>1, <6>2 DEF TicksTo
          <6>5. y \in Q <=> n = z
            BY <1>11, <3>1, <3>4, <6>1, <6>2
          <6>6. CASE n = z
            <7>1. c = 1
              BY <6>3, <6>4, <6>6
            <7> QED
              BY <6>5, <6>6, <7>1
          <6>7. CASE n # z
            <7>1. (IF n > z THEN n - z ELSE n - z + s) = c - 1
              BY <6>3, <6>4, <6>7
            <7> QED
              BY <6>4, <6>5, <6>7, <7>1
          <6> QED
            BY <6>6, <6>7
        <5> QED
          BY <1>0, <3>6, <5>1, <5>2
      <4>7. r.left[y] > -Slack(t, IF y \in Q THEN 0 ELSE TicksTo(r, r.slot[y]))
        BY <1>6, <3>4, <4>2, <4>5, <4>6
      <4> QED
        BY <3>6, <4>7 DEF LateAt
    <3> QED
      BY <3>5, <3>6
  <2> QED
    BY <2>1, LateOKAt
<1> QED
  BY <1>6, <1>9, <1>10, <1>16, <1>18, <1>19 DEF WheelOK

LEMMA EndTickKeeps ==
  ASSUME NEW v, NEW tr \in Tracks, NEW R, WheelOK(v, tr, None, R),
         NEW r, r = IF v.pending[tr] > 0 THEN SetTimer(v, tr) ELSE v
  PROVE  WheelOK(r, "none", None, {})
<1>0. "none" \notin Tracks
  BY WheelNumbers
<1>1. /\ v \in WheelType /\ LinksOK(v) /\ TimersOK(v, tr)
      /\ RestOK(v, tr, None, R) /\ LateOK(v, tr, R)
  BY DEF WheelOK
<1>2. R = {}
  BY <1>1 DEF RestOK
<1>3. Booked(v) /\ RoomFor(v, "none", tr) /\ RoomFor(v, "none", "no")
  <2>1. Booked(v) /\ RoomFor(v, tr, "no")
    BY <1>1, TimersOKParts
  <2>2. ASSUME NEW t \in Tracks
        PROVE  /\ Cardinality(TimersSet(v, t)) + (IF "none" = t THEN 1 ELSE 0)
                    + (IF tr = t THEN 1 ELSE 0) <= Cardinality(Begun(v, t))
               /\ Cardinality(TimersSet(v, t)) + (IF "none" = t THEN 1 ELSE 0)
                    + (IF "no" = t THEN 1 ELSE 0) <= Cardinality(Begun(v, t))
    <3>1. PICK a, b, c, m, k \in Nat :
            /\ a = Cardinality(TimersSet(v, t)) /\ b = Cardinality(Begun(v, t))
            /\ c = (IF tr = t THEN 1 ELSE 0) /\ m = (IF "no" = t THEN 1 ELSE 0)
            /\ k = (IF "none" = t THEN 1 ELSE 0)
      BY TimerCounts
    <3>2. a + c + m <= b
      BY <2>1, <3>1 DEF RoomFor
    <3>3. m = 0 /\ k = 0
      BY <1>0, <3>1 DEF Tracks
    <3>4. a + k + c <= b /\ a + k + m <= b
      BY <3>2, <3>3
    <3> QED
      BY <3>1, <3>4
  <2> QED
    BY <2>1, <2>2 DEF RoomFor
<1>4. CASE v.pending[tr] > 0
  <2>1. r = SetTimer(v, tr)
    BY <1>4
  <2>2. /\ r \in WheelType /\ SameEntries(r, v) /\ TimersOK(r, "none")
        /\ \E i \in HostTimers : /\ v.due[tr][i] = None /\ r.due[tr][i] = Period[tr]
                                 /\ \A t \in Tracks, j \in HostTimers :
                                      t # tr \/ j # i => r.due[t][j] = v.due[t][j]
    BY <1>1, <1>3, <2>1, SetTimerKeeps
  <2>3. PICK i \in HostTimers : /\ v.due[tr][i] = None /\ r.due[tr][i] = Period[tr]
                                /\ \A t \in Tracks, j \in HostTimers :
                                     t # tr \/ j # i => r.due[t][j] = v.due[t][j]
    BY <2>2
  <2>4. r.left = v.left /\ r.slot = v.slot /\ r.tick = v.tick
    BY <2>2 DEF SameEntries
  <2>5. ASSUME NEW t \in Tracks, NEW y \in OnTrack(r, t)
        PROVE  LateAt(r, "none", {}, t, y)
    <3>1. y \in OnTrack(v, t) /\ y \in Entries
      BY <2>2, SameSets DEF OnTrack
    <3>2. LateAt(v, tr, R, t, y)
      BY <1>1, <3>1, LateOKAt
    <3>3. CASE t # tr
      <4>1. PICK j \in TimersSet(v, t) :
              v.left[y] > v.due[t][j] + Lag - Slack(t, TicksTo(v, v.slot[y]) - 1)
        BY <3>2, <3>3 DEF LateAt
      <4>2. j \in TimersSet(r, t) /\ r.due[t][j] = v.due[t][j]
        BY <2>3, <3>3, <4>1 DEF TimersSet
      <4>3. TicksTo(r, r.slot[y]) = TicksTo(v, v.slot[y])
        BY <2>4 DEF TicksTo
      <4>4. r.left[y] > r.due[t][j] + Lag - Slack(t, TicksTo(r, r.slot[y]) - 1)
        BY <2>4, <4>1, <4>2, <4>3
      <4> QED
        BY <1>0, <4>2, <4>4 DEF LateAt
    <3>4. CASE t = tr
      <4>1. v.left[y] > -Slack(tr, TicksTo(v, v.slot[y]))
        BY <1>2, <3>2, <3>4 DEF LateAt
      <4>2. TicksTo(r, r.slot[y]) = TicksTo(v, v.slot[y])
        BY <2>4 DEF TicksTo
      <4>3. PICK c \in Int : c = TicksTo(v, v.slot[y])
        <5>1. v.slot[y] \in Lists /\ v.tick \in 0..Slots - 1
          BY <1>1, <3>1, WheelFields
        <5> QED
          BY <5>1, TicksToTurn
      <4>4. PICK a, b, p, g \in Int : /\ a = Slack(tr, c) /\ b = Slack(tr, c - 1)
                                      /\ p = Period[tr] /\ g = Lag
                                      /\ b = a + p + g
        <5>1. c - 1 \in Int
          BY <4>3
        <5>2. Slack(tr, c) \in Int /\ Slack(tr, c - 1) \in Int
              /\ Slack(tr, c - 1) = Slack(tr, c) + Period[tr] + Lag
          BY <4>3, <5>1, SlackNumbers
        <5> QED
          BY <5>2, WheelNumbers
      <4>5. v.left[y] \in Int
        BY <1>1, <3>1, WheelFields
      <4>6. v.left[y] > p + g - b
        <5>1. PICK f \in Int : f = v.left[y]
          BY <4>5
        <5>2. f > -a
          BY <4>1, <4>3, <4>4, <5>1
        <5> QED
          BY <4>4, <5>1, <5>2
      <4>7. i \in TimersSet(r, t) /\ r.due[t][i] = p
        BY <2>3, <3>4, <4>4, WheelNumbers DEF TimersSet
      <4>8. r.left[y] > r.due[t][i] + Lag - Slack(t, TicksTo(r, r.slot[y]) - 1)
        BY <2>4, <3>4, <4>2, <4>3, <4>4, <4>6, <4>7
      <4> QED
        BY <1>0, <4>7, <4>8 DEF LateAt
    <3> QED
      BY <3>3, <3>4
  <2>6. LateOK(r, "none", {})
    BY <2>5, LateOKAt
  <2>7. LinksOK(r)
    BY <1>1, <2>2, SameLinks
  <2> QED
    BY <2>2, <2>6, <2>7 DEF WheelOK, RestOK
<1>5. CASE ~(v.pending[tr] > 0)
  <2>1. r = v
    BY <1>5
  <2>2. TimersOK(v, "none")
    BY <1>3, TimersOKParts
  <2>3. OnTrack(v, tr) = {}
    <3>1. v.pending[tr] = Cardinality(OnTrack(v, tr)) /\ Cardinality(OnTrack(v, tr)) \in Nat
      BY <1>1, TimerCounts DEF TimersOK
    <3>2. Cardinality(OnTrack(v, tr)) = 0
      BY <1>5, <3>1
    <3> QED
      BY <3>2, TimerCounts, FS_EmptySet
  <2>4. ASSUME NEW t \in Tracks, NEW y \in OnTrack(v, t)
        PROVE  LateAt(v, "none", {}, t, y)
    <3>1. t # tr
      BY <2>3
    <3>2. LateAt(v, tr, R, t, y)
      BY <1>1, LateOKAt
    <3> QED
      BY <1>0, <3>1, <3>2 DEF LateAt
  <2>5. LateOK(v, "none", {})
    BY <2>4, LateOKAt
  <2> QED
    BY <1>1, <2>1, <2>2, <2>5 DEF WheelOK, RestOK
<1> QED
  BY <1>4, <1>5

LEMMA AdvanceKeeps ==
  ASSUME NEW v, NEW R, WheelOK(v, "none", None, R),
         \A tr \in Tracks, i \in HostTimers : v.due[tr][i] # None => v.due[tr][i] > -Lag,
         NEW r, r = [v EXCEPT
             !.left = [e \in Entries |-> IF v.status[e] # "pending" THEN 0
                                         ELSE IF v.left[e] > -Forever THEN v.left[e] - 1 ELSE v.left[e]],
             !.due = [tr \in Tracks |-> [i \in HostTimers |->
                        IF v.due[tr][i] = None THEN None ELSE v.due[tr][i] - 1]]]
  PROVE  WheelOK(r, "none", None, {})
<1>0. "none" \notin Tracks
  BY WheelNumbers
<1>1. v \in WheelType /\ LinksOK(v) /\ TimersOK(v, "none") /\ LateOK(v, "none", R)
  BY DEF WheelOK
<1>2. PICK f, d :
        /\ f = [e \in Entries |-> IF v.status[e] # "pending" THEN 0
                                  ELSE IF v.left[e] > -Forever THEN v.left[e] - 1 ELSE v.left[e]]
        /\ d = [tr \in Tracks |-> [i \in HostTimers |->
                  IF v.due[tr][i] = None THEN None ELSE v.due[tr][i] - 1]]
  OBVIOUS
<1>3. f \in [Entries -> Int]
  <2>1. v.left \in [Entries -> Int]
    BY <1>1, WheelFields
  <2>2. ASSUME NEW e \in Entries PROVE f[e] \in Int
    BY <1>2, <2>1
  <2> QED
    BY <1>2, <2>2
<1>4. ASSUME NEW tr \in Tracks, NEW i \in HostTimers
      PROVE  /\ d[tr][i] \in Later(-Lag..TickMs + FineTickMs)
             /\ d[tr][i] = None <=> v.due[tr][i] = None
             /\ v.due[tr][i] # None => v.due[tr][i] \in Int /\ d[tr][i] = v.due[tr][i] - 1
  <2>1. v.due[tr][i] \in Later(-Lag..TickMs + FineTickMs)
    BY <1>1, WheelFields
  <2>2. d[tr][i] = IF v.due[tr][i] = None THEN None ELSE v.due[tr][i] - 1
    BY <1>2
  <2>3. CASE v.due[tr][i] = None
    BY <2>2, <2>3 DEF Later
  <2>4. CASE v.due[tr][i] # None
    <3>1. v.due[tr][i] \in -Lag..TickMs + FineTickMs /\ v.due[tr][i] > -Lag
      BY <2>1, <2>4 DEF Later
    <3>2. d[tr][i] = v.due[tr][i] - 1
      BY <2>2, <2>4
    <3>3. d[tr][i] \in Int /\ d[tr][i] \in -Lag..TickMs + FineTickMs /\ v.due[tr][i] \in Int
      BY <3>1, <3>2, WheelNumbers
    <3>4. d[tr][i] # None
      BY <3>3, WheelNumbers
    <3> QED
      BY <2>4, <3>2, <3>3, <3>4 DEF Later
  <2> QED
    BY <2>3, <2>4
<1>5. d \in [Tracks -> [HostTimers -> Later(-Lag..TickMs + FineTickMs)]]
  BY <1>2, <1>4
<1>6. /\ r \in WheelType
      /\ r.head = v.head /\ r.next = v.next /\ r.prev = v.prev /\ r.slot = v.slot
      /\ r.status = v.status /\ r.tick = v.tick /\ r.pending = v.pending
      /\ r.handle = v.handle /\ r.left = f /\ r.due = d
  <2>1. r = [v EXCEPT !.left = f, !.due = d]
    BY <1>2
  <2> QED
    BY <1>1, <1>3, <1>5, <2>1 DEF WheelType
<1>7. \A t : /\ OnTrack(r, t) = OnTrack(v, t) /\ Begun(r, t) = Begun(v, t)
             /\ OnList(r, t) = OnList(v, t)
  BY <1>6 DEF OnTrack, Begun, OnList
<1>8. \A t \in Tracks : TimersSet(r, t) = TimersSet(v, t)
  <2> SUFFICES ASSUME NEW t \in Tracks PROVE TimersSet(r, t) = TimersSet(v, t)
    OBVIOUS
  <2>1. \A i \in HostTimers : r.due[t][i] = None <=> v.due[t][i] = None
    BY <1>4, <1>6
  <2> QED
    BY <2>1 DEF TimersSet
<1>9. LinksOK(r)
  BY <1>1, <1>6, SameLists
<1>10. TimersOK(r, "none")
  <2> SUFFICES ASSUME NEW t \in Tracks
               PROVE  /\ r.pending[t] = Cardinality(OnTrack(r, t))
                      /\ r.handle[t] # NoTimer => r.due[t][r.handle[t]] # None
                      /\ \A i \in TimersSet(r, t) : r.due[t][i] <= Period[t]
                      /\ Cardinality(TimersSet(r, t)) + (IF "none" = t THEN 1 ELSE 0)
                           <= Cardinality(Begun(r, t))
    BY DEF TimersOK
  <2>1. /\ v.pending[t] = Cardinality(OnTrack(v, t))
        /\ v.handle[t] # NoTimer => v.due[t][v.handle[t]] # None
        /\ \A i \in TimersSet(v, t) : v.due[t][i] <= Period[t]
        /\ Cardinality(TimersSet(v, t)) + (IF "none" = t THEN 1 ELSE 0) <= Cardinality(Begun(v, t))
    BY <1>1 DEF TimersOK
  <2>2. r.handle[t] # NoTimer => r.due[t][r.handle[t]] # None
    <3>1. v.handle[t] # NoTimer => v.handle[t] \in HostTimers
      BY <1>1, WheelFields
    <3> QED
      BY <1>4, <1>6, <2>1, <3>1
  <2>3. \A i \in TimersSet(r, t) : r.due[t][i] <= Period[t]
    <3> SUFFICES ASSUME NEW i \in TimersSet(r, t) PROVE r.due[t][i] <= Period[t]
      OBVIOUS
    <3>1. i \in TimersSet(v, t) /\ i \in HostTimers /\ v.due[t][i] # None
      BY <1>8 DEF TimersSet
    <3>2. PICK a, p \in Int : a = v.due[t][i] /\ p = Period[t]
      BY <1>4, <3>1, WheelNumbers
    <3>3. r.due[t][i] = a - 1 /\ a <= p
      BY <1>4, <1>6, <2>1, <3>1, <3>2
    <3> QED
      BY <3>2, <3>3
  <2> QED
    BY <1>6, <1>7, <1>8, <2>1, <2>2, <2>3
<1>11. LateOK(r, "none", {})
  <2>1. ASSUME NEW t \in Tracks, NEW y \in OnTrack(r, t)
        PROVE  LateAt(r, "none", {}, t, y)
    <3>1. y \in OnTrack(v, t) /\ y \in Entries /\ v.status[y] = "pending"
      BY <1>7 DEF OnTrack
    <3>2. LateAt(v, "none", R, t, y)
      BY <1>1, <3>1, LateOKAt
    <3>3. PICK j \in TimersSet(v, t) :
            v.left[y] > v.due[t][j] + Lag - Slack(t, TicksTo(v, v.slot[y]) - 1)
      BY <1>0, <3>2 DEF LateAt
    <3>4. TicksTo(r, r.slot[y]) = TicksTo(v, v.slot[y])
      BY <1>6 DEF TicksTo
    <3>5. PICK c \in Int : c = TicksTo(v, v.slot[y])
      <4>1. v.slot[y] \in Lists /\ v.tick \in 0..Slots - 1
        BY <1>1, <3>1, WheelFields
      <4> QED
        BY <4>1, TicksToTurn
    <3>6. j \in HostTimers /\ v.due[t][j] # None
      BY <3>3 DEF TimersSet
    <3>7. PICK a, b, g, m \in Int : /\ a = v.left[y] /\ b = Slack(t, c - 1) /\ g = Lag
                                    /\ m = v.due[t][j]
      <4>1. c - 1 \in Int
        BY <3>5
      <4>2. Slack(t, c - 1) \in Int
        BY <4>1, SlackNumbers
      <4>3. v.left[y] \in Int /\ v.due[t][j] \in Int
        BY <1>1, <1>4, <3>1, <3>6, WheelFields
      <4> QED
        BY <4>2, <4>3, WheelNumbers
    <3>8. r.due[t][j] = m - 1
      BY <1>4, <1>6, <3>6, <3>7
    <3>9. r.left[y] \in Int /\ r.left[y] >= a - 1
      <4>1. r.left[y] = a - 1 \/ r.left[y] = a
        BY <1>2, <1>6, <3>1, <3>7
      <4> QED
        BY <4>1
    <3>10. a > m + g - b
      BY <3>3, <3>5, <3>7
    <3>11. r.left[y] > (m - 1) + g - b
      <4>1. PICK z \in Int : z = r.left[y]
        BY <3>9
      <4> QED
        BY <3>9, <3>10, <4>1
    <3>12. r.left[y] > r.due[t][j] + Lag - Slack(t, TicksTo(r, r.slot[y]) - 1)
      BY <3>4, <3>5, <3>7, <3>8, <3>11
    <3>13. j \in TimersSet(r, t)
      BY <1>8, <3>3
    <3> QED
      BY <1>0, <3>12, <3>13 DEF LateAt
  <2> QED
    BY <2>1, LateOKAt
<1> QED
  BY <1>6, <1>9, <1>10, <1>11 DEF WheelOK, RestOK

-----------------------------------------------------------------------------
(* The specification.                                                        *)

LEMMA WheelInitially == WheelInit => WheelInv
<1> SUFFICES ASSUME WheelInit PROVE WheelInv
  OBVIOUS
<1>1. PICK v : v = w
  OBVIOUS
<1>2. /\ v = [head |-> [l \in Lists |-> None],
              next |-> [e \in Entries |-> None], prev |-> [e \in Entries |-> None],
              slot |-> [e \in Entries |-> Fine], status |-> [e \in Entries |-> "new"],
              left |-> [e \in Entries |-> 0], tick |-> 0,
              pending |-> [tr \in Tracks |-> 0], handle |-> [tr \in Tracks |-> NoTimer],
              due |-> [tr \in Tracks |-> [i \in HostTimers |-> None]]]
      /\ loop = NoLoop
  BY <1>1 DEF WheelInit
<1>3. v \in WheelType
  <2>1. None \in Later(Entries) /\ 0 \in 0..Cardinality(Entries) /\ Fine \in Lists /\ 0 \in 0..Slots - 1
        /\ None \in Later(-Lag..TickMs + FineTickMs)
    BY WheelNumbers, TracksOfLists DEF Later
  <2> QED
    BY <1>2, <2>1 DEF WheelType
<1>4. /\ \A l \in Lists : v.head[l] = None
      /\ \A y \in Entries : v.next[y] = None /\ v.prev[y] = None /\ v.status[y] = "new"
      /\ \A tr \in Tracks : v.pending[tr] = 0 /\ v.handle[tr] = NoTimer
                            /\ \A i \in HostTimers : v.due[tr][i] = None
  BY <1>2
<1>5. LinksOK(v)
  <2>1. \A S \in SUBSET {y \in Entries : v.status[y] = "pending"} :
          S # {} => \E y \in S : v.prev[y] \notin S
    BY <1>4
  <2> QED
    BY <1>4, <2>1, LinksFrom
<1>6. \A tr \in Tracks : OnTrack(v, tr) = {} /\ TimersSet(v, tr) = {} /\ Begun(v, tr) = {}
  BY <1>4 DEF OnTrack, TimersSet, Begun
<1>7. TimersOK(v, "none")
  <2> SUFFICES ASSUME NEW tr \in Tracks
               PROVE  /\ v.pending[tr] = Cardinality(OnTrack(v, tr))
                      /\ v.handle[tr] # NoTimer => v.due[tr][v.handle[tr]] # None
                      /\ \A i \in TimersSet(v, tr) : v.due[tr][i] <= Period[tr]
                      /\ Cardinality(TimersSet(v, tr)) + (IF "none" = tr THEN 1 ELSE 0)
                           <= Cardinality(Begun(v, tr))
    BY DEF TimersOK
  <2>1. Cardinality({}) = 0 /\ "none" # tr
    BY FS_EmptySet, WheelNumbers
  <2>2. v.pending[tr] = 0 /\ v.handle[tr] = NoTimer
    BY <1>4
  <2>3. OnTrack(v, tr) = {} /\ TimersSet(v, tr) = {} /\ Begun(v, tr) = {}
    BY <1>6
  <2>4. 0 + (IF "none" = tr THEN 1 ELSE 0) <= 0
    BY <2>1
  <2> QED
    BY <2>1, <2>2, <2>3, <2>4
<1>8. RestOK(v, "none", None, {})
  BY DEF RestOK
<1>9. LateOK(v, "none", {})
  BY <1>6, LateOKAt
<1>10. WheelOK(v, "none", None, {}) /\ {} \in SUBSET Entries
  BY <1>3, <1>5, <1>7, <1>8, <1>9 DEF WheelOK
<1>11. loop \in [track : Tracks \cup {"none"}, entry : Later(Entries)]
       /\ loop.track = "none" /\ loop.entry = None
  BY <1>2 DEF NoLoop, Later
<1> QED
  BY <1>1, <1>10, <1>11 DEF WheelInv

\* Outside of a tick, and in one.
LEMMA NoLoopMeans ==
  ASSUME loop \in [track : Tracks \cup {"none"}, entry : Later(Entries)],
         NEW R, WheelOK(w, loop.track, loop.entry, R)
  PROVE  loop = NoLoop <=> loop.track = "none"
<1>1. PICK t, x : t = loop.track /\ x = loop.entry /\ loop = [track |-> t, entry |-> x]
  OBVIOUS
<1>2. ASSUME t = "none" PROVE x = None
  <2>1. RestOK(w, t, x, R)
    BY <1>1 DEF WheelOK
  <2> QED
    BY <1>2, <2>1 DEF RestOK
<1> QED
  BY <1>1, <1>2 DEF NoLoop

LEMMA WheelStep ==
  ASSUME WheelInv, [WheelNext]_wheelVars
  PROVE  WheelInv'
<1>1. CASE disturbed
  <2>1. disturbed'
    BY <1>1 DEF WheelNext, wheelVars, UserCalls, Round, EndTick, Advance, BeginTick
  <2> QED
    BY <2>1 DEF WheelInv
<1>2. CASE ~disturbed
  <2>1. /\ loop \in [track : Tracks \cup {"none"}, entry : Later(Entries)]
        /\ \E R \in SUBSET Entries : WheelOK(w, loop.track, loop.entry, R)
    BY <1>2 DEF WheelInv
  <2>2. PICK v, u, t, x, t2, x2 :
          /\ v = w /\ u = w' /\ t = loop.track /\ x = loop.entry
          /\ t2 = loop'.track /\ x2 = loop'.entry
    OBVIOUS
  <2>3. PICK R \in SUBSET Entries : WheelOK(v, t, x, R)
    BY <2>1, <2>2
  <2>4. /\ t \in Tracks \cup {"none"} /\ x \in Later(Entries) /\ loop = [track |-> t, entry |-> x]
    BY <2>1, <2>2
  <2>5. loop = NoLoop <=> t = "none"
    BY <2>1, <2>2, <2>3, NoLoopMeans
  <2>6. ASSUME loop = NoLoop PROVE t = "none" /\ x = None
    BY <2>2, <2>6 DEF NoLoop
  <2>7. SUFFICES ASSUME ~disturbed'
                 PROVE  /\ loop' \in [track : Tracks \cup {"none"}, entry : Later(Entries)]
                        /\ \E Q \in SUBSET Entries : WheelOK(u, t2, x2, Q)
    BY <2>2 DEF WheelInv
  <2>8. CASE UNCHANGED wheelVars
    BY <2>1, <2>2, <2>3, <2>8 DEF wheelVars
  <2>9. CASE UserCalls
    <3>1. loop = NoLoop /\ u \in WheelCalls(v) /\ loop' = loop
      BY <2>2, <2>9 DEF UserCalls
    <3>2. t = "none" /\ x = None /\ t2 = t /\ x2 = x
      BY <2>2, <2>6, <3>1
    <3>3. \E Q \in SUBSET Entries : WheelOK(u, t, x, Q)
      BY <2>3, <3>1, <3>2, WheelCallsKeep
    <3> QED
      BY <2>1, <3>1, <3>2, <3>3
  <2>10. CASE Round
    <3>1. /\ loop # NoLoop /\ x # None /\ loop' = [loop EXCEPT !.entry = v.next[x]]
          /\ \/ v.left[x] > 0 /\ u = v
             \/ v.left[x] <= 0 /\ v.status[x] # "pending"
             \/ /\ v.left[x] <= 0 /\ v.status[x] = "pending"
                /\ u \in WheelCalls(Off(v, x, "fired"))
                /\ disturbed' = (disturbed \/ (v.next[x] # None /\ u.status[v.next[x]] = "cancelled"))
      BY <2>2, <2>10 DEF Round
    <3>2. t \in Tracks /\ x \in Entries
      BY <2>4, <2>5, <3>1 DEF Later
    <3>3. PICK n \in Later(Entries) : n = v.next[x]
      BY <2>3, <3>2, WheelFields DEF WheelOK
    <3>4. t2 = t /\ x2 = n /\ loop' \in [track : Tracks \cup {"none"}, entry : Later(Entries)]
      BY <2>2, <2>4, <3>1, <3>3
    <3>5. v.status[x] = "pending"
      <4>1. x \in R /\ t # "none"
        BY <2>3, <3>1, <3>2, WheelNumbers DEF WheelOK, RestOK
      <4> QED
        BY <2>3, <4>1 DEF WheelOK, RestOK, OnList
    <3>6. CASE v.left[x] > 0 /\ u = v
      <4>1. WheelOK(v, t, v.next[x], R \ {x})
        BY <2>3, <3>2, <3>6, StepOver
      <4>2. PICK Q \in SUBSET Entries : Q = R \ {x}
        OBVIOUS
      <4>3. WheelOK(u, t2, x2, Q)
        BY <3>3, <3>4, <3>6, <4>1, <4>2
      <4> QED
        BY <3>4, <4>3
    <3>7. CASE /\ u \in WheelCalls(Off(v, x, "fired"))
               /\ disturbed' = (disturbed \/ (v.next[x] # None /\ u.status[v.next[x]] = "cancelled"))
      <4>1. PICK q : q = Off(v, x, "fired")
        OBVIOUS
      <4>2. PICK Q \in SUBSET Entries : Q = R \ {x}
        OBVIOUS
      <4>3. WheelOK(q, t, n, Q)
        <5>1. "fired" \in {"fired", "cancelled"}
          OBVIOUS
        <5>2. WheelOK(q, t, IF x = x THEN v.next[x] ELSE x, R \ {x})
          BY <2>3, <3>2, <3>5, <4>1, <5>1, OffKeeps, Zenon
        <5> QED
          BY <3>3, <4>2, <5>2
      <4>4. ~(n # None /\ u.status[n] = "cancelled")
        BY <2>7, <3>3, <3>7
      <4>5. u \in WheelCalls(q)
        BY <3>7, <4>1
      <4>6. \E S \in SUBSET Entries : WheelOK(u, t, n, S)
        BY <4>3, <4>4, <4>5, WheelCallsKeep
      <4> QED
        BY <3>4, <4>6
    <3> QED
      BY <3>1, <3>5, <3>6, <3>7
  <2>11. CASE EndTick
    <3>1. /\ loop # NoLoop /\ x = None /\ loop' = NoLoop
          /\ u = IF v.pending[t] > 0 THEN SetTimer(v, t) ELSE v
      BY <2>2, <2>11 DEF EndTick
    <3>2. t \in Tracks
      BY <2>4, <2>5, <3>1
    <3>3. WheelOK(u, "none", None, {})
      BY <2>3, <3>1, <3>2, EndTickKeeps
    <3>4. t2 = "none" /\ x2 = None /\ loop' \in [track : Tracks \cup {"none"}, entry : Later(Entries)]
      BY <2>2, <3>1 DEF NoLoop, Later
    <3>5. {} \in SUBSET Entries
      OBVIOUS
    <3> QED
      BY <3>3, <3>4, <3>5
  <2>12. CASE Advance
    <3>1. /\ loop = NoLoop /\ loop' = loop
          /\ \A tr \in Tracks, i \in HostTimers : v.due[tr][i] # None => v.due[tr][i] > -Lag
          /\ u = [v EXCEPT
               !.left = [e \in Entries |-> IF v.status[e] # "pending" THEN 0
                                           ELSE IF v.left[e] > -Forever THEN v.left[e] - 1 ELSE v.left[e]],
               !.due = [tr \in Tracks |-> [i \in HostTimers |->
                          IF v.due[tr][i] = None THEN None ELSE v.due[tr][i] - 1]]]
      BY <2>2, <2>12 DEF Advance
    <3>2. t = "none" /\ x = None /\ t2 = t /\ x2 = x
      BY <2>2, <2>6, <3>1
    <3>3. WheelOK(u, "none", None, {})
      BY <2>3, <3>1, <3>2, AdvanceKeeps
    <3>4. {} \in SUBSET Entries
      OBVIOUS
    <3> QED
      BY <2>1, <3>1, <3>2, <3>3, <3>4
  <2>13. ASSUME NEW tr \in Tracks, NEW i \in HostTimers, BeginTick(tr, i)
         PROVE  /\ loop' \in [track : Tracks \cup {"none"}, entry : Later(Entries)]
                /\ \E Q \in SUBSET Entries : WheelOK(u, t2, x2, Q)
    <3>1. /\ loop = NoLoop /\ v.due[tr][i] # None
          /\ u = Turned(v, tr, i)
          /\ loop' = [track |-> tr, entry |-> v.head[IF tr = "wheel" THEN u.tick ELSE Fine]]
      BY <2>2, <2>13 DEF BeginTick, Turned
    <3>2. t = "none" /\ x = None
      BY <2>6, <3>1
    <3>3. PICK l : l = IF tr = "wheel" THEN u.tick ELSE Fine
      OBVIOUS
    <3>4. WheelOK(v, "none", None, R)
      BY <2>3, <3>2
    <3>5. WheelOK(u, tr, v.head[l], OnList(u, l))
      BY <3>1, <3>3, <3>4, BeginTickKeeps
    <3>6. v.head[l] \in Later(Entries)
      <4>1. u \in WheelType /\ v \in WheelType
        BY <3>4, <3>5 DEF WheelOK
      <4>2. l \in Lists
        BY <3>3, <4>1, WheelFields, TracksOfLists
      <4> QED
        BY <4>1, <4>2, WheelFields
    <3>7. t2 = tr /\ x2 = v.head[l] /\ loop' \in [track : Tracks \cup {"none"}, entry : Later(Entries)]
      BY <2>2, <3>1, <3>3, <3>6
    <3>8. PICK Q \in SUBSET Entries : Q = OnList(u, l)
      BY DEF OnList
    <3>9. WheelOK(u, t2, x2, Q)
      BY <3>5, <3>7, <3>8
    <3> QED
      BY <3>7, <3>9
  <2> QED
    BY <2>8, <2>9, <2>10, <2>11, <2>12, <2>13 DEF WheelNext
<1> QED
  BY <1>1, <1>2

LEMMA WheelInvKept == WheelSpec => []WheelInv
<1>1. WheelInit => WheelInv
  BY WheelInitially
<1>2. WheelInv /\ [WheelNext]_wheelVars => WheelInv'
  BY WheelStep
<1> QED
  BY <1>1, <1>2, PTL DEF WheelSpec

LEMMA WheelLosesNothing == WheelInv => NothingLost
<1> SUFFICES ASSUME WheelInv, ~disturbed PROVE w \in WheelType /\ TicksCome /\ ListsIntact
  BY DEF NothingLost
<1>1. PICK v, t, x : v = w /\ t = loop.track /\ x = loop.entry
  OBVIOUS
<1>2. PICK R \in SUBSET Entries : WheelOK(v, t, x, R)
  BY <1>1 DEF WheelInv
<1>3. /\ v \in WheelType /\ LinksOK(v) /\ TimersOK(v, t) /\ LateOK(v, t, R)
  BY <1>2 DEF WheelOK
<1>4. \A tr \in Tracks : Pending(tr) = OnTrack(v, tr)
  BY <1>1 DEF Pending, OnTrack
<1>5. TicksCome
  <2> SUFFICES ASSUME NEW tr \in Tracks
               PROVE  /\ w.pending[tr] = Cardinality(Pending(tr))
                      /\ Pending(tr) # {} => loop.track = tr \/ \E i \in HostTimers : w.due[tr][i] # None
    BY DEF TicksCome
  <2>1. w.pending[tr] = Cardinality(Pending(tr))
    BY <1>1, <1>3, <1>4 DEF TimersOK
  <2>2. ASSUME Pending(tr) # {}, loop.track # tr
        PROVE  \E i \in HostTimers : w.due[tr][i] # None
    <3>1. PICK y : y \in OnTrack(v, tr)
      BY <1>4, <2>2
    <3>2. LateAt(v, t, R, tr, y)
      BY <1>3, <3>1, LateOKAt
    <3>3. \E i \in TimersSet(v, tr) : TRUE
      BY <1>1, <2>2, <3>2 DEF LateAt
    <3> QED
      BY <1>1, <3>3 DEF TimersSet
  <2> QED
    BY <2>1, <2>2
<1>6. ListsIntact
  <2>1. \A l \in Lists : Found(v, l) = {e \in Entries : v.status[e] = "pending" /\ v.slot[e] = l}
    BY <1>3, FoundIsTheList DEF OnList
  <2>2. \A e \in Entries : v.status[e] = "pending" =>
          IF v.prev[e] = None THEN v.head[v.slot[e]] = e ELSE v.next[v.prev[e]] = e
    BY <1>3, Neighbours
  <2> QED
    BY <1>1, <2>1, <2>2 DEF ListsIntact
<1> QED
  BY <1>1, <1>3, <1>5, <1>6

LEMMA WheelIsNotLate == WheelInv => AtMostARotationLate
<1> SUFFICES ASSUME WheelInv, ~disturbed, NEW e \in Entries, w.status[e] = "pending"
             PROVE  w.left[e] > -Rotation[TrackOf(w.slot[e])]
  BY DEF AtMostARotationLate
<1>1. PICK v, t, x : v = w /\ t = loop.track /\ x = loop.entry
  OBVIOUS
<1>2. PICK R \in SUBSET Entries : WheelOK(v, t, x, R)
  BY <1>1 DEF WheelInv
<1>3. v \in WheelType /\ LateOK(v, t, R)
  BY <1>2 DEF WheelOK
<1>4. PICK l \in Lists : l = v.slot[e]
  BY <1>3, WheelFields
<1>5. PICK tr \in Tracks : tr = TrackOf(l)
  BY TracksOfLists
<1>6. LateAt(v, t, R, tr, e)
  <2>1. e \in OnTrack(v, tr)
    BY <1>1, <1>4, <1>5 DEF OnTrack
  <2> QED
    BY <1>3, <2>1, LateOKAt
<1>7. PICK c \in Int : c = TicksTo(v, l) /\ c >= 1
  <2>1. v.tick \in 0..Slots - 1
    BY <1>3, WheelFields
  <2>2. TicksTo(v, l) \in Nat \ {0}
    BY <2>1, TicksToTurn
  <2>3. TicksTo(v, l) \in Int /\ TicksTo(v, l) >= 1
    BY <2>2
  <2> QED
    BY <2>3, Zenon
<1>8. PICK f, m \in Int : f = v.left[e] /\ m = Rotation[tr]
  <2>1. v.left[e] \in Int
    BY <1>3, WheelFields
  <2>2. Rotation[tr] \in Int
    <3>1. 0 \in Int
      OBVIOUS
    <3>2. Slack(tr, 0) \in Int /\ Slack(tr, 0) = Rotation[tr]
      BY <3>1, SlackNumbers
    <3> QED
      BY <3>2
  <2> QED
    BY <2>1, <2>2
<1>9. \A d \in Int : d >= 0 => Slack(tr, d) \in Int /\ Slack(tr, d) <= m
  BY <1>8, SlackNumbers
<1>10. CASE t = tr
  <2>1. PICK d \in Int : d = (IF e \in R THEN 0 ELSE TicksTo(v, v.slot[e])) /\ d >= 0
    BY <1>4, <1>7
  <2>2. f > -Slack(tr, d)
    BY <1>6, <1>8, <1>10, <2>1 DEF LateAt
  <2>3. PICK b \in Int : b = Slack(tr, d) /\ b <= m
    BY <1>9, <2>1
  <2>4. f > -m
    BY <2>2, <2>3
  <2> QED
    BY <1>1, <1>4, <1>5, <1>8, <2>4
<1>11. CASE t # tr
  <2>1. PICK j \in TimersSet(v, tr) : f > v.due[tr][j] + Lag - Slack(tr, TicksTo(v, v.slot[e]) - 1)
    BY <1>6, <1>8, <1>11 DEF LateAt
  <2>2. PICK g, k \in Int : g = Lag /\ k = v.due[tr][j] /\ k >= -g
    <3>1. v.due[tr][j] \in Later(-Lag..TickMs + FineTickMs) /\ v.due[tr][j] # None
      BY <1>3, <2>1, WheelFields DEF TimersSet
    <3>2. v.due[tr][j] \in Int /\ v.due[tr][j] >= -Lag
      BY <3>1, WheelNumbers DEF Later
    <3> QED
      BY <3>2, WheelNumbers
  <2>3. PICK b \in Int : b = Slack(tr, c - 1) /\ b <= m
    <3>1. c - 1 \in Int /\ c - 1 >= 0
      BY <1>7
    <3> QED
      BY <1>9, <3>1
  <2>4. f > k + g - b
    BY <1>4, <1>7, <2>1, <2>2, <2>3
  <2>5. f > -m
    BY <2>2, <2>3, <2>4
  <2> QED
    BY <1>1, <1>4, <1>5, <1>8, <2>5
<1> QED
  BY <1>10, <1>11

\* No timeout is lost: what is pending is counted, linked and visited, whatever is scheduled,
\* cancelled and destroyed in and out of the ticks, for any numbers of slots and entries.
THEOREM NothingLostTheorem == WheelSpec => []NothingLost
<1> QED
  BY WheelInvKept, WheelLosesNothing, PTL

\* A timeout is less than one rotation of its track late, for any numbers of slots and entries,
\* any periods and any lag of the host.
THEOREM AtMostARotationLateTheorem == WheelSpec => []AtMostARotationLate
<1> QED
  BY WheelInvKept, WheelIsNotLate, PTL
=============================================================================
