-------------------------- MODULE LifecycleProofs --------------------------
(***************************************************************************)
(* Machine-checked proofs about Lifecycle and PriorityScheduler, for every *)
(* number of requests, keys and slots, every batch size and number of      *)
(* retries: slots are exact, urgency decides, and requests that share a    *)
(* call share it exactly.                                                  *)
(***************************************************************************)
EXTENDS Lifecycle, QueueLemmas

-----------------------------------------------------------------------------
(* Least and greatest elements *)

\* A newcomer's place exceeds those in the queue, if some number does.
LEMMA ArrivalIsLast ==
  ASSUME NEW q, q \subseteq Entry, NEW n \in Nat, \A e \in q : e.arrivalOrder < n
  PROVE  Arrival(q) \in Nat /\ \A e \in q : e.arrivalOrder < Arrival(q)
<1> DEFINE S == {0} \cup {e.arrivalOrder + 1 : e \in q}
           T == {m \in Nat : \A x \in S : x <= m}
<1>1. \A e \in q : e.arrivalOrder \in Nat
  BY DEF Entry
<1>2. S \subseteq Nat /\ 0 \in S /\ n \in T /\ T \subseteq Nat
  BY <1>1
<1>3. \A e \in q : e.arrivalOrder + 1 \in S
  OBVIOUS
<1>4. Arrival(q) = Max(S)
  BY DEF Arrival
<1> HIDE DEF S, T
<1>5. PICK m \in T : \A y \in T : m <= y
  BY <1>2, LeastNumber
<1>6. m \in S
  <2> SUFFICES ASSUME m \notin S PROVE FALSE
    OBVIOUS
  <2>1. m \in Nat /\ \A x \in S : x <= m
    BY <1>5 DEF T
  <2>2. m - 1 \in T
    BY <1>2, <2>1 DEF T
  <2> QED
    BY <1>5, <2>1, <2>2
<1>7. Max(S) \in S /\ \A x \in S : x <= Max(S)
  BY <1>2, <1>5, <1>6 DEF Max, T
<1>8. \A e \in q : e.arrivalOrder + 1 <= Max(S) /\ Max(S) \in Nat
  BY <1>2, <1>3, <1>7
<1>9. Max(S) \in Nat
  BY <1>2, <1>7
<1> QED
  BY <1>1, <1>4, <1>8, <1>9

OrderDistinct(q) == \A e, f \in q : e.arrivalOrder = f.arrivalOrder => e = f

LEMMA DequeuedIsFirst ==
  ASSUME NEW q, q \subseteq Entry, q # {}, OrderDistinct(q)
  PROVE  IsFirst(q, Dequeued(q))
<1> DEFINE P == {e.priority : e \in q}
<1>1. \A e \in q : e.priority \in Nat /\ e.arrivalOrder \in Nat
  BY DEF Entry
<1>2. PICK p \in P : \A y \in P : p <= y
  <2>1. P \subseteq Nat /\ P # {}
    BY <1>1
  <2> QED
    BY <2>1, LeastNumber
<1> DEFINE U == {e \in q : e.priority = p}
           A == {e.arrivalOrder : e \in U}
<1>3. PICK a \in A : \A y \in A : a <= y
  <2>1. A \subseteq Nat /\ A # {}
    BY <1>1, <1>2
  <2> QED
    BY <2>1, LeastNumber
<1>4. PICK e \in U : e.arrivalOrder = a
  BY <1>3
<1>5. ASSUME NEW f \in q \ {e} PROVE Before(e, f)
  <2>1. p <= f.priority /\ p \in Nat /\ f.priority \in Nat /\ a \in Nat
    BY <1>1, <1>2, <1>4
  <2>2. CASE f.priority = p
    <3>1. a <= f.arrivalOrder /\ f.arrivalOrder # a
      BY <1>3, <1>4, <2>2 DEF OrderDistinct
    <3> QED
      BY <1>1, <1>4, <2>2, <3>1 DEF Before
  <2> QED
    BY <1>4, <2>1, <2>2 DEF Before
<1>6. IsFirst(q, e)
  BY <1>4, <1>5 DEF IsFirst
<1> QED
  BY <1>6 DEF Dequeued, IsFirst

-----------------------------------------------------------------------------
(* The scheduler, operation by operation *)

Places(s) == QueuedJobs(s) \cup s.wire

\* A job is queued once or on the wire, and places in the queue are distinct.
SchedInv(s) ==
  /\ s \in Schedulers /\ IsFiniteSet(s.wire)
  /\ \E n \in Nat : \A e \in s.queue : e.arrivalOrder < n
  /\ OrderDistinct(s.queue)
  /\ \A e, f \in s.queue : e.job = f.job => e = f
  /\ QueuedJobs(s) \cap s.wire = {}
  /\ QueuedJobs(s) \subseteq s.heard
  /\ SlotsExactIn(s)

\* A call that reaches the wire comes before all that stay in the queue.
Urgent(s, t) ==
  \A j \in Jobs : j \in t.wire /\ j \notin s.wire =>
    \A f \in t.queue : \E e \in s.queue : e.job = j /\ Before(e, f)

LEMMA IdleInv == SchedInv(Idle) /\ Places(Idle) = {}
BY FS_EmptySet, ConcurrencyAssumption
   DEF Idle, SchedInv, Places, Schedulers, OrderDistinct, QueuedJobs, SlotsExactIn

LEMMA DispatchFields ==
  ASSUME NEW s \in Schedulers, NEW j \in Jobs
  PROVE  /\ Dispatch(s, j) \in Schedulers
         /\ Dispatch(s, j).inFlight = s.inFlight + 1
         /\ Dispatch(s, j).wire = s.wire \cup {j}
         /\ Dispatch(s, j).queue = s.queue /\ Dispatch(s, j).heard = s.heard
<1>1. s.inFlight + 1 \in Int /\ s.wire \cup {j} \in SUBSET Jobs
  BY DEF Schedulers
<1>2. [s EXCEPT !.inFlight = s.inFlight + 1] \in Schedulers
  BY <1>1 DEF Schedulers
<1>3. \A t \in Schedulers : [t EXCEPT !.wire = s.wire \cup {j}] \in Schedulers
  BY <1>1 DEF Schedulers
<1>4. Dispatch(s, j) \in Schedulers
  BY <1>2, <1>3 DEF Dispatch
<1>5. /\ Dispatch(s, j).inFlight = s.inFlight + 1
      /\ Dispatch(s, j).wire = s.wire \cup {j}
      /\ Dispatch(s, j).queue = s.queue /\ Dispatch(s, j).heard = s.heard
  BY DEF Dispatch, Schedulers
<1> QED
  BY <1>4, <1>5

LEMMA RegisterInv ==
  ASSUME NEW s, SchedInv(s), NEW j \in Jobs, j \notin Places(s), NEW p \in Nat
  PROVE  /\ SchedInv(Register(s, j, p))
         /\ Places(Register(s, j, p)) = Places(s) \cup {j}
         /\ QueuedJobs(Register(s, j, p)) \subseteq QueuedJobs(s) \cup {j}
         /\ Urgent(s, Register(s, j, p))
<1> DEFINE t == Register(s, j, p)
<1>0. s \in Schedulers /\ s.inFlight \in Int
  BY DEF SchedInv, Schedulers
<1>1. CASE s.inFlight < Concurrency
  <2>1. t = Dispatch(s, j)
    BY <1>1 DEF Register
  <2> HIDE DEF t
  <2>6. /\ t \in Schedulers /\ t.inFlight = s.inFlight + 1
        /\ t.wire = s.wire \cup {j} /\ t.queue = s.queue /\ t.heard = s.heard
    BY <1>0, <2>1, DispatchFields
  <2>2. s.queue = {}
    BY <1>1, ConcurrencyAssumption DEF SchedInv, SlotsExactIn
  <2>3. /\ IsFiniteSet(t.wire) /\ Cardinality(t.wire) = Cardinality(s.wire) + 1
    <3>1. IsFiniteSet(s.wire) /\ j \notin s.wire
      BY DEF SchedInv, Places
    <3>2. IsFiniteSet(s.wire \cup {j}) /\ Cardinality(s.wire \cup {j}) = Cardinality(s.wire) + 1
      BY <3>1, FS_AddElement
    <3> QED
      BY <2>6, <3>2
  <2>4. t.inFlight <= Concurrency /\ t.inFlight = Cardinality(t.wire)
    BY <1>0, <1>1, <2>6, <2>3, ConcurrencyAssumption DEF SchedInv, SlotsExactIn
  <2>5. SchedInv(t)
    BY <2>6, <2>2, <2>3, <2>4 DEF SchedInv, OrderDistinct, QueuedJobs, SlotsExactIn
  <2> QED
    BY <2>6, <2>2, <2>5 DEF t, Places, QueuedJobs, Urgent
<1>2. CASE ~(s.inFlight < Concurrency)
  <2> DEFINE a == Arrival(s.queue)
             e == [job |-> j, priority |-> p, arrivalOrder |-> a]
  <2>0. PICK n \in Nat : \A x \in s.queue : x.arrivalOrder < n
    BY DEF SchedInv
  <2>1. a \in Nat /\ \A x \in s.queue : x.arrivalOrder < a
    BY <1>0, <2>0, ArrivalIsLast DEF Schedulers
  <2>2. e \in Entry /\ e.job = j /\ e.arrivalOrder = a
    BY <2>1 DEF Entry
  <2>3. /\ t \in Schedulers /\ t.inFlight = s.inFlight /\ t.wire = s.wire
        /\ t.queue = s.queue \cup {e} /\ t.heard = s.heard \cup {j}
    BY <1>0, <1>2, <2>2 DEF Register, Enqueue, Schedulers
  <2>4. \A x \in s.queue : x.job \in QueuedJobs(s) /\ x.job # j /\ x.arrivalOrder # a /\ x.arrivalOrder \in Nat
    BY <1>0, <2>1 DEF Places, QueuedJobs, Schedulers, Entry
  <2> HIDE DEF e, a, t
  <2>5. \A x \in t.queue : x.arrivalOrder < a + 1
    BY <2>1, <2>2, <2>3, <2>4
  <2>6. QueuedJobs(t) = QueuedJobs(s) \cup {j}
    BY <2>2, <2>3 DEF QueuedJobs
  <2>7. OrderDistinct(t.queue) /\ \A x, y \in t.queue : x.job = y.job => x = y
    BY <2>2, <2>3, <2>4 DEF OrderDistinct, SchedInv
  <2>8. SlotsExactIn(t)
    BY <1>0, <1>2, <2>3, ConcurrencyAssumption DEF SchedInv, SlotsExactIn
  <2>9. a + 1 \in Nat
    BY <2>1
  <2>10. SchedInv(t)
    BY <2>3, <2>5, <2>6, <2>7, <2>8, <2>9 DEF SchedInv, Places
  <2> QED
    BY <2>3, <2>6, <2>10 DEF t, Places, Urgent
<1> QED
  BY <1>1, <1>2
LEMMA DropInv ==
  ASSUME NEW s, SchedInv(s), NEW j
  PROVE  /\ SchedInv(Drop(s, j))
         /\ Places(Drop(s, j)) \subseteq Places(s)
         /\ QueuedJobs(Drop(s, j)) = QueuedJobs(s) \ {j} /\ Drop(s, j).wire = s.wire
         /\ Urgent(s, Drop(s, j))
<1> DEFINE t == Drop(s, j)
<1>0. s \in Schedulers
  BY DEF SchedInv
<1>1. t \in Schedulers /\ t.inFlight = s.inFlight /\ t.wire = s.wire /\ t.heard = s.heard
  BY <1>0 DEF Drop, Schedulers
<1>2. t.queue = {e \in s.queue : e.job # j}
  BY <1>0 DEF Drop, Schedulers
<1> HIDE DEF t
<1>3. SchedInv(t)
  BY <1>1, <1>2 DEF SchedInv, OrderDistinct, QueuedJobs, SlotsExactIn
<1>4. QueuedJobs(t) = QueuedJobs(s) \ {j}
  BY <1>2 DEF QueuedJobs
<1> QED
  BY <1>1, <1>3, <1>4 DEF t, Places, Urgent

\* Between the answer and the hand-over of the slot.
LEMMA OnCompleteInv ==
  ASSUME NEW s, SchedInv(s), NEW j \in s.wire
  PROVE  /\ SchedInv(OnComplete(s, j))
         /\ Places(OnComplete(s, j)) = Places(s) \ {j}
         /\ QueuedJobs(OnComplete(s, j)) \subseteq QueuedJobs(s)
         /\ Urgent(s, OnComplete(s, j))
<1> DEFINE u == [s EXCEPT !.inFlight = @ - 1, !.wire = @ \ {j}]
<1>0. s \in Schedulers /\ s.inFlight \in Int /\ j \in Jobs
  BY DEF SchedInv, Schedulers
<1>1. u \in Schedulers
  <2>1. s.inFlight - 1 \in Int /\ s.wire \ {j} \in SUBSET Jobs
    BY <1>0 DEF Schedulers
  <2>2. [s EXCEPT !.inFlight = s.inFlight - 1] \in Schedulers
    BY <1>0, <2>1 DEF Schedulers
  <2>3. \A t \in Schedulers : [t EXCEPT !.wire = s.wire \ {j}] \in Schedulers
    BY <2>1 DEF Schedulers
  <2> QED
    BY <2>2, <2>3
<1>2. /\ u.inFlight = s.inFlight - 1 /\ u.wire = s.wire \ {j}
      /\ u.queue = s.queue /\ u.heard = s.heard
  BY <1>0 DEF Schedulers
<1>3. OnComplete(s, j) = DrainNext(u)
  BY DEF OnComplete
<1> HIDE DEF u
<1>4. /\ IsFiniteSet(u.wire) /\ Cardinality(u.wire) = u.inFlight
      /\ u.inFlight + 1 <= Concurrency
      /\ s.queue # {} => u.inFlight + 1 = Concurrency
  <2>1. IsFiniteSet(s.wire) /\ Cardinality(s.wire) = s.inFlight
    BY DEF SchedInv, SlotsExactIn
  <2>2. IsFiniteSet(u.wire) /\ Cardinality(u.wire) = Cardinality(s.wire) - 1
    BY <1>2, <2>1, FS_RemoveElement
  <2> QED
    BY <1>0, <1>2, <2>1, <2>2, ConcurrencyAssumption DEF SchedInv, SlotsExactIn
<1>5. u.inFlight < Concurrency
  BY <1>1, <1>4, ConcurrencyAssumption DEF Schedulers
<1>6. CASE s.queue = {}
  <2>1. OnComplete(s, j) = u
    BY <1>2, <1>3, <1>6 DEF DrainNext
  <2>2. QueuedJobs(u) = {} /\ QueuedJobs(s) = {}
    BY <1>2, <1>6 DEF QueuedJobs
  <2>4. \A e \in u.queue : e.arrivalOrder < 0
    BY <1>2, <1>6
  <2>5. SlotsExactIn(u)
    BY <1>1, <1>2, <1>4, <1>5, <1>6, ConcurrencyAssumption DEF SlotsExactIn, Schedulers
  <2>3. SchedInv(u)
    BY <1>1, <1>2, <1>4, <1>6, <2>2, <2>4, <2>5 DEF SchedInv, OrderDistinct
  <2> QED
    BY <1>2, <1>6, <2>1, <2>2, <2>3 DEF Places, Urgent
<1>7. CASE s.queue # {}
  <2> DEFINE e == Dequeued(s.queue)
             v == [u EXCEPT !.queue = @ \ {e}]
             t == Dispatch(v, e.job)
  <2>1. s.queue \subseteq Entry /\ OrderDistinct(s.queue)
    BY <1>0 DEF SchedInv, Schedulers
  <2>2. e \in s.queue /\ \A f \in s.queue \ {e} : Before(e, f)
    BY <1>7, <2>1, DequeuedIsFirst DEF IsFirst
  <2>3. OnComplete(s, j) = t
    BY <1>2, <1>3, <1>5, <1>7 DEF DrainNext
  <2> HIDE DEF e
  <2>4. /\ v \in Schedulers /\ v.queue = s.queue \ {e} /\ v.inFlight = u.inFlight
        /\ v.wire = u.wire /\ v.heard = u.heard
    BY <1>1, <1>2 DEF Schedulers
  <2>5. e.job \in Jobs /\ e.job \in QueuedJobs(s)
    BY <2>1, <2>2 DEF Entry, QueuedJobs
  <2> HIDE DEF v
  <2>6. /\ t \in Schedulers /\ t.inFlight = u.inFlight + 1
        /\ t.wire = u.wire \cup {e.job} /\ t.queue = s.queue \ {e} /\ t.heard = s.heard
    BY <1>2, <2>4, <2>5, DispatchFields
  <2> HIDE DEF t
  <2>7. e.job \notin s.wire
    BY <2>5 DEF SchedInv
  <2>8. IsFiniteSet(t.wire) /\ Cardinality(t.wire) = Cardinality(u.wire) + 1
    <3>1. IsFiniteSet(u.wire) /\ e.job \notin u.wire
      BY <1>2, <1>4, <2>7
    <3>2. /\ IsFiniteSet(u.wire \cup {e.job})
          /\ Cardinality(u.wire \cup {e.job}) = Cardinality(u.wire) + 1
      BY <3>1, FS_AddElement
    <3> QED
      BY <2>6, <3>2
  <2>9. \A f \in s.queue : f.job = e.job => f = e
    BY <2>2 DEF SchedInv
  <2>10. QueuedJobs(t) = QueuedJobs(s) \ {e.job}
    BY <2>2, <2>6, <2>9 DEF QueuedJobs
  <2>11. SlotsExactIn(t)
    BY <1>1, <1>4, <1>7, <2>6, <2>8, ConcurrencyAssumption DEF SlotsExactIn, Schedulers
  <2>12. /\ \E n \in Nat : \A f \in t.queue : f.arrivalOrder < n
         /\ OrderDistinct(t.queue)
         /\ \A f, g \in t.queue : f.job = g.job => f = g
    BY <2>6 DEF SchedInv, OrderDistinct
  <2>13. SchedInv(t)
    BY <1>2, <2>6, <2>8, <2>10, <2>11, <2>12 DEF SchedInv
  <2>14. Urgent(s, t)
    BY <1>2, <2>2, <2>6 DEF Urgent
  <2>15. Places(t) = Places(s) \ {j}
    BY <1>2, <2>5, <2>6, <2>10 DEF Places, SchedInv
  <2> QED
    BY <2>3, <2>10, <2>13, <2>14, <2>15
<1> QED
  BY <1>6, <1>7

-----------------------------------------------------------------------------
(* The inductive invariant *)

\* Callers and the jobs they are attached to: a request waits exactly as long
\* as it is attached to one job, and jobs named by requests that have not come
\* have no callers.
CallersOK ==
  /\ pc \in [Requests -> {"idle", "waiting", "done"}]
  /\ inFlight \in [Keys -> Getters \cup {NoJob}]
  /\ group \in Posters \cup {NoJob}
  /\ waiters \in [Jobs -> Seq(Requests)]
  /\ \A j \in Jobs : IsInjective(waiters[j])
  /\ \A k \in Keys : Attached(k) = {}
  /\ \A r \in Requests : pc[r] = "idle" => Attached(r) = {}
  /\ \A i, j \in Jobs : i # j => Attached(i) \cap Attached(j) = {}
  /\ \A r \in Requests : pc[r] = "waiting" <=> \E j \in Jobs : r \in Attached(j)
  /\ \A k \in Keys : inFlight[k] # NoJob => pc[inFlight[k]] # "idle"
  /\ group # NoJob => pc[group] # "idle"

\* Where a job is: a job that has not begun is nowhere, one that sleeps has no
\* slot and does not queue, and a revalidation that is somewhere is live.
JobsOK ==
  /\ live \subseteq Jobs /\ sleeping \subseteq Jobs /\ attempt \in [Jobs -> Nat]
  /\ sleeping \cap Places(sched) = {}
  /\ \A k \in Keys : k \in Places(sched) \cup sleeping => k \in live
  /\ \A r \in Requests :
       pc[r] = "idle" \/ r = group => r \notin Places(sched) \cup sleeping

IInv == SchedInv(sched) /\ CallersOK /\ JobsOK
LEMMA AttachedIs ==
  \A j \in Jobs : Attached(j) = ToSet(waiters[j]) /\ Attached(j)' = ToSet(waiters'[j])
BY DEF Attached, Range, ToSet

LEMMA NoNodes == ASSUME NEW S, NEW q \in Seq(S), ToSet(q) = {} PROVE q = <<>>
<1>1. Len(q) \in Nat /\ (Len(q) > 0 => q[1] \in ToSet(q))
  BY DEF ToSet
<1> QED
  BY <1>1, EmptySeq

LEMMA NobodyAttached == ToSet(<<>>) = {} /\ IsInjective(<<>>)
BY DEF ToSet, IsInjective

LEMMA InitIInv == Init => IInv
<1> SUFFICES ASSUME Init PROVE IInv
  OBVIOUS
<1>1. SchedInv(sched) /\ Places(sched) = {}
  BY IdleInv DEF Init
<1>2. \A j \in Jobs : waiters[j] = <<>> /\ Attached(j) = {} /\ IsInjective(waiters[j])
  BY AttachedIs, NobodyAttached DEF Init
<1>3. waiters \in [Jobs -> Seq(Requests)]
  BY DEF Init
<1>4. CallersOK
  BY <1>2, <1>3, LifecycleAssumption DEF CallersOK, Init, Requests
<1>5. JobsOK
  BY <1>1, LifecycleAssumption DEF JobsOK, Init
<1> QED
  BY <1>1, <1>4, <1>5 DEF IInv

\* A request that has come is appended to the callers of a job.
LEMMA AppendCaller ==
  ASSUME CallersOK, NEW r \in Requests, pc[r] = "idle", NEW j \in Requests,
         pc[j] # "idle" \/ j = r,
         waiters' = [waiters EXCEPT ![j] = Append(@, r)], pc' = [pc EXCEPT ![r] = "waiting"],
         inFlight' \in [Keys -> Getters \cup {NoJob}], group' \in Posters \cup {NoJob},
         \A k \in Keys : inFlight'[k] \in {inFlight[k], NoJob, r}, group' \in {group, NoJob, r}
  PROVE  /\ CallersOK'
         /\ \A i \in Jobs : Attached(i)' = IF i = j THEN Attached(i) \cup {r} ELSE Attached(i)
<1>0. j \in Jobs /\ r \in Jobs /\ j \notin Keys /\ NoJob \notin Requests
  BY LifecycleAssumption
<1>12. \A q \in Requests : pc[q] = "waiting" <=> \E i \in Jobs : q \in Attached(i)
  BY DEF CallersOK
<1>5. \A i \in Jobs : r \notin Attached(i)
  BY <1>12
<1>1. waiters[j] \in Seq(Requests) /\ IsInjective(waiters[j]) /\ r \notin ToSet(waiters[j])
  <2>1. r \notin ToSet(waiters[j])
    BY <1>0, <1>5, AttachedIs
  <2> QED
    BY <1>0, <2>1 DEF CallersOK
<1>2. /\ Append(waiters[j], r) \in Seq(Requests) /\ IsInjective(Append(waiters[j], r))
      /\ ToSet(Append(waiters[j], r)) = ToSet(waiters[j]) \cup {r}
  BY <1>1, AppendNode
<1>3. waiters' \in [Jobs -> Seq(Requests)] /\ \A i \in Jobs : IsInjective(waiters'[i])
  BY <1>0, <1>2 DEF CallersOK
<1>4. \A i \in Jobs : Attached(i)' = IF i = j THEN Attached(i) \cup {r} ELSE Attached(i)
  <2>1. \A i \in Jobs : waiters'[i] = IF i = j THEN Append(waiters[j], r) ELSE waiters[i]
    BY <1>0 DEF CallersOK
  <2> QED
    BY <1>0, <1>2, <2>1, AttachedIs
<1>6. pc' \in [Requests -> {"idle", "waiting", "done"}]
      /\ \A q \in Requests : pc'[q] = IF q = r THEN "waiting" ELSE pc[q]
  BY DEF CallersOK
<1>7. \A k \in Keys : Attached(k)' = {}
  BY <1>0, <1>4, LifecycleAssumption DEF CallersOK
<1>8. \A q \in Requests : pc'[q] = "idle" => Attached(q)' = {}
  <2> SUFFICES ASSUME NEW q \in Requests, pc'[q] = "idle" PROVE Attached(q)' = {}
    OBVIOUS
  <2>1. q # j /\ pc[q] = "idle" /\ q \in Jobs
    BY <1>6, LifecycleAssumption
  <2>2. Attached(q) = {}
    BY <2>1 DEF CallersOK
  <2> QED
    BY <1>4, <2>1, <2>2
<1>9. \A i1, i2 \in Jobs : i1 # i2 => Attached(i1)' \cap Attached(i2)' = {}
  BY <1>4, <1>5 DEF CallersOK
<1>10. \A q \in Requests : pc'[q] = "waiting" <=> \E i \in Jobs : q \in Attached(i)'
  <2> SUFFICES ASSUME NEW q \in Requests
               PROVE  pc'[q] = "waiting" <=> \E i \in Jobs : q \in Attached(i)'
    OBVIOUS
  <2>1. CASE q = r
    BY <1>0, <1>4, <1>6, <2>1
  <2>2. CASE q # r
    <3>1. \A i \in Jobs : q \in Attached(i)' <=> q \in Attached(i)
      BY <1>4, <2>2
    <3> QED
      BY <1>12, <1>6, <2>2, <3>1
  <2> QED
    BY <2>1, <2>2
<1>11. /\ \A k \in Keys : inFlight'[k] # NoJob => pc'[inFlight'[k]] # "idle"
       /\ group' # NoJob => pc'[group'] # "idle"
  BY <1>0, <1>6 DEF CallersOK, Requests
<1>13. CallersOK'
  BY <1>3, <1>6, <1>7, <1>8, <1>9, <1>10, <1>11 DEF CallersOK
<1> QED
  BY <1>4, <1>13

\* The callers of a job are told and the job forgets them.
LEMMA TellCallers ==
  ASSUME CallersOK, NEW j \in Jobs, waiters' = [waiters EXCEPT ![j] = <<>>],
         pc' = [r \in Requests |-> IF r \in Attached(j) THEN "done" ELSE pc[r]],
         inFlight' \in [Keys -> Getters \cup {NoJob}],
         \A k \in Keys : inFlight'[k] \in {inFlight[k], NoJob}, group' = group
  PROVE  CallersOK' /\ \A i \in Jobs : Attached(i)' = IF i = j THEN {} ELSE Attached(i)
<1>1. waiters' \in [Jobs -> Seq(Requests)] /\ \A i \in Jobs : IsInjective(waiters'[i])
  BY NobodyAttached DEF CallersOK
<1>2. \A i \in Jobs : Attached(i)' = IF i = j THEN {} ELSE Attached(i)
  <2>1. \A i \in Jobs : waiters'[i] = IF i = j THEN <<>> ELSE waiters[i]
    BY DEF CallersOK
  <2> QED
    BY <2>1, AttachedIs, NobodyAttached
<1>3. Requests \subseteq Jobs /\ Keys \subseteq Jobs
  BY LifecycleAssumption
<1>4. /\ pc' \in [Requests -> {"idle", "waiting", "done"}]
      /\ \A q \in Requests : pc'[q] = IF q \in Attached(j) THEN "done" ELSE pc[q]
  BY DEF CallersOK
<1>5. \A q \in Requests : pc'[q] = "idle" => pc[q] = "idle" /\ Attached(q)' = {}
  <2> SUFFICES ASSUME NEW q \in Requests, pc'[q] = "idle"
               PROVE  pc[q] = "idle" /\ Attached(q)' = {}
    OBVIOUS
  <2>1. pc[q] = "idle" /\ q \in Jobs
    BY <1>3, <1>4
  <2>2. Attached(q) = {}
    BY <2>1 DEF CallersOK
  <2> QED
    BY <1>2, <2>1, <2>2
<1>6. \A i1, i2 \in Jobs : i1 # i2 => Attached(i1)' \cap Attached(i2)' = {}
  BY <1>2 DEF CallersOK
<1>7. \A q \in Requests : pc'[q] = "waiting" <=> \E i \in Jobs : q \in Attached(i)'
  <2> SUFFICES ASSUME NEW q \in Requests
               PROVE  pc'[q] = "waiting" <=> \E i \in Jobs : q \in Attached(i)'
    OBVIOUS
  <2>0. pc[q] = "waiting" <=> \E i \in Jobs : q \in Attached(i)
    BY DEF CallersOK
  <2>1. CASE q \in Attached(j)
    <3>1. \A i \in Jobs : i # j => q \notin Attached(i)
      BY <2>1 DEF CallersOK
    <3> QED
      BY <1>2, <1>4, <2>1, <3>1
  <2>2. CASE q \notin Attached(j)
    <3>1. \A i \in Jobs : q \in Attached(i)' <=> q \in Attached(i)
      BY <1>2, <2>2
    <3> QED
      BY <1>4, <2>0, <2>2, <3>1
  <2> QED
    BY <2>1, <2>2
<1>8. /\ \A k \in Keys : inFlight'[k] # NoJob => pc'[inFlight'[k]] # "idle"
      /\ group' # NoJob => pc'[group'] # "idle"
  BY <1>5 DEF CallersOK, Requests
<1>9. \A k \in Keys : Attached(k)' = {}
  BY <1>2, <1>3 DEF CallersOK
<1>10. CallersOK'
  BY <1>1, <1>4, <1>5, <1>6, <1>7, <1>8, <1>9 DEF CallersOK
<1> QED
  BY <1>2, <1>10

\* A caller leaves.
LEMMA DetachCaller ==
  ASSUME CallersOK, NEW r \in Requests, pc[r] = "waiting", Detach(r, JobOf(r)),
         inFlight' \in [Keys -> Getters \cup {NoJob}], group' \in {group, NoJob},
         \A k \in Keys : inFlight'[k] \in {inFlight[k], NoJob}
  PROVE  /\ CallersOK' /\ JobOf(r) \in Requests /\ r \in Attached(JobOf(r))
         /\ \A i \in Jobs : Attached(i)' = IF i = JobOf(r) THEN Attached(i) \ {r} ELSE Attached(i)
<1> DEFINE j == JobOf(r)
<1>1. j \in Jobs /\ r \in Attached(j)
  BY DEF CallersOK, JobOf
<1>2. j \notin Keys /\ j \in Requests /\ NoJob \notin Requests
  BY <1>1, LifecycleAssumption DEF CallersOK
<1>3. /\ waiters' = [waiters EXCEPT ![j] = RemoveFirst(@, r)]
      /\ pc' = [q \in Requests |-> IF q = r THEN "done" ELSE pc[q]]
  BY DEF Detach, Told
<1> HIDE DEF j
<1>4. /\ RemoveFirst(waiters[j], r) \in Seq(Requests)
      /\ ToSet(RemoveFirst(waiters[j], r)) = ToSet(waiters[j]) \ {r}
      /\ IsInjective(RemoveFirst(waiters[j], r))
  BY <1>1, RemoveFirstNode DEF CallersOK
<1>5. waiters' \in [Jobs -> Seq(Requests)] /\ \A i \in Jobs : IsInjective(waiters'[i])
  BY <1>1, <1>3, <1>4 DEF CallersOK
<1>6. \A i \in Jobs : Attached(i)' = IF i = j THEN Attached(i) \ {r} ELSE Attached(i)
  <2>1. \A i \in Jobs : waiters'[i] = IF i = j THEN RemoveFirst(waiters[j], r) ELSE waiters[i]
    BY <1>1, <1>3 DEF CallersOK
  <2> QED
    BY <1>1, <1>4, <2>1, AttachedIs
<1>7. \A i \in Jobs : i # j => r \notin Attached(i)
  BY <1>1 DEF CallersOK
<1>8. CallersOK'
  <2>1. Requests \subseteq Jobs /\ Keys \subseteq Jobs
    BY LifecycleAssumption
  <2>2. /\ pc' \in [Requests -> {"idle", "waiting", "done"}]
        /\ \A q \in Requests : pc'[q] = IF q = r THEN "done" ELSE pc[q]
    BY <1>3 DEF CallersOK
  <2>3. \A q \in Requests : pc'[q] = "idle" => pc[q] = "idle" /\ Attached(q)' = {}
    BY <1>6, <2>1, <2>2 DEF CallersOK
  <2>4. \A i1, i2 \in Jobs : i1 # i2 => Attached(i1)' \cap Attached(i2)' = {}
    BY <1>6 DEF CallersOK
  <2>5. \A q \in Requests : pc'[q] = "waiting" <=> \E i \in Jobs : q \in Attached(i)'
    <3> SUFFICES ASSUME NEW q \in Requests
                 PROVE  pc'[q] = "waiting" <=> \E i \in Jobs : q \in Attached(i)'
      OBVIOUS
    <3>0. pc[q] = "waiting" <=> \E i \in Jobs : q \in Attached(i)
      BY DEF CallersOK
    <3>1. CASE q = r
      BY <1>6, <1>7, <2>2, <3>1
    <3>2. CASE q # r
      <4>1. \A i \in Jobs : q \in Attached(i)' <=> q \in Attached(i)
        BY <1>6, <3>2
      <4> QED
        BY <2>2, <3>0, <3>2, <4>1
    <3> QED
      BY <3>1, <3>2
  <2>6. /\ \A k \in Keys : inFlight'[k] # NoJob => pc'[inFlight'[k]] # "idle"
        /\ group' # NoJob => pc'[group'] # "idle"
        /\ group' \in Posters \cup {NoJob}
    BY <2>3 DEF CallersOK, Requests
  <2>7. \A k \in Keys : Attached(k)' = {}
    BY <1>6, <2>1 DEF CallersOK
  <2> QED
    BY <1>5, <2>2, <2>3, <2>4, <2>5, <2>6, <2>7 DEF CallersOK
<1> QED
  BY <1>1, <1>2, <1>6, <1>8 DEF j

-----------------------------------------------------------------------------
(* Every action of Lifecycle *)

Kept == IInv' /\ Urgent(sched, sched')

LEMMA SchedUnchanged ==
  ASSUME IInv, sched' = sched
  PROVE  SchedInv(sched') /\ Places(sched') = Places(sched) /\ Urgent(sched, sched')
BY DEF IInv, Urgent

LEMMA PriorityType ==
  ASSUME IInv, NEW j \in Jobs, NEW n \in Nat PROVE PriorityOf(j, n) \in Nat
BY LifecycleAssumption DEF PriorityOf

\* A job that begins is queued or gets a slot.
LEMMA BeginJobOK ==
  ASSUME IInv, NEW j \in Jobs, j \notin Places(sched) \cup sleeping, BeginJob(j)
  PROVE  /\ SchedInv(sched') /\ Urgent(sched, sched')
         /\ Places(sched') = Places(sched) \cup {j} /\ live' = live \cup {j}
<1>1. PriorityOf(j, 0) \in Nat
  BY PriorityType
<1> QED
  BY <1>1, RegisterInv DEF IInv, BeginJob

LEMMA JoinKept ==
  ASSUME IInv, NEW r \in Getters, Get(r), Join(r, KeyOf[r]) PROVE Kept
<1>1. KeyOf[r] \in Keys /\ r \in Requests /\ NoJob \notin Requests
  BY LifecycleAssumption DEF Requests
<1> DEFINE j == inFlight[KeyOf[r]]
<1>2. j \in Requests /\ pc[j] # "idle"
  BY <1>1 DEF IInv, CallersOK, Join, Requests
<1>3. CallersOK'
  BY <1>1, <1>2, AppendCaller DEF IInv, Get, Arrives, Join, batching, CallersOK
<1>4. JobsOK'
  BY <1>1, SchedUnchanged DEF IInv, JobsOK, CallersOK, Get, Join, NoNewJob, batching
<1> QED
  BY <1>3, <1>4, SchedUnchanged DEF Kept, IInv, Join, NoNewJob

LEMMA AnswerFromCacheKept ==
  ASSUME IInv, NEW r \in Getters, Get(r), AnswerFromCache(r, KeyOf[r]) PROVE Kept
<1> DEFINE k == KeyOf[r]
<1>1. k \in Keys /\ k \in Jobs /\ r \in Requests /\ k \notin Requests
  BY LifecycleAssumption DEF Requests
<1>2. /\ pc' = [q \in Requests |-> IF q \in {r} THEN "done" ELSE pc[q]]
      /\ pc[r] = "idle" /\ UNCHANGED <<inFlight, waiters, group, sleeping, attempt>>
  BY DEF AnswerFromCache, Told, Get, Arrives, batching
<1>3. CallersOK'
  <2>1. \A j \in Jobs : Attached(j)' = Attached(j) /\ r \notin Attached(j)
    BY <1>1, <1>2 DEF IInv, CallersOK, Attached
  <2> QED
    BY <1>1, <1>2, <2>1, LifecycleAssumption DEF IInv, CallersOK, Requests
<1>4. \A q \in Requests : pc'[q] = "idle" => pc[q] = "idle"
  BY <1>2
<1>5. CASE NoNewJob
  <2>1. JobsOK'
    BY <1>2, <1>4, <1>5, SchedUnchanged DEF IInv, JobsOK, NoNewJob
  <2> QED
    BY <1>3, <1>5, <2>1, SchedUnchanged DEF Kept, IInv, NoNewJob
<1>6. CASE k \notin live /\ BeginJob(k)
  <2>1. k \notin Places(sched) \cup sleeping
    BY <1>1, <1>6 DEF IInv, JobsOK
  <2> HIDE DEF k
  <2>2. /\ SchedInv(sched') /\ Urgent(sched, sched')
        /\ Places(sched') = Places(sched) \cup {k} /\ live' = live \cup {k}
    BY <1>1, <1>6, <2>1, BeginJobOK
  <2>3. JobsOK'
    BY <1>1, <1>2, <1>4, <2>1, <2>2 DEF IInv, JobsOK
  <2> QED
    BY <1>3, <2>2, <2>3 DEF Kept, IInv
<1> QED
  BY <1>5, <1>6 DEF AnswerFromCache

LEMMA FetchKept ==
  ASSUME IInv, NEW r \in Getters, Get(r), Fetch(r, KeyOf[r]) PROVE Kept
<1> DEFINE k == KeyOf[r]
<1>1. k \in Keys /\ r \in Requests /\ r \in Jobs /\ r \notin Keys
  BY LifecycleAssumption DEF Requests
<1>2. /\ pc' = [pc EXCEPT ![r] = "waiting"] /\ pc[r] = "idle"
      /\ inFlight' = [inFlight EXCEPT ![k] = r]
      /\ waiters' = [waiters EXCEPT ![r] = <<r>>]
      /\ UNCHANGED <<group, sleeping, attempt>> /\ BeginJob(r)
  BY DEF Fetch, Get, Arrives, batching
<1>3. waiters' = [waiters EXCEPT ![r] = Append(@, r)]
  <2>1. waiters[r] = <<>>
    BY <1>1, <1>2, AttachedIs, NoNodes DEF IInv, CallersOK
  <2> QED
    BY <1>2, <2>1
<1>4. r \notin Places(sched) \cup sleeping
  BY <1>1, <1>2 DEF IInv, JobsOK
<1>5. group # r
  BY <1>1, <1>2, LifecycleAssumption DEF IInv, CallersOK, Requests
<1>6. CallersOK'
  <2>1. CallersOK /\ inFlight' \in [Keys -> Getters \cup {NoJob}] /\ group' \in Posters \cup {NoJob}
    BY <1>1, <1>2 DEF IInv, CallersOK
  <2>2. \A i \in Keys : inFlight'[i] \in {inFlight[i], NoJob, r}
    BY <1>1, <1>2 DEF IInv, CallersOK
  <2> HIDE DEF k
  <2> QED
    BY <1>1, <1>2, <1>3, <2>1, <2>2, AppendCaller
<1>7. /\ SchedInv(sched') /\ Urgent(sched, sched')
      /\ Places(sched') = Places(sched) \cup {r} /\ live' = live \cup {r}
  BY <1>1, <1>2, <1>4, BeginJobOK
<1>8. JobsOK'
  BY <1>1, <1>2, <1>4, <1>5, <1>7 DEF IInv, JobsOK, CallersOK
<1> QED
  BY <1>6, <1>7, <1>8 DEF Kept, IInv

LEMMA GetKept == ASSUME IInv, NEW r \in Getters, Get(r) PROVE Kept
BY JoinKept, AnswerFromCacheKept, FetchKept DEF Get

LEMMA DispatchKept ==
  ASSUME IInv, CallersOK', NEW members, DispatchGroup(group, members), group # NoJob,
         UNCHANGED <<sleeping, attempt>>,
         \A r \in Requests : pc'[r] = "idle" => pc[r] = "idle"
  PROVE  Kept
<1>1. group \in Requests /\ group \in Jobs /\ group \notin Keys /\ NoJob \notin Requests
  BY LifecycleAssumption DEF IInv, CallersOK, Requests
<1>2. group \notin Places(sched) \cup sleeping
  BY <1>1 DEF IInv, JobsOK
<1>3. group' = NoJob /\ BeginJob(group) /\ pc[group] # "idle"
  BY DEF DispatchGroup, IInv, CallersOK
<1> DEFINE g == group
<1>4. PICK j \in Jobs : j = group
  BY <1>1
<1>5. /\ SchedInv(sched') /\ Urgent(sched, sched')
      /\ Places(sched') = Places(sched) \cup {j} /\ live' = live \cup {j}
  BY <1>2, <1>3, <1>4, BeginJobOK
<1>6. JobsOK'
  BY <1>1, <1>2, <1>3, <1>4, <1>5 DEF IInv, JobsOK
<1> QED
  BY <1>5, <1>6 DEF Kept, IInv

LEMMA PostKept == ASSUME IInv, NEW r \in Posters, Post(r) PROVE Kept
<1>1. r \in Requests /\ r \in Jobs /\ NoJob \notin Requests
  BY LifecycleAssumption DEF Requests
<1>2. /\ pc' = [pc EXCEPT ![r] = "waiting"] /\ pc[r] = "idle"
      /\ UNCHANGED <<inFlight, sleeping, attempt>>
  BY DEF Post, Arrives
<1>3. \A q \in Requests : pc'[q] = "idle" => pc[q] = "idle"
  BY <1>2 DEF IInv, CallersOK
<1>4. CASE OpenGroup(r)
  <2>1. waiters[r] = <<>>
    BY <1>1, <1>2, AttachedIs, NoNodes DEF IInv, CallersOK
  <2>2. waiters' = [waiters EXCEPT ![r] = Append(@, r)] /\ group' = r /\ NoNewJob
    BY <1>4, <2>1 DEF OpenGroup
  <2>3. CallersOK'
    BY <1>1, <1>2, <2>2, AppendCaller DEF IInv, CallersOK
  <2>4. JobsOK'
    BY <1>2, <1>3, <2>2, SchedUnchanged DEF IInv, JobsOK, NoNewJob
  <2> QED
    BY <2>2, <2>3, <2>4, SchedUnchanged DEF Kept, IInv, NoNewJob
<1>5. CASE JoinGroup(r)
  <2>1. group \in Requests /\ pc[group] # "idle"
    BY <1>5 DEF IInv, CallersOK, JoinGroup, Requests
  <2>2. waiters' = [waiters EXCEPT ![group] = Append(@, r)] /\ group' \in {group, NoJob}
    BY <1>5 DEF JoinGroup, DispatchGroup, batching
  <2>3. CallersOK'
    BY <1>1, <1>2, <2>1, <2>2, AppendCaller DEF IInv, CallersOK
  <2>4. CASE DispatchGroup(group, waiters'[group])
    BY <1>2, <1>3, <1>5, <2>3, <2>4, DispatchKept DEF JoinGroup
  <2>5. CASE UNCHANGED batching /\ NoNewJob
    <3>1. JobsOK'
      BY <1>2, <1>3, <2>5, SchedUnchanged DEF IInv, JobsOK, NoNewJob, batching
    <3> QED
      BY <2>3, <2>5, <3>1, SchedUnchanged DEF Kept, IInv, NoNewJob
  <2> QED
    BY <1>5, <2>4, <2>5 DEF JoinGroup
<1> QED
  BY <1>4, <1>5 DEF Post

LEMMA BatchWindowKept == ASSUME IInv, BatchWindow PROVE Kept
<1>1. CallersOK'
  BY LifecycleAssumption
     DEF IInv, CallersOK, BatchWindow, DispatchGroup, callers, Attached, Requests
<1> QED
  BY <1>1, DispatchKept DEF BatchWindow, callers

LEMMA EndJobCallers ==
  ASSUME CallersOK, NEW j \in Jobs, NEW outcome, EndJob(j, outcome)
  PROVE  CallersOK' /\ \A i \in Jobs : Attached(i)' = IF i = j THEN {} ELSE Attached(i)
<1>1. /\ waiters' = [waiters EXCEPT ![j] = <<>>] /\ group' = group
      /\ pc' = [r \in Requests |-> IF r \in Attached(j) THEN "done" ELSE pc[r]]
  BY DEF EndJob, Told, batching
<1>2. /\ inFlight' \in [Keys -> Getters \cup {NoJob}]
      /\ \A k \in Keys : inFlight'[k] \in {inFlight[k], NoJob}
  BY LifecycleAssumption DEF EndJob, EntryGone, CallersOK
<1> QED
  BY <1>1, <1>2, TellCallers

\* A job ends that has left its places.
LEMMA EndJobKept ==
  ASSUME IInv, NEW j \in Jobs, NEW outcome, EndJob(j, outcome),
         SchedInv(sched'), Urgent(sched, sched'), Places(sched') \subseteq Places(sched) \ {j}
  PROVE  Kept
<1>1. CallersOK'
  BY EndJobCallers DEF IInv
<1>2. /\ live' = live \ {j} /\ sleeping' = sleeping \ {j}
      /\ attempt' = [attempt EXCEPT ![j] = 0] /\ group' = group
      /\ \A r \in Requests : pc'[r] = "idle" => pc[r] = "idle"
  BY DEF EndJob, Told, batching
<1>3. JobsOK'
  BY <1>2 DEF IInv, JobsOK
<1> QED
  BY <1>1, <1>3 DEF Kept, IInv

LEMMA AttemptFailsKept ==
  ASSUME IInv, NEW j \in Jobs, j \in Places(sched), j \in Keys => j \in live, AttemptFails(j),
         SchedInv(sched'), Urgent(sched, sched'), Places(sched') \subseteq Places(sched) \ {j}
  PROVE  Kept
<1>1. CASE Retried(j)
  <2>1. sleeping' = sleeping \cup {j} /\ UNCHANGED <<pc, inFlight, waiters, group, live, attempt>>
    BY <1>1 DEF AttemptFails, callers, batching
  <2>2. CallersOK'
    BY <2>1 DEF IInv, CallersOK, Attached
  <2>3. JobsOK'
    BY <2>1 DEF IInv, JobsOK
  <2> QED
    BY <2>2, <2>3 DEF Kept, IInv
<1>2. CASE ~Retried(j)
  BY <1>2, EndJobKept DEF AttemptFails
<1> QED
  BY <1>1, <1>2

LEMMA WireAnswersKept ==
  ASSUME IInv, NEW j \in Jobs, NEW outcome, WireAnswers(j, outcome) PROVE Kept
<1>1. j \in sched.wire /\ j \in Places(sched) /\ sched' = OnComplete(sched, j)
  BY DEF WireAnswers, Places
<1>2. /\ SchedInv(sched') /\ Urgent(sched, sched')
      /\ Places(sched') = Places(sched) \ {j}
  BY <1>1, OnCompleteInv DEF IInv
<1>3. j \in Keys => j \in live
  BY <1>1 DEF IInv, JobsOK
<1>4. CASE j \notin live
  <2>1. UNCHANGED <<pc, inFlight, waiters, group, live, sleeping, attempt>>
    BY <1>4 DEF WireAnswers, callers, batching
  <2>2. CallersOK'
    BY <2>1 DEF IInv, CallersOK, Attached
  <2>3. JobsOK'
    BY <1>2, <2>1 DEF IInv, JobsOK
  <2> QED
    BY <1>2, <2>2, <2>3 DEF Kept, IInv
<1>5. CASE j \in live /\ outcome = "retryable"
  BY <1>1, <1>2, <1>3, <1>5, AttemptFailsKept DEF WireAnswers
<1>6. CASE j \in live /\ outcome # "retryable"
  BY <1>2, <1>6, EndJobKept DEF WireAnswers
<1> QED
  BY <1>4, <1>5, <1>6

LEMMA QueueTimeoutKept == ASSUME IInv, NEW j \in Jobs, QueueTimeout(j) PROVE Kept
<1>1. j \in QueuedJobs(sched) /\ j \in Places(sched) /\ j \notin sched.wire
  BY DEF QueueTimeout, Places, IInv, SchedInv
<1>2. /\ SchedInv(sched') /\ Urgent(sched, sched')
      /\ Places(sched') \subseteq Places(sched) \ {j}
  BY <1>1, DropInv DEF QueueTimeout, IInv, Places
<1> QED
  BY <1>1, <1>2, AttemptFailsKept DEF QueueTimeout, IInv, JobsOK

LEMMA WakeKept == ASSUME IInv, NEW j \in Jobs, Wake(j) PROVE Kept
<1>1. j \in sleeping /\ j \notin Places(sched) /\ attempt[j] + 1 \in Nat
  BY DEF Wake, IInv, JobsOK
<1>2. CASE EndJob(j, "failed") /\ UNCHANGED sched
  BY <1>1, <1>2, SchedUnchanged, EndJobKept
<1>3. CASE /\ sleeping' = sleeping \ {j}
           /\ attempt' = [attempt EXCEPT ![j] = @ + 1]
           /\ sched' = Register(sched, j, PriorityOf(j, attempt[j] + 1))
           /\ UNCHANGED <<callers, inFlight, waiters, batching, live, aborted, cache>>
  <2>1. /\ SchedInv(sched') /\ Urgent(sched, sched')
        /\ Places(sched') = Places(sched) \cup {j}
    BY <1>1, <1>3, PriorityType, RegisterInv DEF IInv
  <2>2. UNCHANGED <<pc, inFlight, waiters, group, live>>
    BY <1>3 DEF callers, batching
  <2>3. CallersOK'
    BY <2>2 DEF IInv, CallersOK, Attached
  <2>4. JobsOK'
    BY <1>1, <1>3, <2>1, <2>2 DEF IInv, JobsOK
  <2> QED
    BY <2>1, <2>3, <2>4 DEF Kept, IInv
<1> QED
  BY <1>2, <1>3 DEF Wake

\* The last caller gives a job up.
LEMMA AbandonKept ==
  ASSUME IInv, CallersOK', NEW r \in Requests, NEW j \in Requests,
         Abandon(r, j) \/ Stays, group' \in {group, NoJob},
         \A q \in Requests : pc'[q] = "idle" => pc[q] = "idle"
  PROVE  Kept
<1>1. j \in Jobs /\ j \notin Keys /\ NoJob \notin Requests
  BY LifecycleAssumption
<1>2. CASE Stays \/ LeftToTheWire
  <2>1. UNCHANGED <<live, sleeping, attempt, sched>>
    BY <1>2 DEF Stays, LeftToTheWire
  <2>2. JobsOK'
    BY <1>1, <2>1 DEF IInv, JobsOK
  <2> QED
    BY <2>1, <2>2, SchedUnchanged DEF Kept, IInv
<1>3. CASE EndsByListener(j) \/ EndsByCanceler(j)
  <2>1. /\ live' = live \ {j} /\ sleeping' = sleeping \ {j}
        /\ attempt' = [attempt EXCEPT ![j] = 0]
    BY <1>3 DEF EndsByListener, EndsByCanceler, Ends
  <2>2. /\ SchedInv(sched') /\ Urgent(sched, sched')
        /\ Places(sched') \subseteq Places(sched)
    BY <1>3, DropInv, OnCompleteInv, SchedUnchanged DEF EndsByListener, EndsByCanceler, IInv
  <2>3. JobsOK'
    BY <1>1, <2>1, <2>2 DEF IInv, JobsOK
  <2> QED
    BY <2>2, <2>3 DEF Kept, IInv
<1> QED
  BY <1>2, <1>3 DEF Abandon

LEMMA CancelGetKept == ASSUME IInv, NEW r \in Requests, CancelGet(r) PROVE Kept
<1> DEFINE j == JobOf(r)
<1>1. /\ pc[r] = "waiting" /\ Detach(r, j) /\ group' = group
      /\ Abandon(r, j) \/ Stays
  BY DEF CancelGet
<1>2. /\ inFlight' \in [Keys -> Getters \cup {NoJob}]
      /\ \A k \in Keys : inFlight'[k] \in {inFlight[k], NoJob}
  <2>1. EntryGone(j) \/ UNCHANGED inFlight
    BY DEF CancelGet
  <2>2. inFlight \in [Keys -> Getters \cup {NoJob}]
    BY DEF IInv, CallersOK
  <2> QED
    BY <2>1, <2>2 DEF EntryGone
<1>3. CallersOK' /\ j \in Requests
  BY <1>1, <1>2, DetachCaller DEF IInv
<1>4. \A q \in Requests : pc'[q] = "idle" => pc[q] = "idle"
  BY <1>1 DEF Detach, Told
<1> HIDE DEF j
<1> QED
  BY <1>1, <1>3, <1>4, AbandonKept

LEMMA CancelPostKept == ASSUME IInv, NEW r \in Requests, CancelPost(r) PROVE Kept
<1> DEFINE j == JobOf(r)
<1>1. /\ pc[r] = "waiting" /\ Detach(r, j) /\ group' \in {group, NoJob}
      /\ (Abandon(r, j) \/ Stays)
      /\ UNCHANGED inFlight
  BY DEF CancelPost
<1>2. CallersOK' /\ j \in Requests
  BY <1>1, DetachCaller DEF IInv, CallersOK, CancelPost
<1>3. \A q \in Requests : pc'[q] = "idle" => pc[q] = "idle"
  BY <1>1 DEF Detach, Told
<1> HIDE DEF j
<1> QED
  BY <1>1, <1>2, <1>3, AbandonKept

LEMMA StillKept ==
  ASSUME IInv, UNCHANGED <<pc, inFlight, waiters, group, live, sleeping, attempt, sched>>
  PROVE  Kept
BY SchedUnchanged DEF Kept, IInv, CallersOK, JobsOK, Attached

LEMMA NextKept == ASSUME IInv, [Next]_vars PROVE Kept
<1>1. ASSUME NEW r \in Getters, Get(r) PROVE Kept
  BY <1>1, GetKept
<1>2. ASSUME NEW r \in Posters, Post(r) PROVE Kept
  BY <1>2, PostKept
<1>3. CASE BatchWindow
  BY <1>3, BatchWindowKept
<1>4. ASSUME NEW j \in Jobs, NEW o, WireAnswers(j, o) PROVE Kept
  BY <1>4, WireAnswersKept
<1>5. ASSUME NEW j \in Jobs, QueueTimeout(j) \/ Wake(j) PROVE Kept
  BY <1>5, QueueTimeoutKept, WakeKept
<1>6. ASSUME NEW r \in Requests, CancelGet(r) \/ CancelPost(r) PROVE Kept
  BY <1>6, CancelGetKept, CancelPostKept
<1>7. ASSUME NEW k \in Keys, Invalidate(k) \/ Age(k) PROVE Kept
  BY <1>7, StillKept DEF Invalidate, Age, callers, batching
<1>8. CASE UNCHANGED vars
  BY <1>8, StillKept DEF vars
<1> QED
  BY <1>1, <1>2, <1>3, <1>4, <1>5, <1>6, <1>7, <1>8 DEF Next

-----------------------------------------------------------------------------
(* Who shares a call with whom *)

\* Batched requests share jobs with each other, and so do safe ones.
KindsOK ==
  /\ \A j \in Posters : Attached(j) \subseteq Posters
  /\ \A j \in Getters : Attached(j) \subseteq Getters

\* A job is live exactly as long as it is somewhere, but for calls on the wire
\* that nobody waits for any more; only an attempt that may be repeated sleeps.
PlacesOK ==
  /\ QueuedJobs(sched) \cup sleeping \subseteq live
  /\ live \subseteq Places(sched) \cup sleeping
  /\ attempt \in [Jobs -> 0..MaxRetries]
  /\ \A j \in sleeping : attempt[j] < MaxRetries

\* A job with callers runs and was not aborted, or is the open group; one
\* without was aborted or revalidates.
CallsOK ==
  /\ aborted \subseteq Requests
  /\ \A j \in Jobs : Attached(j) # {} => j = group \/ (j \in live /\ j \notin aborted)
  /\ \A j \in live : Attached(j) = {} => j \in aborted \cup Keys
  /\ group # NoJob => Attached(group) # {} /\ group \notin aborted
  /\ \A r \in Requests : pc[r] = "idle" => r \notin aborted

\* An entry leads to callers of its key, and while nobody gave a fetch up every
\* fetch under way is the entry of its key.
EntriesOK ==
  /\ \A k \in Keys : inFlight[k] # NoJob =>
       Attached(inFlight[k]) # {} /\ KeyOf[inFlight[k]] = k
  /\ aborted \cap Getters = {} =>
       \A j \in live \cap Getters : inFlight[KeyOf[j]] = j

\* After its dispatch a group keeps the callers it was coalesced from, until one
\* of them leaves or all were told, each its own part.
Settled(g) ==
  \/ sent[g] = <<>>
  \/ \E q \in ToSet(sent[g]) : pc[q] = "done" /\ answer[q] = "interrupted"
  \/ waiters[g] = sent[g]
  \/ \A q \in ToSet(sent[g]) : pc[q] = "done" /\ answer[q] \in {q, "failed"}
PartsOK ==
  /\ sent \in [Posters -> Seq(Posters)]
  /\ \A r \in Posters : pc[r] # "done" => answer[r] = "none"
  /\ \A g \in Posters : pc[g] = "idle" \/ g = group => sent[g] = <<>>
  /\ \A g \in Posters : Settled(g)

SharedInv == KindsOK /\ PlacesOK /\ CallsOK /\ EntriesOK /\ PartsOK

LEMMA Names == /\ Getters \subseteq Requests /\ Posters \subseteq Requests
               /\ Requests = Getters \cup Posters /\ Getters \cap Posters = {}
               /\ Requests \subseteq Jobs /\ Keys \subseteq Jobs /\ Jobs = Requests \cup Keys
               /\ Keys \cap Requests = {} /\ NoJob \notin Jobs
               /\ \A r \in Getters : KeyOf[r] \in Keys
BY LifecycleAssumption DEF Requests

LEMMA RangeIsToSet == \A s : Range(s) = ToSet(s)
BY DEF Range, ToSet

LEMMA InitSharedInv == Init => SharedInv
<1> SUFFICES ASSUME Init PROVE SharedInv
  OBVIOUS
<1>1. \A j \in Jobs : Attached(j) = {}
  BY AttachedIs, NobodyAttached DEF Init
<1>2. Places(sched) = {} /\ QueuedJobs(sched) = {}
  BY IdleInv DEF Init, Places
<1>3. KindsOK /\ CallsOK
  BY <1>1, Names DEF KindsOK, CallsOK, Init
<1>4. PlacesOK
  BY <1>2, LifecycleAssumption DEF PlacesOK, Init
<1>5. EntriesOK
  BY DEF EntriesOK, Init
<1>6. PartsOK
  BY DEF PartsOK, Settled, Init
<1> QED
  BY <1>3, <1>4, <1>5, <1>6 DEF SharedInv

\* No step takes back what a request was told, and telling ends its waiting.
AnswersKept ==
  \A q \in Posters :
    /\ pc[q] = "done" => pc'[q] = "done" /\ answer'[q] = answer[q]
    /\ pc'[q] # "done" => pc[q] # "done" /\ answer'[q] = answer[q]

LEMMA SettledStays ==
  ASSUME PartsOK, AnswersKept, NEW g \in Posters, sent'[g] = sent[g],
         waiters[g] = sent[g] => Settled(g)'
  PROVE  Settled(g)'
<1>1. ToSet(sent[g]) \subseteq Posters
  BY DEF PartsOK, ToSet
<1>2. \A q \in ToSet(sent[g]) : pc[q] = "done" => pc'[q] = "done" /\ answer'[q] = answer[q]
  BY <1>1 DEF AnswersKept
<1>3. Settled(g)
  BY DEF PartsOK
<1>4. CASE sent[g] = <<>>
  BY <1>4 DEF Settled
<1>5. CASE \E q \in ToSet(sent[g]) : pc[q] = "done" /\ answer[q] = "interrupted"
  BY <1>2, <1>5 DEF Settled
<1>6. CASE \A q \in ToSet(sent[g]) : pc[q] = "done" /\ answer[q] \in {q, "failed"}
  BY <1>2, <1>6 DEF Settled
<1> QED
  BY <1>3, <1>4, <1>5, <1>6 DEF Settled

\* A step that sends nothing keeps PartsOK, if a group that it touches stays settled.
LEMMA PartsStay ==
  ASSUME PartsOK, AnswersKept, sent' = sent,
         \A q \in Posters : pc'[q] = "idle" => pc[q] = "idle",
         group' \in {group, NoJob} \/ (group' \in Posters /\ pc[group'] = "idle"),
         \A g \in Posters : waiters'[g] = waiters[g] \/ sent[g] = <<>> \/ Settled(g)'
  PROVE  PartsOK'
<1>1. \A g \in Posters : Settled(g)'
  <2> TAKE g \in Posters
  <2>1. CASE waiters'[g] = waiters[g]
    BY <2>1, SettledStays DEF Settled
  <2>2. CASE sent[g] = <<>>
    BY <2>2 DEF Settled
  <2> QED
    BY <2>1, <2>2
<1>2. sent' \in [Posters -> Seq(Posters)]
  BY DEF PartsOK
<1>3. \A r \in Posters : pc'[r] # "done" => answer'[r] = "none"
  BY DEF PartsOK, AnswersKept
<1>4. \A g \in Posters : pc'[g] = "idle" \/ g = group' => sent'[g] = <<>>
  <2>1. NoJob \notin Posters
    BY Names
  <2> QED
    BY <2>1 DEF PartsOK
<1> QED
  BY <1>1, <1>2, <1>3, <1>4 DEF PartsOK

LEMMA JoinShared ==
  ASSUME IInv, SharedInv, NEW r \in Getters, Get(r), Join(r, KeyOf[r]) PROVE SharedInv'
<1> DEFINE k == KeyOf[r]
<1>1. k \in Keys /\ r \in Requests /\ r \notin Posters /\ NoJob \notin Jobs
  BY Names
<1>2. PICK j \in Getters : j = inFlight[k]
  BY <1>1 DEF Join, IInv, CallersOK
<1>3. j \in Requests /\ j \in Jobs /\ j \notin Posters
  BY Names
<1>4. Attached(j) # {} /\ pc[j] # "idle"
  BY <1>1, <1>2 DEF SharedInv, EntriesOK, IInv, CallersOK, Join
<1>5. /\ waiters' = [waiters EXCEPT ![j] = Append(@, r)]
      /\ pc' = [pc EXCEPT ![r] = "waiting"] /\ pc[r] = "idle"
      /\ UNCHANGED <<answer, inFlight, group, sent, live, sched, aborted, sleeping, attempt>>
  BY <1>2 DEF Join, Get, Arrives, batching, NoNewJob
<1>6. \A i \in Jobs : Attached(i)' = IF i = j THEN Attached(i) \cup {r} ELSE Attached(i)
  BY <1>1, <1>3, <1>4, <1>5, AppendCaller DEF IInv, CallersOK
<1>7. \A q \in Requests : pc'[q] = IF q = r THEN "waiting" ELSE pc[q]
  BY <1>5 DEF IInv, CallersOK
<1>8. KindsOK'
  BY <1>1, <1>3, <1>6, Names DEF SharedInv, KindsOK
<1>9. PlacesOK'
  BY <1>5 DEF SharedInv, PlacesOK
<1>10. CallsOK'
  <2>1. group # NoJob => group \in Jobs
    BY Names DEF IInv, CallersOK
  <2>2. live \subseteq Jobs
    BY DEF IInv, JobsOK
  <2> QED
    BY <1>4, <1>5, <1>6, <1>7, <2>1, <2>2 DEF SharedInv, CallsOK
<1>11. EntriesOK'
  <2>1. \A i \in Keys : inFlight[i] # NoJob => inFlight[i] \in Jobs
    BY Names DEF IInv, CallersOK
  <2> QED
    BY <1>5, <1>6, <2>1 DEF SharedInv, EntriesOK
<1>12. PartsOK'
  <2>1. AnswersKept
    BY <1>1, <1>5, <1>7, Names DEF AnswersKept
  <2>2. \A g \in Posters : waiters'[g] = waiters[g]
    BY <1>3, <1>5, Names DEF IInv, CallersOK
  <2>3. PartsOK
    BY DEF SharedInv
  <2> QED
    BY <1>5, <1>7, <2>1, <2>2, <2>3, PartsStay, Names
<1> QED
  BY <1>8, <1>9, <1>10, <1>11, <1>12 DEF SharedInv

\* Where a job is that begins.
LEMMA BeginJobPlaces ==
  ASSUME IInv, PlacesOK, NEW j \in Jobs, j \notin Places(sched) \cup sleeping, BeginJob(j),
         UNCHANGED <<sleeping, attempt>>
  PROVE  PlacesOK'
<1>1. PriorityOf(j, 0) \in Nat
  BY PriorityType
<1>2. /\ Places(sched') = Places(sched) \cup {j} /\ live' = live \cup {j}
      /\ QueuedJobs(sched') \subseteq QueuedJobs(sched) \cup {j}
  BY <1>1, RegisterInv DEF IInv, BeginJob
<1> QED
  BY <1>2 DEF PlacesOK

LEMMA AnswerFromCacheShared ==
  ASSUME IInv, SharedInv, NEW r \in Getters, Get(r), AnswerFromCache(r, KeyOf[r])
  PROVE  SharedInv'
<1>1. PICK k \in Keys : k = KeyOf[r]
  BY Names
<1>2. r \in Requests /\ r \notin Posters /\ k \in Jobs /\ k \notin Requests /\ k \notin Getters
  BY Names
<1>3. /\ pc' = [q \in Requests |-> IF q \in {r} THEN "done" ELSE pc[q]]
      /\ answer' = [q \in Posters |-> IF q \in {r} THEN [x \in {r} |-> "ok"][q] ELSE answer[q]]
      /\ pc[r] = "idle"
      /\ UNCHANGED <<inFlight, waiters, group, sent, aborted, sleeping, attempt>>
      /\ (k \notin live /\ BeginJob(k)) \/ NoNewJob
  BY <1>1 DEF AnswerFromCache, Told, Get, Arrives, batching
<1>4. \A j \in Jobs : Attached(j)' = Attached(j)
  BY <1>3 DEF Attached
<1>5. live' \in {live, live \cup {k}}
  BY <1>3 DEF BeginJob, NoNewJob
<1>6. KindsOK'
  BY <1>4, Names DEF SharedInv, KindsOK
<1>7. PlacesOK'
  <2>1. CASE NoNewJob
    BY <1>3, <2>1 DEF NoNewJob, SharedInv, PlacesOK
  <2>2. CASE k \notin live /\ BeginJob(k)
    <3>1. k \notin Places(sched) \cup sleeping
      BY <2>2 DEF IInv, JobsOK
    <3> QED
      BY <1>2, <1>3, <2>2, <3>1, BeginJobPlaces DEF SharedInv
  <2> QED
    BY <1>3, <2>1, <2>2
<1>8. CallsOK'
  <2>1. \A q \in Requests : pc'[q] = "idle" => pc[q] = "idle"
    BY <1>3
  <2>2. group # NoJob => group \in Jobs
    BY Names DEF IInv, CallersOK
  <2>3. live' \subseteq Jobs
    BY <1>2, <1>5 DEF IInv, JobsOK
  <2> QED
    BY <1>2, <1>3, <1>4, <1>5, <2>1, <2>2, <2>3 DEF SharedInv, CallsOK
<1>9. EntriesOK'
  <2>1. \A i \in Keys : inFlight[i] # NoJob => inFlight[i] \in Jobs
    BY Names DEF IInv, CallersOK
  <2> QED
    BY <1>2, <1>3, <1>4, <1>5, <2>1 DEF SharedInv, EntriesOK
<1>10. PartsOK'
  <2>1. AnswersKept
    BY <1>2, <1>3, Names DEF AnswersKept
  <2>2. \A q \in Posters : pc'[q] = "idle" => pc[q] = "idle"
    BY <1>3, Names
  <2>3. PartsOK
    BY DEF SharedInv
  <2> QED
    BY <1>3, <2>1, <2>2, <2>3, PartsStay
<1> QED
  BY <1>6, <1>7, <1>8, <1>9, <1>10 DEF SharedInv

LEMMA FetchShared ==
  ASSUME IInv, SharedInv, NEW r \in Getters, Get(r), Fetch(r, KeyOf[r]) PROVE SharedInv'
<1>1. PICK k \in Keys : k = KeyOf[r]
  BY Names
<1>2. r \in Requests /\ r \notin Posters /\ r \in Jobs /\ r \notin Keys /\ r # NoJob
  BY Names
<1>3. /\ pc' = [pc EXCEPT ![r] = "waiting"] /\ pc[r] = "idle"
      /\ inFlight' = [inFlight EXCEPT ![k] = r] /\ inFlight[k] = NoJob
      /\ waiters' = [waiters EXCEPT ![r] = <<r>>] /\ BeginJob(r)
      /\ UNCHANGED <<answer, group, sent, aborted, sleeping, attempt>>
  BY <1>1 DEF Fetch, Get, Arrives, batching
<1>4. \A q \in Requests : pc'[q] = IF q = r THEN "waiting" ELSE pc[q]
  BY <1>3 DEF IInv, CallersOK
<1>5. \A i \in Jobs : Attached(i)' = IF i = r THEN {r} ELSE Attached(i)
  <2>1. \A i \in Jobs : waiters'[i] = IF i = r THEN <<r>> ELSE waiters[i]
    BY <1>2, <1>3 DEF IInv, CallersOK
  <2>2. ToSet(<<r>>) = {r}
    BY DEF ToSet
  <2> QED
    BY <2>1, <2>2, AttachedIs
<1>6. r \notin aborted /\ live' = live \cup {r}
  BY <1>2, <1>3 DEF SharedInv, CallsOK, BeginJob
<1>7. KindsOK'
  BY <1>2, <1>5, Names DEF SharedInv, KindsOK
<1>8. PlacesOK'
  <2>1. r \notin Places(sched) \cup sleeping
    BY <1>2, <1>3 DEF IInv, JobsOK
  <2> QED
    BY <1>2, <1>3, <2>1, BeginJobPlaces DEF SharedInv
<1>9. CallsOK'
  <2>1. group # NoJob => group \in Jobs
    BY Names DEF IInv, CallersOK
  <2>2. live \subseteq Jobs
    BY DEF IInv, JobsOK
  <2> QED
    BY <1>2, <1>3, <1>4, <1>5, <1>6, <2>1, <2>2 DEF SharedInv, CallsOK
<1>10. EntriesOK'
  <2>1. \A i \in Keys : inFlight'[i] = IF i = k THEN r ELSE inFlight[i]
    BY <1>3 DEF IInv, CallersOK
  <2>2. \A i \in Keys : inFlight'[i] # NoJob =>
           Attached(inFlight[i])' # {} /\ KeyOf[inFlight'[i]] = i
    <3> SUFFICES ASSUME NEW i \in Keys, inFlight'[i] # NoJob
                 PROVE  Attached(inFlight[i])' # {} /\ KeyOf[inFlight'[i]] = i
      OBVIOUS
    <3>1. CASE i = k
      <4>1. inFlight'[i] = r /\ Attached(r)' # {}
        BY <1>2, <1>5, <2>1, <3>1
      <4> QED
        BY <1>1, <3>1, <4>1 DEF Attached
    <3>2. CASE i # k
      <4>1. PICK j \in Jobs : j = inFlight[i]
        BY <2>1, <3>2, Names DEF IInv, CallersOK
      <4>2. inFlight'[i] = j /\ Attached(j) # {} /\ KeyOf[j] = i
        BY <2>1, <3>2, <4>1 DEF SharedInv, EntriesOK
      <4>3. Attached(j)' # {}
        BY <1>5, <4>2
      <4> QED
        BY <4>2, <4>3 DEF Attached
    <3> QED
      BY <3>1, <3>2
  <2>3. ASSUME aborted' \cap Getters = {}, NEW j \in live' \cap Getters
        PROVE  inFlight'[KeyOf[j]] = j
    <3>1. CASE j = r
      BY <1>1, <2>1, <3>1
    <3>2. CASE j # r
      <4>1. inFlight[KeyOf[j]] = j /\ j # NoJob /\ KeyOf[j] \in Keys
        BY <1>3, <1>6, <2>3, <3>2, Names DEF SharedInv, EntriesOK
      <4> QED
        BY <1>3, <2>1, <4>1
    <3> QED
      BY <3>1, <3>2
  <2> QED
    BY <2>2, <2>3 DEF EntriesOK
<1>11. PartsOK'
  <2>1. AnswersKept
    BY <1>2, <1>3, <1>4, Names DEF AnswersKept
  <2>2. \A g \in Posters : waiters'[g] = waiters[g]
    BY <1>2, <1>3, Names DEF IInv, CallersOK
  <2>3. PartsOK
    BY DEF SharedInv
  <2> QED
    BY <1>3, <1>4, <2>1, <2>2, <2>3, PartsStay, Names
<1> QED
  BY <1>7, <1>8, <1>9, <1>10, <1>11 DEF SharedInv

LEMMA SeqOfPosters == ASSUME NEW s \in Seq(Requests), ToSet(s) \subseteq Posters
                      PROVE  s \in Seq(Posters)
<1>1. Len(s) \in Nat /\ s \in [1..Len(s) -> Requests]
  OBVIOUS
<1>2. \A i \in 1..Len(s) : s[i] \in Posters
  BY DEF ToSet
<1>3. s \in [1..Len(s) -> Posters]
  BY <1>1, <1>2
<1> QED
  BY <1>1, <1>3, SeqDef

\* The open group is dispatched with the callers it has after the step.
LEMMA DispatchShared ==
  ASSUME IInv, SharedInv, CallersOK', NEW g \in Posters, g = group,
         DispatchGroup(g, waiters'[g]), AnswersKept,
         UNCHANGED <<inFlight, aborted, sleeping, attempt>>,
         \A q \in Requests : pc'[q] = "idle" => pc[q] = "idle",
         \A i \in Jobs : i # g => Attached(i)' = Attached(i),
         Attached(g)' # {}, Attached(g)' \subseteq Posters,
         \A i \in Posters : i = g \/ waiters'[i] = waiters[i]
  PROVE  SharedInv'
<1>1. g \in Requests /\ g \in Jobs /\ g \notin Keys /\ g \notin Getters /\ g # NoJob
  BY Names
<1>2. /\ group' = NoJob /\ BeginJob(g) /\ live' = live \cup {g}
      /\ sent' = [sent EXCEPT ![g] = waiters'[g]]
  BY DEF DispatchGroup, BeginJob
<1>3. g \notin aborted
  BY <1>1 DEF SharedInv, CallsOK
<1>4. KindsOK'
  BY Names DEF SharedInv, KindsOK
<1>5. PlacesOK'
  <2>1. g \notin Places(sched) \cup sleeping
    BY <1>1 DEF IInv, JobsOK
  <2> QED
    BY <1>1, <1>2, <2>1, BeginJobPlaces DEF SharedInv
<1>6. CallsOK'
  <2>1. live \subseteq Jobs
    BY DEF IInv, JobsOK
  <2> QED
    BY <1>1, <1>2, <1>3, <2>1 DEF SharedInv, CallsOK
<1>7. EntriesOK'
  <2>1. \A k \in Keys : inFlight[k] # NoJob => inFlight[k] \in Jobs /\ inFlight[k] # g
    BY <1>1, Names DEF IInv, CallersOK
  <2> QED
    BY <1>1, <1>2, <2>1 DEF SharedInv, EntriesOK
<1>8. PartsOK'
  <2>1. waiters'[g] \in Seq(Posters)
    <3>1. waiters'[g] \in Seq(Requests)
      BY <1>1 DEF CallersOK
    <3>2. ToSet(waiters'[g]) \subseteq Posters
      BY <1>1, <1>4, AttachedIs DEF KindsOK
    <3> QED
      BY <3>1, <3>2, SeqOfPosters
  <2>2. sent' \in [Posters -> Seq(Posters)] /\ sent'[g] = waiters'[g]
        /\ \A i \in Posters : i # g => sent'[i] = sent[i]
    BY <1>2, <2>1 DEF SharedInv, PartsOK
  <2>3. \A i \in Posters : Settled(i)'
    <3> TAKE i \in Posters
    <3>1. CASE i = g
      BY <2>2, <3>1 DEF Settled
    <3>2. CASE i # g
      <4>1. waiters'[i] = waiters[i] /\ sent'[i] = sent[i] /\ PartsOK
        BY <2>2, <3>2 DEF SharedInv
      <4> QED
        BY <4>1, SettledStays DEF Settled
    <3> QED
      BY <3>1, <3>2
  <2>4. pc'[g] # "idle"
    BY <1>1 DEF CallersOK
  <2>5. \A i \in Posters : pc'[i] = "idle" \/ i = group' => sent'[i] = <<>>
    BY <1>1, <1>2, <2>2, <2>4, Names DEF SharedInv, PartsOK
  <2>6. \A i \in Posters : pc'[i] # "done" => answer'[i] = "none"
    BY DEF AnswersKept, SharedInv, PartsOK
  <2> QED
    BY <2>2, <2>3, <2>5, <2>6 DEF PartsOK
<1> QED
  BY <1>4, <1>5, <1>6, <1>7, <1>8 DEF SharedInv

LEMMA PostShared ==
  ASSUME IInv, SharedInv, IInv', NEW r \in Posters, Post(r) PROVE SharedInv'
<1>1. r \in Requests /\ r \in Jobs /\ r \notin Keys /\ r \notin Getters /\ r # NoJob
  BY Names
<1>2. /\ pc' = [pc EXCEPT ![r] = "waiting"] /\ pc[r] = "idle"
      /\ UNCHANGED <<answer, inFlight, aborted, sleeping, attempt>>
  BY DEF Post, Arrives
<1>3. \A q \in Requests : pc'[q] = IF q = r THEN "waiting" ELSE pc[q]
  BY <1>2 DEF IInv, CallersOK
<1>4. AnswersKept
  BY <1>2, <1>3, Names DEF AnswersKept
<1>5. CASE OpenGroup(r)
  <2>1. /\ group = NoJob /\ group' = r /\ waiters' = [waiters EXCEPT ![r] = <<r>>]
        /\ UNCHANGED <<sent, live, sched>>
    BY <1>5 DEF OpenGroup, NoNewJob
  <2>2. \A i \in Jobs : waiters'[i] = IF i = r THEN <<r>> ELSE waiters[i]
    BY <1>1, <2>1 DEF IInv, CallersOK
  <2>3. \A i \in Jobs : Attached(i)' = IF i = r THEN {r} ELSE Attached(i)
    <3>1. ToSet(<<r>>) = {r}
      BY DEF ToSet
    <3> QED
      BY <2>2, <3>1, AttachedIs
  <2>4. r \notin live /\ r \notin aborted /\ sent[r] = <<>>
    <3>1. r \notin Places(sched) \cup sleeping
      BY <1>1, <1>2 DEF IInv, JobsOK
    <3> QED
      BY <1>1, <1>2, <3>1 DEF SharedInv, PlacesOK, CallsOK, PartsOK
  <2>5. KindsOK'
    BY <1>1, <2>3, Names DEF SharedInv, KindsOK
  <2>6. PlacesOK'
    BY <1>2, <2>1 DEF SharedInv, PlacesOK
  <2>7. CallsOK'
    <3>1. live \subseteq Jobs
      BY DEF IInv, JobsOK
    <3> QED
      BY <1>1, <1>2, <1>3, <2>1, <2>3, <2>4, <3>1, Names DEF SharedInv, CallsOK
  <2>8. EntriesOK'
    <3>1. \A k \in Keys : inFlight[k] # NoJob => inFlight[k] \in Jobs
      BY Names DEF IInv, CallersOK
    <3> QED
      BY <1>2, <2>1, <2>3, <3>1 DEF SharedInv, EntriesOK
  <2>9. PartsOK'
    <3>1. \A g \in Posters : waiters'[g] = waiters[g] \/ sent[g] = <<>>
      BY <2>2, <2>4, Names
    <3>2. PartsOK
      BY DEF SharedInv
    <3> QED
      BY <1>2, <1>3, <1>4, <2>1, <3>1, <3>2, PartsStay, Names
  <2> QED
    BY <2>5, <2>6, <2>7, <2>8, <2>9 DEF SharedInv
<1>6. CASE JoinGroup(r)
  <2>1. PICK g \in Posters : g = group
    BY <1>6 DEF JoinGroup, IInv, CallersOK
  <2>2. g \in Jobs /\ g \in Requests /\ g \notin Getters /\ g # NoJob /\ pc[g] # "idle"
    BY <2>1, Names DEF IInv, CallersOK
  <2>3. waiters' = [waiters EXCEPT ![g] = Append(@, r)] /\ group' \in {g, NoJob}
    BY <1>6, <2>1 DEF JoinGroup, DispatchGroup, batching
  <2>4. \A i \in Jobs : waiters'[i] = IF i = g THEN Append(waiters[g], r) ELSE waiters[i]
    BY <2>2, <2>3 DEF IInv, CallersOK
  <2>5. \A i \in Jobs : Attached(i)' = IF i = g THEN Attached(i) \cup {r} ELSE Attached(i)
    <3>1. CallersOK /\ group \in Posters \cup {NoJob} /\ group' \in {group, NoJob, r}
      BY <2>1, <2>3 DEF IInv
    <3>2. /\ inFlight' \in [Keys -> Getters \cup {NoJob}] /\ group' \in Posters \cup {NoJob}
          /\ \A k \in Keys : inFlight'[k] \in {inFlight[k], NoJob, r}
      BY <1>2, <2>3, <3>1 DEF CallersOK
    <3> QED
      BY <1>1, <1>2, <2>2, <2>3, <3>1, <3>2, AppendCaller
  <2>6. Attached(g)' \subseteq Posters
    BY <2>2, <2>5 DEF SharedInv, KindsOK
  <2>7. \A i \in Posters : i = g \/ waiters'[i] = waiters[i]
    BY <2>4, Names
  <2>8. CASE DispatchGroup(g, waiters'[g])
    <3>1. CallersOK' /\ UNCHANGED <<inFlight, aborted, sleeping, attempt>>
      BY <1>2 DEF IInv
    <3>2. \A q \in Requests : pc'[q] = "idle" => pc[q] = "idle"
      BY <1>3
    <3>3. Attached(g)' # {}
      BY <2>2, <2>5
    <3>4. \A i \in Jobs : i # g => Attached(i)' = Attached(i)
      BY <2>5
    <3> QED
      BY <1>4, <2>1, <2>6, <2>7, <2>8, <3>1, <3>2, <3>3, <3>4, DispatchShared
  <2>9. CASE UNCHANGED <<group, sent, live, sched>>
    <3>1. KindsOK'
      BY <1>1, <2>5, <2>6, Names DEF SharedInv, KindsOK
    <3>2. PlacesOK'
      BY <1>2, <2>9 DEF SharedInv, PlacesOK
    <3>3. CallsOK'
      <4>1. live \subseteq Jobs
        BY DEF IInv, JobsOK
      <4> QED
        BY <1>2, <1>3, <2>1, <2>2, <2>5, <2>9, <4>1 DEF SharedInv, CallsOK
    <3>4. EntriesOK'
      <4>1. \A k \in Keys : inFlight[k] # NoJob => inFlight[k] \in Jobs
        BY Names DEF IInv, CallersOK
      <4> QED
        BY <1>2, <2>5, <2>9, <4>1 DEF SharedInv, EntriesOK
    <3>5. PartsOK'
      <4>1. PartsOK /\ sent[g] = <<>>
        BY <2>1 DEF SharedInv, PartsOK
      <4> QED
        BY <1>2, <1>3, <1>4, <2>7, <2>9, <4>1, PartsStay, Names
    <3> QED
      BY <3>1, <3>2, <3>3, <3>4, <3>5 DEF SharedInv
  <2> QED
    BY <1>6, <2>1, <2>8, <2>9 DEF JoinGroup, batching, NoNewJob
<1> QED
  BY <1>5, <1>6 DEF Post

LEMMA BatchWindowShared ==
  ASSUME IInv, SharedInv, IInv', BatchWindow PROVE SharedInv'
<1>1. PICK g \in Posters : g = group
  BY DEF BatchWindow, IInv, CallersOK
<1>2. /\ DispatchGroup(g, waiters'[g])
      /\ UNCHANGED <<pc, answer, inFlight, waiters, aborted, sleeping, attempt>>
  BY <1>1 DEF BatchWindow, callers
<1>3. AnswersKept
  BY <1>2 DEF AnswersKept
<1>4. \A i \in Jobs : Attached(i)' = Attached(i)
  BY <1>2 DEF Attached
<1> QED
  <2>1. /\ CallersOK' /\ \A q \in Requests : pc'[q] = "idle" => pc[q] = "idle"
        /\ \A i \in Posters : i = g \/ waiters'[i] = waiters[i]
        /\ UNCHANGED <<inFlight, aborted, sleeping, attempt>>
    BY <1>2 DEF IInv
  <2>2. \A i \in Jobs : i # g => Attached(i)' = Attached(i)
    BY <1>4
  <2>3. Attached(g)' # {} /\ Attached(g)' \subseteq Posters
    BY <1>1, <1>4, Names DEF SharedInv, CallsOK, KindsOK
  <2> QED
    BY <1>1, <1>2, <1>3, <2>1, <2>2, <2>3, DispatchShared

\* A live job ends that has left its place: its callers are told, each its own
\* part if nobody left since the dispatch.
LEMMA EndJobParts ==
  ASSUME IInv, SharedInv, NEW j \in Jobs, NEW outcome, EndJob(j, outcome) PROVE PartsOK'
<1>1. /\ waiters' = [waiters EXCEPT ![j] = <<>>] /\ group' = group /\ sent' = sent
      /\ pc' = [r \in Requests |-> IF r \in Attached(j) THEN "done" ELSE pc[r]]
      /\ answer' = [r \in Posters |-> IF r \in Attached(j)
                      THEN [x \in Attached(j) |->
                              IF outcome = "ok" THEN Part(j, x) ELSE "failed"][r]
                      ELSE answer[r]]
  BY DEF EndJob, Told, batching
<1>2. \A q \in Requests : q \in Attached(j) => pc[q] = "waiting"
  BY DEF IInv, CallersOK
<1>3. AnswersKept
  BY <1>1, <1>2, Names DEF AnswersKept
<1>4. PartsOK
  BY DEF SharedInv
<1>5. ASSUME NEW g \in Posters, g = j, waiters[g] = sent[g] PROVE Settled(g)'
  <2> SUFFICES ASSUME NEW q \in ToSet(sent[g])
               PROVE  pc'[q] = "done" /\ answer'[q] \in {q, "failed"}
    BY <1>1 DEF Settled
  <2>1. sent[g] \in Seq(Posters) /\ q \in Posters /\ q \in Attached(j)
    BY <1>4, <1>5, AttachedIs DEF PartsOK, ToSet
  <2>2. pc'[q] = "done" /\ answer'[q] = IF outcome = "ok" THEN Part(j, q) ELSE "failed"
    BY <1>1, <2>1, Names
  <2>3. sent[j][IndexOf(j, q)] = q
    <3>1. \E i \in 1..Len(waiters[j]) : waiters[j][i] = q
      BY <2>1, AttachedIs DEF ToSet
    <3>2. waiters[j][IndexOf(j, q)] = q
      BY <3>1 DEF IndexOf
    <3> QED
      BY <1>5, <3>2
  <2>4. Part(j, q) = q
    BY <1>5, <2>3 DEF Part
  <2> QED
    BY <2>2, <2>4
<1>6. \A g \in Posters : waiters'[g] = waiters[g] \/ Settled(g)'
  <2> TAKE g \in Posters
  <2>1. CASE g = j
    <3>1. sent'[g] = sent[g]
      BY <1>1
    <3> QED
      BY <1>3, <1>4, <1>5, <2>1, <3>1, SettledStays
  <2>2. CASE g # j
    BY <1>1, <2>2, Names DEF IInv, CallersOK
  <2> QED
    BY <2>1, <2>2
<1>7. \A q \in Posters : pc'[q] = "idle" => pc[q] = "idle"
  BY <1>1, Names
<1> QED
  BY <1>1, <1>3, <1>4, <1>6, <1>7, PartsStay

LEMMA EndJobShared ==
  ASSUME IInv, SharedInv, NEW j \in live, NEW outcome, EndJob(j, outcome),
         Places(sched') = Places(sched) \ {j}, QueuedJobs(sched') \subseteq QueuedJobs(sched)
  PROVE  SharedInv'
<1>1. /\ live' = live \ {j} /\ sleeping' = sleeping \ {j}
      /\ attempt' = [attempt EXCEPT ![j] = 0] /\ UNCHANGED <<group, sent, aborted>>
      /\ inFlight' = IF j \notin Getters THEN inFlight
                                         ELSE [inFlight EXCEPT ![KeyOf[j]] = NoJob]
      /\ pc' = [r \in Requests |-> IF r \in Attached(j) THEN "done" ELSE pc[r]]
  BY DEF EndJob, EntryGone, Told, batching
<1>2. j \in Jobs /\ live \subseteq Jobs
  BY DEF IInv, JobsOK
<1>3. \A i \in Jobs : Attached(i)' = IF i = j THEN {} ELSE Attached(i)
  BY <1>2, EndJobCallers DEF IInv
<1>4. KindsOK'
  BY <1>3, Names DEF SharedInv, KindsOK
<1>5. PlacesOK'
  <2>1. QueuedJobs(sched') \subseteq Places(sched')
    BY DEF Places
  <2>2. attempt' \in [Jobs -> 0..MaxRetries] /\ \A i \in Jobs : i # j => attempt'[i] = attempt[i]
    <3>1. attempt \in [Jobs -> 0..MaxRetries] /\ 0 \in 0..MaxRetries
      BY LifecycleAssumption DEF SharedInv, PlacesOK
    <3> QED
      BY <1>1, <3>1
  <2>3. sleeping \subseteq Jobs
    BY DEF IInv, JobsOK
  <2> QED
    BY <1>1, <2>1, <2>2, <2>3 DEF SharedInv, PlacesOK
<1>6. CallsOK'
  <2>1. group # NoJob => group \in Jobs /\ group \in Requests
    BY Names DEF IInv, CallersOK
  <2>2. group # NoJob => group # j
    BY <2>1 DEF IInv, JobsOK, SharedInv, PlacesOK
  <2>3. \A q \in Requests : pc'[q] = "idle" => pc[q] = "idle"
    BY <1>1
  <2> QED
    BY <1>1, <1>2, <1>3, <2>1, <2>2, <2>3 DEF SharedInv, CallsOK
<1>7. EntriesOK'
  <2>1. \A k \in Keys : inFlight[k] # NoJob => inFlight[k] \in Jobs
    BY Names DEF IInv, CallersOK
  <2>2. \A k \in Keys : inFlight'[k] = inFlight[k] \/ inFlight'[k] = NoJob
    BY <1>1, Names DEF IInv, CallersOK
  <2>3. \A k \in Keys : j \in Getters /\ KeyOf[j] = k => inFlight'[k] = NoJob
    BY <1>1 DEF IInv, CallersOK
  <2>4. \A k \in Keys : ~(j \in Getters /\ KeyOf[j] = k) => inFlight'[k] = inFlight[k]
    BY <1>1, Names DEF IInv, CallersOK
  <2>5. \A k \in Keys : inFlight'[k] # NoJob =>
           Attached(inFlight[k])' # {} /\ KeyOf[inFlight'[k]] = k
    <3> SUFFICES ASSUME NEW k \in Keys, inFlight'[k] # NoJob
                 PROVE  Attached(inFlight[k])' # {} /\ KeyOf[inFlight'[k]] = k
      OBVIOUS
    <3>1. PICK i \in Getters : i = inFlight[k]
      BY <2>2 DEF IInv, CallersOK
    <3>2. inFlight'[k] = i /\ Attached(i) # {} /\ KeyOf[i] = k /\ i \in Jobs
      BY <2>1, <2>2, <3>1 DEF SharedInv, EntriesOK
    <3>3. i # j
      BY <2>3, <3>1, <3>2
    <3>4. Attached(i)' # {}
      BY <1>3, <3>2, <3>3
    <3> QED
      BY <3>2, <3>4 DEF Attached
  <2>6. ASSUME aborted' \cap Getters = {}, NEW i \in live' \cap Getters
        PROVE  inFlight'[KeyOf[i]] = i
    <3>1. i # j /\ inFlight[KeyOf[i]] = i /\ KeyOf[i] \in Keys
      BY <1>1, <2>6, Names DEF SharedInv, EntriesOK
    <3>2. j \in Getters => inFlight[KeyOf[j]] = j
      BY <1>1, <2>6 DEF SharedInv, EntriesOK
    <3> QED
      BY <2>4, <3>1, <3>2
  <2> QED
    BY <2>5, <2>6 DEF EntriesOK
<1>8. PartsOK'
  BY <1>2, EndJobParts
<1> QED
  BY <1>4, <1>5, <1>6, <1>7, <1>8 DEF SharedInv

\* Nobody is told anything and nobody's job changes: only places do.
LEMMA OnlyPlaces ==
  ASSUME IInv, SharedInv, PlacesOK',
         UNCHANGED <<pc, answer, inFlight, waiters, group, sent, live, aborted>>
  PROVE  SharedInv'
<1>1. \A j \in Jobs : Attached(j)' = Attached(j)
  BY DEF Attached
<1>2. KindsOK'
  BY <1>1, Names DEF SharedInv, KindsOK
<1>3. CallsOK'
  <2>1. group # NoJob => group \in Jobs
    BY Names DEF IInv, CallersOK
  <2>2. live \subseteq Jobs
    BY DEF IInv, JobsOK
  <2> QED
    BY <1>1, <2>1, <2>2 DEF SharedInv, CallsOK
<1>4. EntriesOK'
  BY DEF SharedInv, EntriesOK, Attached
<1>5. PartsOK'
  BY DEF SharedInv, PartsOK, Settled
<1> QED
  BY <1>2, <1>3, <1>4, <1>5 DEF SharedInv

LEMMA AttemptFailsShared ==
  ASSUME IInv, SharedInv, NEW j \in live, j \in Places(sched), AttemptFails(j),
         Places(sched') = Places(sched) \ {j}, QueuedJobs(sched') \subseteq QueuedJobs(sched)
  PROVE  SharedInv'
<1>1. CASE Retried(j)
  <2>1. /\ sleeping' = sleeping \cup {j}
        /\ UNCHANGED <<pc, answer, inFlight, waiters, group, sent, live, aborted, attempt>>
    BY <1>1 DEF AttemptFails, callers, batching
  <2>2. attempt[j] < MaxRetries
    BY <1>1 DEF Retried
  <2>3. PlacesOK'
    BY <2>1, <2>2 DEF SharedInv, PlacesOK
  <2> QED
    BY <2>1, <2>3, OnlyPlaces
<1>2. CASE ~Retried(j)
  BY <1>2, EndJobShared DEF AttemptFails
<1> QED
  BY <1>1, <1>2

LEMMA WireAnswersShared ==
  ASSUME IInv, SharedInv, NEW j \in Jobs, NEW outcome, WireAnswers(j, outcome)
  PROVE  SharedInv'
<1>1. j \in sched.wire /\ j \in Places(sched) /\ sched' = OnComplete(sched, j)
  BY DEF WireAnswers, Places
<1>2. /\ Places(sched') = Places(sched) \ {j}
      /\ QueuedJobs(sched') \subseteq QueuedJobs(sched)
  BY <1>1, OnCompleteInv DEF IInv
<1>3. CASE j \notin live
  <2>1. UNCHANGED <<pc, answer, inFlight, waiters, group, sent, live, aborted, sleeping, attempt>>
    BY <1>3 DEF WireAnswers, callers, batching
  <2>2. PlacesOK'
    BY <1>2, <1>3, <2>1 DEF SharedInv, PlacesOK
  <2> QED
    BY <2>1, <2>2, OnlyPlaces
<1>4. CASE j \in live /\ outcome = "retryable"
  BY <1>1, <1>2, <1>4, AttemptFailsShared DEF WireAnswers
<1>5. CASE j \in live /\ outcome # "retryable"
  BY <1>2, <1>5, EndJobShared DEF WireAnswers
<1> QED
  BY <1>3, <1>4, <1>5

LEMMA QueueTimeoutShared ==
  ASSUME IInv, SharedInv, NEW j \in Jobs, QueueTimeout(j) PROVE SharedInv'
<1>1. /\ j \in QueuedJobs(sched) /\ j \in Places(sched) /\ j \notin sched.wire /\ j \in live
      /\ sched' = Drop(sched, j)
  BY DEF QueueTimeout, Places, IInv, SchedInv, SharedInv, PlacesOK
<1>2. /\ QueuedJobs(sched') = QueuedJobs(sched) \ {j} /\ sched'.wire = sched.wire
  BY <1>1, DropInv DEF IInv
<1>3. /\ Places(sched') = Places(sched) \ {j}
      /\ QueuedJobs(sched') \subseteq QueuedJobs(sched)
  BY <1>1, <1>2 DEF Places
<1> QED
  BY <1>1, <1>3, AttemptFailsShared DEF QueueTimeout

LEMMA WakeShared == ASSUME IInv, SharedInv, NEW j \in Jobs, Wake(j) PROVE SharedInv'
<1>1. j \in sleeping /\ j \notin Places(sched) /\ j \in live
  BY DEF Wake, IInv, JobsOK, SharedInv, PlacesOK
<1>2. CASE EndJob(j, "failed") /\ UNCHANGED sched
  BY <1>1, <1>2, EndJobShared
<1>3. CASE /\ sleeping' = sleeping \ {j}
           /\ attempt' = [attempt EXCEPT ![j] = @ + 1]
           /\ sched' = Register(sched, j, PriorityOf(j, attempt[j] + 1))
           /\ UNCHANGED <<callers, inFlight, waiters, batching, live, aborted, cache>>
  <2>1. attempt[j] \in 0..MaxRetries /\ attempt[j] < MaxRetries /\ MaxRetries \in Nat
    BY <1>1, LifecycleAssumption DEF SharedInv, PlacesOK
  <2>2. PriorityOf(j, attempt[j] + 1) \in Nat
    BY <2>1, PriorityType
  <2>3. /\ Places(sched') = Places(sched) \cup {j}
        /\ QueuedJobs(sched') \subseteq QueuedJobs(sched) \cup {j}
    BY <1>1, <1>3, <2>2, RegisterInv DEF IInv
  <2>4. UNCHANGED <<pc, answer, inFlight, waiters, group, sent, live, aborted>>
    BY <1>3 DEF callers, batching
  <2>5. /\ attempt' \in [Jobs -> 0..MaxRetries]
        /\ \A i \in Jobs : i # j => attempt'[i] = attempt[i]
    BY <1>3, <2>1 DEF SharedInv, PlacesOK
  <2>6. sleeping \subseteq Jobs
    BY DEF IInv, JobsOK
  <2>7. PlacesOK'
    BY <1>1, <1>3, <2>3, <2>4, <2>5, <2>6 DEF SharedInv, PlacesOK
  <2> QED
    BY <2>4, <2>7, OnlyPlaces
<1> QED
  BY <1>2, <1>3 DEF Wake

\* A caller is told that it was interrupted.
LEMMA DetachParts ==
  ASSUME IInv, SharedInv, NEW r \in Requests, NEW j \in Requests, pc[r] = "waiting",
         Detach(r, j), r \in Attached(j), group' \in {group, NoJob}
  PROVE  PartsOK'
<1>1. /\ waiters' = [waiters EXCEPT ![j] = RemoveFirst(@, r)] /\ sent' = sent
      /\ pc' = [q \in Requests |-> IF q \in {r} THEN "done" ELSE pc[q]]
      /\ answer' = [q \in Posters |-> IF q \in {r} THEN [x \in {r} |-> "interrupted"][q]
                                                   ELSE answer[q]]
  BY DEF Detach, Told
<1>2. AnswersKept
  BY <1>1, Names DEF AnswersKept
<1>3. PartsOK
  BY DEF SharedInv
<1>4. \A g \in Posters : waiters'[g] = waiters[g] \/ Settled(g)'
  <2> TAKE g \in Posters
  <2>1. CASE g # j
    BY <1>1, <2>1, Names DEF IInv, CallersOK
  <2>2. CASE g = j
    <3>1. r \in Posters
      BY <2>2 DEF SharedInv, KindsOK
    <3>2. pc'[r] = "done" /\ answer'[r] = "interrupted"
      BY <1>1, <3>1
    <3>3. waiters[g] = sent[g] => r \in ToSet(sent[g])
      BY <2>2, AttachedIs, Names
    <3>4. waiters[g] = sent[g] => Settled(g)'
      BY <1>1, <3>2, <3>3 DEF Settled
    <3>5. sent'[g] = sent[g]
      BY <1>1
    <3> QED
      BY <1>2, <1>3, <3>4, <3>5, SettledStays
  <2> QED
    BY <2>1, <2>2
<1>5. \A q \in Posters : pc'[q] = "idle" => pc[q] = "idle"
  BY <1>1, Names
<1> QED
  BY <1>1, <1>2, <1>3, <1>4, <1>5, PartsStay

\* A caller leaves others behind, or the open group empty.
LEMMA LeaveShared ==
  ASSUME IInv, SharedInv, NEW r \in Requests, NEW j \in Requests,
         Stays, UNCHANGED inFlight, PartsOK',
         \A q \in Requests : pc'[q] = "idle" => pc[q] = "idle",
         \A i \in Jobs : Attached(i)' = IF i = j THEN Attached(i) \ {r} ELSE Attached(i),
         \/ group' = group /\ Attached(j)' # {}
         \/ group = j /\ group' = NoJob /\ j \in Posters /\ Attached(j)' = {}
  PROVE  SharedInv'
<1>1. /\ UNCHANGED <<aborted, live, sleeping, attempt, sched, inFlight>>
      /\ live \subseteq Jobs /\ j \in Jobs
  BY Names DEF Stays, IInv, JobsOK
<1>2. KindsOK'
  BY Names DEF SharedInv, KindsOK
<1>3. PlacesOK'
  BY <1>1 DEF SharedInv, PlacesOK
<1>4. CASE group' = group /\ Attached(j)' # {}
  <2>1. group # NoJob => group \in Jobs
    BY Names DEF IInv, CallersOK
  <2>2. \A i \in Jobs : Attached(i)' = {} <=> Attached(i) = {}
    BY <1>1, <1>4
  <2>3. CallsOK'
    BY <1>1, <1>4, <2>1, <2>2 DEF SharedInv, CallsOK
  <2>4. EntriesOK'
    <3>1. \A k \in Keys : inFlight[k] # NoJob => inFlight[k] \in Jobs
      BY Names DEF IInv, CallersOK
    <3> QED
      BY <1>1, <2>2, <3>1 DEF SharedInv, EntriesOK
  <2> QED
    BY <1>2, <1>3, <2>3, <2>4 DEF SharedInv
<1>5. CASE group = j /\ group' = NoJob /\ j \in Posters /\ Attached(j)' = {}
  <2>1. j \notin live
    BY <1>5 DEF SharedInv, PlacesOK, IInv, JobsOK
  <2>2. CallsOK'
    BY <1>1, <1>5, <2>1 DEF SharedInv, CallsOK
  <2>3. EntriesOK'
    <3>1. \A k \in Keys : inFlight[k] # NoJob => inFlight[k] \in Jobs /\ inFlight[k] # j
      BY <1>5, Names DEF IInv, CallersOK
    <3> QED
      BY <1>1, <3>1 DEF SharedInv, EntriesOK
  <2> QED
    BY <1>2, <1>3, <2>2, <2>3 DEF SharedInv
<1> QED
  BY <1>4, <1>5

\* The last caller of a job leaves and gives the job up.
LEMMA AbandonPlaces ==
  ASSUME IInv, SharedInv, NEW r, NEW j \in live, Abandon(r, j)
  PROVE  PlacesOK' /\ live' \subseteq live /\ live \ {j} \subseteq live'
<1>1. CASE LeftToTheWire
  BY <1>1 DEF LeftToTheWire, SharedInv, PlacesOK
<1>2. CASE EndsByListener(j) \/ (j \notin sched.heard /\ EndsByCanceler(j))
  <2>1. /\ live' = live \ {j} /\ sleeping' = sleeping \ {j}
        /\ attempt' = [attempt EXCEPT ![j] = 0]
    BY <1>2 DEF EndsByListener, EndsByCanceler, Ends
  <2>2. j \notin QueuedJobs(sched') /\ QueuedJobs(sched') \subseteq QueuedJobs(sched)
        /\ Places(sched) \ {j} \subseteq Places(sched')
        /\ Places(sched') \subseteq Places(sched)
    <3>1. CASE EndsByListener(j)
      <4>1. sched' = Drop(sched, j) /\ SchedInv(sched)
        BY <3>1 DEF EndsByListener, IInv
      <4>2. QueuedJobs(sched') = QueuedJobs(sched) \ {j} /\ sched'.wire = sched.wire
        BY <4>1, DropInv
      <4> QED
        BY <4>2 DEF Places
    <3>2. CASE j \notin sched.heard /\ EndsByCanceler(j)
      <4>1. j \notin QueuedJobs(sched)
        BY <3>2 DEF IInv, SchedInv
      <4>2. CASE j \in sched.wire
        <5>1. sched' = OnComplete(sched, j) /\ SchedInv(sched)
          BY <3>2, <4>2 DEF EndsByCanceler, IInv
        <5>2. /\ Places(sched') = Places(sched) \ {j}
              /\ QueuedJobs(sched') \subseteq QueuedJobs(sched)
          BY <4>2, <5>1, OnCompleteInv
        <5> QED
          BY <4>1, <5>2
      <4>3. CASE j \notin sched.wire
        <5>1. sched' = sched
          BY <3>2, <4>3 DEF EndsByCanceler
        <5> QED
          BY <4>1, <5>1
      <4> QED
        BY <4>2, <4>3
    <3> QED
      BY <1>2, <3>1, <3>2
  <2>3. attempt' \in [Jobs -> 0..MaxRetries] /\ \A i \in Jobs : i # j => attempt'[i] = attempt[i]
    <3>1. attempt \in [Jobs -> 0..MaxRetries] /\ 0 \in 0..MaxRetries
      BY LifecycleAssumption DEF SharedInv, PlacesOK
    <3> QED
      BY <2>1, <3>1
  <2>4. sleeping \subseteq Jobs
    BY DEF IInv, JobsOK
  <2>5. PlacesOK'
    BY <2>1, <2>2, <2>3, <2>4 DEF SharedInv, PlacesOK
  <2> QED
    BY <2>1, <2>5
<1> QED
  BY <1>1, <1>2 DEF Abandon

LEMMA AbandonCalls ==
  ASSUME IInv, SharedInv, NEW r \in Requests, NEW j \in Requests, j # group, group' = group,
         Attached(j) = {r}, Abandon(r, j), PlacesOK',
         live' \subseteq live, live \ {j} \subseteq live',
         \A q \in Requests : pc'[q] = "idle" => pc[q] = "idle",
         \A i \in Jobs : Attached(i)' = IF i = j THEN Attached(i) \ {r} ELSE Attached(i)
  PROVE  CallsOK' /\ KindsOK'
<1>1. aborted' = aborted \cup {j} /\ j \in Jobs /\ live \subseteq Jobs
  BY Names DEF Abandon, IInv, JobsOK
<1>2. pc[j] # "idle" /\ Attached(j)' = {}
  BY <1>1 DEF IInv, CallersOK
<1>3. group # NoJob => group \in Jobs
  BY Names DEF IInv, CallersOK
<1>4. CallsOK'
  BY <1>1, <1>2, <1>3 DEF SharedInv, CallsOK
<1>5. KindsOK'
  BY Names DEF SharedInv, KindsOK
<1> QED
  BY <1>4, <1>5

LEMMA CancelGetShared ==
  ASSUME IInv, SharedInv, NEW r \in Requests, CancelGet(r) PROVE SharedInv'
<1>1. PICK j \in Jobs : j = JobOf(r) /\ r \in Attached(j)
  BY DEF CancelGet, IInv, CallersOK, JobOf
<1>2. /\ pc[r] = "waiting" /\ r \in Getters /\ group' = group /\ Detach(r, j)
      /\ IF Attached(j) = {r} THEN EntryGone(j) /\ Abandon(r, j)
                              ELSE UNCHANGED inFlight /\ Stays
  BY <1>1 DEF CancelGet
<1>3. j \in Getters /\ j \in Requests /\ j \notin Posters /\ j \notin Keys /\ j # NoJob
  BY <1>1, <1>2, Names DEF SharedInv, KindsOK, IInv, CallersOK
<1>4. j # group
  BY <1>3, Names DEF IInv, CallersOK
<1>5. \A i \in Jobs : Attached(i)' = IF i = j THEN Attached(i) \ {r} ELSE Attached(i)
  <2>1. CallersOK /\ Detach(r, JobOf(r)) /\ group' \in {group, NoJob}
    BY <1>1, <1>2 DEF IInv
  <2>2. /\ inFlight' \in [Keys -> Getters \cup {NoJob}]
        /\ \A k \in Keys : inFlight'[k] \in {inFlight[k], NoJob}
    BY <1>2, <1>3, Names DEF EntryGone, IInv, CallersOK
  <2> QED
    BY <1>1, <1>2, <2>1, <2>2, DetachCaller
<1>6. PartsOK'
  BY <1>1, <1>2, <1>3, DetachParts
<1>7. \A q \in Requests : pc'[q] = "idle" => pc[q] = "idle"
  BY <1>2 DEF Detach, Told
<1>8. CASE Attached(j) # {r}
  <2>1. Attached(j)' # {}
    BY <1>1, <1>5, <1>8
  <2> QED
    BY <1>2, <1>3, <1>5, <1>6, <1>7, <1>8, <2>1, LeaveShared
<1>9. CASE Attached(j) = {r}
  <2>1. EntryGone(j) /\ Abandon(r, j) /\ aborted' = aborted \cup {j}
    BY <1>2, <1>9 DEF Abandon
  <2>2. j \in live
    BY <1>1, <1>4 DEF SharedInv, CallsOK
  <2>3. PlacesOK' /\ live' \subseteq live /\ live \ {j} \subseteq live'
    BY <2>1, <2>2, AbandonPlaces
  <2>4. CallsOK' /\ KindsOK'
    BY <1>2, <1>3, <1>4, <1>5, <1>7, <1>9, <2>1, <2>3, AbandonCalls
  <2>5. EntriesOK'
    <3>1. inFlight' = [inFlight EXCEPT ![KeyOf[j]] = NoJob]
      BY <1>3, <2>1 DEF EntryGone
    <3>2. \A k \in Keys : inFlight'[k] = IF k = KeyOf[j] THEN NoJob ELSE inFlight[k]
      BY <3>1 DEF IInv, CallersOK
    <3>3. \A k \in Keys : inFlight'[k] # NoJob =>
             Attached(inFlight[k])' # {} /\ KeyOf[inFlight'[k]] = k
      <4> SUFFICES ASSUME NEW k \in Keys, inFlight'[k] # NoJob
                   PROVE  Attached(inFlight[k])' # {} /\ KeyOf[inFlight'[k]] = k
        OBVIOUS
      <4>1. PICK i \in Getters : i = inFlight[k] /\ i = inFlight'[k] /\ k # KeyOf[j]
        BY <3>2 DEF IInv, CallersOK
      <4>2. Attached(i) # {} /\ KeyOf[i] = k /\ i \in Jobs /\ i # NoJob
        BY <4>1, Names DEF SharedInv, EntriesOK
      <4>3. Attached(i)' # {}
        BY <1>5, <4>1, <4>2
      <4> QED
        BY <4>1, <4>2, <4>3 DEF Attached
    <3> QED
      BY <1>3, <2>1, <3>3 DEF EntriesOK
  <2> QED
    BY <1>6, <2>3, <2>4, <2>5 DEF SharedInv
<1> QED
  BY <1>8, <1>9

LEMMA CancelPostShared ==
  ASSUME IInv, SharedInv, NEW r \in Requests, CancelPost(r) PROVE SharedInv'
<1>1. PICK j \in Jobs : j = JobOf(r) /\ r \in Attached(j)
  BY DEF CancelPost, IInv, CallersOK, JobOf
<1>2. /\ pc[r] = "waiting" /\ r \in Posters /\ inFlight' = inFlight /\ Detach(r, j)
      /\ \/ Attached(j) # {r} /\ Stays /\ group' = group
         \/ Attached(j) = {r} /\ group = j /\ Stays /\ group' = NoJob
         \/ Attached(j) = {r} /\ group # j /\ Abandon(r, j) /\ group' = group
  BY <1>1 DEF CancelPost
<1>3. j \in Posters /\ j \in Requests /\ j \notin Getters /\ j \notin Keys
  BY <1>1, <1>2, Names DEF SharedInv, KindsOK, IInv, CallersOK
<1>5. \A i \in Jobs : Attached(i)' = IF i = j THEN Attached(i) \ {r} ELSE Attached(i)
  <2>1. CallersOK /\ Detach(r, JobOf(r)) /\ group' \in {group, NoJob}
    BY <1>1, <1>2 DEF IInv
  <2>2. /\ inFlight' \in [Keys -> Getters \cup {NoJob}]
        /\ \A k \in Keys : inFlight'[k] \in {inFlight[k], NoJob}
    BY <1>2 DEF IInv, CallersOK
  <2> QED
    BY <1>1, <1>2, <2>1, <2>2, DetachCaller
<1>6. PartsOK'
  BY <1>1, <1>2, <1>3, DetachParts
<1>7. \A q \in Requests : pc'[q] = "idle" => pc[q] = "idle"
  BY <1>2 DEF Detach, Told
<1>8. CASE Attached(j) # {r} /\ Stays /\ group' = group
  <2>1. Attached(j)' # {}
    BY <1>1, <1>5, <1>8
  <2> QED
    BY <1>2, <1>3, <1>5, <1>6, <1>7, <1>8, <2>1, LeaveShared
<1>9. CASE Attached(j) = {r} /\ group = j /\ Stays /\ group' = NoJob
  <2>1. Attached(j)' = {}
    BY <1>1, <1>5, <1>9
  <2> QED
    BY <1>2, <1>3, <1>5, <1>6, <1>7, <1>9, <2>1, LeaveShared
<1>10. CASE Attached(j) = {r} /\ group # j /\ Abandon(r, j) /\ group' = group
  <2>1. aborted' = aborted \cup {j}
    BY <1>10 DEF Abandon
  <2>2. j \in live
    BY <1>1, <1>10 DEF SharedInv, CallsOK
  <2>3. PlacesOK' /\ live' \subseteq live /\ live \ {j} \subseteq live'
    BY <1>10, <2>2, AbandonPlaces
  <2>4. CallsOK' /\ KindsOK'
    BY <1>3, <1>5, <1>7, <1>10, <2>3, AbandonCalls
  <2>5. EntriesOK'
    <3>1. \A k \in Keys : inFlight[k] # NoJob => inFlight[k] \in Jobs /\ inFlight[k] # j
      BY <1>3, Names DEF IInv, CallersOK
    <3>2. aborted' \cap Getters = aborted \cap Getters
      BY <1>3, <2>1
    <3> QED
      BY <1>2, <1>5, <2>3, <3>1, <3>2 DEF SharedInv, EntriesOK
  <2> QED
    BY <1>6, <2>3, <2>4, <2>5 DEF SharedInv
<1> QED
  BY <1>2, <1>8, <1>9, <1>10

LEMMA StillShared ==
  ASSUME IInv, SharedInv, UNCHANGED <<pc, answer, inFlight, waiters, group, sent, live,
                                      aborted, sleeping, attempt, sched>>
  PROVE  SharedInv'
<1>1. PlacesOK'
  BY DEF SharedInv, PlacesOK
<1>2. UNCHANGED <<pc, answer, inFlight, waiters, group, sent, live, aborted>>
  OBVIOUS
<1> QED
  BY <1>1, <1>2, OnlyPlaces

LEMMA NextShared == ASSUME IInv, SharedInv, [Next]_vars PROVE IInv' /\ SharedInv'
<1>0. IInv'
  BY NextKept DEF Kept
<1>1. ASSUME NEW r \in Getters, Get(r) PROVE SharedInv'
  BY <1>1, JoinShared, AnswerFromCacheShared, FetchShared DEF Get
<1>2. ASSUME NEW r \in Posters, Post(r) PROVE SharedInv'
  BY <1>0, <1>2, PostShared
<1>3. CASE BatchWindow
  BY <1>0, <1>3, BatchWindowShared
<1>4. ASSUME NEW j \in Jobs, NEW o, WireAnswers(j, o) PROVE SharedInv'
  BY <1>4, WireAnswersShared
<1>5. ASSUME NEW j \in Jobs, QueueTimeout(j) \/ Wake(j) PROVE SharedInv'
  BY <1>5, QueueTimeoutShared, WakeShared
<1>6. ASSUME NEW r \in Requests, CancelGet(r) \/ CancelPost(r) PROVE SharedInv'
  BY <1>6, CancelGetShared, CancelPostShared
<1>7. ASSUME NEW k \in Keys, Invalidate(k) \/ Age(k) PROVE SharedInv'
  BY <1>7, StillShared DEF Invalidate, Age, callers, batching
<1>8. CASE UNCHANGED vars
  BY <1>0, <1>8, StillShared DEF vars
<1> QED
  BY <1>0, <1>1, <1>2, <1>3, <1>4, <1>5, <1>6, <1>7, <1>8 DEF Next

\* What the invariants say of the property.
LEMMA WaitsForOne ==
  ASSUME IInv, SharedInv, NEW r \in Requests, pc[r] = "waiting"
  PROVE  /\ Cardinality({j \in Jobs : r \in Attached(j)}) = 1
         /\ JobOf(r) = group \/ (OnItsWay(JobOf(r)) /\ JobOf(r) \notin aborted)
<1>1. PICK j \in Jobs : j = JobOf(r) /\ r \in Attached(j)
  BY DEF IInv, CallersOK, JobOf
<1>2. {i \in Jobs : r \in Attached(i)} = {j}
  BY <1>1 DEF IInv, CallersOK
<1>3. Cardinality({j}) = 1
  BY FS_Singleton
<1>4. CASE j # group
  <2>1. j \in live /\ j \notin aborted
    BY <1>1, <1>4 DEF SharedInv, CallsOK
  <2> DEFINE places == {QueuedJobs(sched), sched.wire, sleeping}
  <2>2. PICK P \in places : j \in P
    BY <2>1 DEF SharedInv, PlacesOK, Places
  <2>3. QueuedJobs(sched) \cap sched.wire = {} /\ sleeping \cap (QueuedJobs(sched) \cup sched.wire) = {}
    BY DEF IInv, SchedInv, JobsOK, Places
  <2>4. \A Q \in places : j \in Q => Q = P
    BY <2>2, <2>3
  <2>5. {p \in places : j \in p} = {P}
    BY <2>2, <2>4
  <2>6. Cardinality({P}) = 1
    BY FS_Singleton
  <2>7. OnItsWay(j)
    BY <2>1, <2>5, <2>6 DEF OnItsWay
  <2> QED
    BY <1>1, <1>2, <1>3, <2>1, <2>7
<1> QED
  BY <1>1, <1>2, <1>3, <1>4

LEMMA OwnPartHolds == IInv /\ SharedInv => OwnPart
<1> SUFFICES ASSUME IInv, SharedInv, NEW r \in Posters, NEW g \in Posters,
                    r \in ToSet(sent[g]), answer[r] \in Posters,
                    \A q \in ToSet(sent[g]) : answer[q] # "interrupted"
             PROVE  answer[r] = r
  BY RangeIsToSet DEF OwnPart
<1>1. Settled(g)
  BY DEF SharedInv, PartsOK
<1>2. sent[g] # <<>>
  BY NobodyAttached
<1>3. CASE waiters[g] = sent[g]
  <2>1. r \in Attached(g) /\ g \in Jobs /\ r \in Requests
    BY <1>3, AttachedIs, Names
  <2>2. pc[r] = "waiting"
    BY <2>1 DEF IInv, CallersOK
  <2>3. answer[r] = "none"
    BY <2>2 DEF SharedInv, PartsOK
  <2> QED
    BY <2>3, LifecycleAssumption
<1>4. CASE \A q \in ToSet(sent[g]) : pc[q] = "done" /\ answer[q] \in {q, "failed"}
  BY <1>4, LifecycleAssumption
<1> QED
  BY <1>1, <1>2, <1>3, <1>4 DEF Settled

LEMMA SharedExactlyHolds == IInv /\ SharedInv => SharedExactly
<1> SUFFICES ASSUME IInv, SharedInv PROVE SharedExactly
  OBVIOUS
<1>1. TypeOK
  <2>1. sched \in Schedulers
    BY DEF IInv, SchedInv
  <2> QED
    BY <2>1 DEF TypeOK, IInv, CallersOK, JobsOK, SharedInv, PlacesOK, CallsOK
<1>2. NobodyOrphaned
  BY WaitsForOne DEF NobodyOrphaned, SharedInv, CallsOK
<1>3. OneFetchPerKey
  BY DEF OneFetchPerKey, SharedInv, EntriesOK
<1>4. OwnPart
  BY OwnPartHolds
<1> QED
  BY <1>1, <1>2, <1>3, <1>4 DEF SharedExactly, DedupExact

-----------------------------------------------------------------------------
(* The theorems *)

(* A slot of the priority scheduler (H/lifecycle/priorityScheduler.ts) is  *)
(* neither lost nor given back twice, whatever cancellations, aborts,      *)
(* queue timeouts, retries and late answers do, and nobody queues while    *)
(* one is free.                                                            *)
THEOREM SlotsExactTheorem == Spec => []SlotsExact
<1>1. Init => IInv
  BY InitIInv
<1>2. IInv /\ [Next]_vars => IInv'
  BY NextKept DEF Kept
<1>3. IInv => SlotsExact
  BY DEF IInv, SchedInv, SlotsExact
<1> QED
  BY <1>1, <1>2, <1>3, PTL DEF Spec

(* A call that reaches the wire is more urgent, or as urgent and older,    *)
(* than each that stays in the queue; no newcomer passes a queued one.     *)
THEOREM MostUrgentFirstTheorem == Spec => MostUrgentFirst
<1> DEFINE A == \A j \in StartsNow : \A f \in sched'.queue :
                  \E e \in sched.queue : e.job = j /\ Before(e, f)
<1>1. Init => IInv
  BY InitIInv
<1>2. IInv /\ [Next]_vars => IInv' /\ [A]_vars
  BY NextKept DEF Kept, Urgent, StartsNow
<1> QED
  BY <1>1, <1>2, PTL DEF Spec, MostUrgentFirst

(* Requests that share a call, by key or in a batch, share it exactly: each *)
(* waits for one job that is on its way and was not aborted, nothing runs   *)
(* for nobody, a key nobody gave up has one fetch, and a caller gets its    *)
(* own part of a response unless a neighbour left after the dispatch        *)
(* (H/lifecycle/dedup.ts, batch.ts).                                        *)
THEOREM SharedExactlyTheorem == Spec => []SharedExactly
<1>1. Init => IInv /\ SharedInv
  BY InitIInv, InitSharedInv
<1>2. IInv /\ SharedInv /\ [Next]_vars => IInv' /\ SharedInv'
  BY NextShared
<1>3. IInv /\ SharedInv => SharedExactly
  BY SharedExactlyHolds
<1> QED
  BY <1>1, <1>2, <1>3, PTL DEF Spec
=============================================================================
