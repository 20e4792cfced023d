--------------------------- MODULE BracketProofs ---------------------------
(***************************************************************************)
(* Machine-checked proofs about Semaphore and Bracket, for every finite    *)
(* set of fibers, every split of their effects and every number of         *)
(* permits: the pool of the semaphore, the bracket that uses it as its own *)
(* specification says, and every open connection accounted for.  Then, by  *)
(* the same argument, about WorkerPool, for every number of tasks, workers *)
(* and places in its queue.                                                *)
(***************************************************************************)
EXTENDS Bracket, WorkerPool, QueueLemmas

-----------------------------------------------------------------------------
(* The semaphore *)

LEMMA InitIInv == Init => IInv
<1> SUFFICES ASSUME Init PROVE IInv
  OBVIOUS
<1> USE DEF Init
<1>1. TypeOK
  BY CapacityAssumption DEF TypeOK, Stages
<1>2. PermitsConserved
  BY CapacityAssumption, FS_EmptySet DEF PermitsConserved
<1>3. QueueIsTheWaiting /\ NoIdlePermit
  BY DEF QueueIsTheWaiting, NoIdlePermit, ToSet, IsInjective
<1>4. HoldersByStage
  BY DEF HoldersByStage, Inside
<1> QED
  BY <1>1, <1>2, <1>3, <1>4 DEF IInv


\* The pool, the queue and the holders after a release, with or without waiters.
LEMMA ReleaseIInv ==
  ASSUME IInv, NEW f \in Fibers, NEW next \in {"released", "done"}, Inside(f),
         Release(f, next), interrupted' = interrupted
  PROVE  IInv'
<1>0. /\ IsFiniteSet(holders) /\ f \in holders /\ pc[f] # "waiting"
      /\ waiters \in Seq(Fibers) /\ IsInjective(waiters)
      /\ pc \in [Fibers -> Stages] /\ next \in Stages /\ "granted" \in Stages
  BY FibersAssumption, FS_Subset
     DEF IInv, TypeOK, HoldersByStage, Inside, QueueIsTheWaiting, Stages
<1>1. CASE waiters # <<>>
  <2> DEFINE w == Head(waiters)
  <2>1. /\ waiters' = Tail(waiters) /\ UNCHANGED available
        /\ pc' = [pc EXCEPT ![f] = next, ![w] = "granted"]
        /\ holders' = (holders \ {f}) \union {w}
    BY <1>1 DEF Release
  <2>2. /\ w \in Fibers /\ w \in ToSet(waiters)
        /\ waiters' \in Seq(Fibers) /\ IsInjective(waiters')
        /\ ToSet(waiters') = ToSet(waiters) \ {w}
    BY <1>0, <1>1, <2>1, TailNode
  <2> HIDE DEF w
  <2>3. pc[w] = "waiting" /\ w # f /\ w \notin holders
    BY <1>0, <2>2 DEF IInv, QueueIsTheWaiting, HoldersByStage, Inside
  <2>4. /\ pc' \in [Fibers -> Stages] /\ pc'[w] = "granted" /\ pc'[f] = next
        /\ \A g \in Fibers \ {f, w} : pc'[g] = pc[g]
    BY <1>0, <2>1, <2>2, <2>3
  <2>5. TypeOK'
    BY <2>1, <2>2, <2>4 DEF IInv, TypeOK
  <2>6. PermitsConserved'
    BY <1>0, <2>1, <2>3, SwapCardinality DEF IInv, PermitsConserved
  <2>7. QueueIsTheWaiting'
    BY <1>0, <2>2, <2>3, <2>4 DEF IInv, QueueIsTheWaiting
  <2>8. NoIdlePermit'
    BY <1>1, <2>1 DEF IInv, NoIdlePermit
  <2>9. HoldersByStage'
    BY <1>0, <2>1, <2>2, <2>3, <2>4 DEF IInv, HoldersByStage, Inside
  <2> QED
    BY <2>5, <2>6, <2>7, <2>8, <2>9 DEF IInv
<1>2. CASE waiters = <<>>
  <2>1. /\ waiters' = waiters /\ available' = available + 1
        /\ pc' = [pc EXCEPT ![f] = next] /\ holders' = holders \ {f}
    BY <1>2 DEF Release
  <2>2. Cardinality(holders') = Cardinality(holders) - 1 /\ Cardinality(holders') \in Nat
    BY <1>0, <2>1, FS_RemoveElement, FS_CardinalityType
  <2>3. TypeOK' /\ PermitsConserved'
    BY <1>0, <2>1, <2>2, CapacityAssumption, FS_CardinalityType
       DEF IInv, TypeOK, PermitsConserved
  <2>4. QueueIsTheWaiting' /\ NoIdlePermit'
    BY <1>0, <1>2, <2>1 DEF IInv, QueueIsTheWaiting, NoIdlePermit
  <2>5. HoldersByStage'
    BY <1>0, <2>1 DEF IInv, HoldersByStage, Inside
  <2> QED
    BY <2>3, <2>4, <2>5 DEF IInv
<1> QED
  BY <1>1, <1>2

LEMMA AcquireIInv == ASSUME IInv, NEW f \in Fibers, Acquire(f) PROVE IInv'
<1>0. /\ IsFiniteSet(holders) /\ f \notin holders /\ f \notin ToSet(waiters)
      /\ waiters \in Seq(Fibers) /\ IsInjective(waiters)
      /\ pc \in [Fibers -> Stages] /\ pc[f] = "acquire"
  BY FibersAssumption, FS_Subset
     DEF IInv, TypeOK, HoldersByStage, Inside, QueueIsTheWaiting, Acquire
<1>1. CASE available > 0
  <2>1. /\ available' = available - 1 /\ pc' = [pc EXCEPT ![f] = "granted"]
        /\ holders' = holders \union {f} /\ UNCHANGED <<waiters, interrupted>>
    BY <1>1 DEF Acquire
  <2>2. Cardinality(holders') = Cardinality(holders) + 1
    BY <1>0, <2>1, FS_AddElement
  <2>3. TypeOK' /\ PermitsConserved'
    BY <1>0, <1>1, <2>1, <2>2, CapacityAssumption, FS_CardinalityType
       DEF IInv, TypeOK, PermitsConserved, Stages
  <2>4. QueueIsTheWaiting' /\ NoIdlePermit'
    BY <1>0, <1>1, <2>1 DEF IInv, TypeOK, QueueIsTheWaiting, NoIdlePermit
  <2>5. HoldersByStage'
    BY <1>0, <2>1 DEF IInv, HoldersByStage, Inside
  <2> QED
    BY <2>3, <2>4, <2>5 DEF IInv
<1>2. CASE available = 0
  <2>1. /\ waiters' = Append(waiters, f) /\ pc' = [pc EXCEPT ![f] = "waiting"]
        /\ UNCHANGED <<available, holders, interrupted>>
    BY <1>2 DEF Acquire
  <2>2. /\ waiters' \in Seq(Fibers) /\ IsInjective(waiters')
        /\ ToSet(waiters') = ToSet(waiters) \union {f}
    BY <1>0, <2>1, AppendNode
  <2>3. TypeOK' /\ PermitsConserved' /\ NoIdlePermit'
    BY <1>0, <1>2, <2>1, <2>2
       DEF IInv, TypeOK, PermitsConserved, NoIdlePermit, Stages
  <2>4. QueueIsTheWaiting'
    BY <1>0, <2>1, <2>2 DEF IInv, QueueIsTheWaiting
  <2>5. HoldersByStage'
    BY <1>0, <2>1 DEF IInv, HoldersByStage, Inside
  <2> QED
    BY <2>3, <2>4, <2>5 DEF IInv
<1> QED
  BY <1>1, <1>2 DEF Acquire

\* The canceler of a queued acquire takes exactly its own node out.
LEMMA InterruptStepIInv == ASSUME IInv, NEW f \in Fibers, InterruptStep(f) PROVE IInv'
<1>1. CASE Inside(f)
  BY <1>1, ReleaseIInv DEF InterruptStep, Inside
<1>2. CASE pc[f] = "waiting"
  <2>1. /\ \E i \in DOMAIN waiters : waiters[i] = f /\ waiters' = RemoveAt(waiters, i)
        /\ pc' = [pc EXCEPT ![f] = "done"]
        /\ UNCHANGED <<available, holders, interrupted>>
    BY <1>2 DEF InterruptStep, Inside
  <2>2. PICK i \in DOMAIN waiters : waiters[i] = f /\ waiters' = RemoveAt(waiters, i)
    BY <2>1
  <2>3. /\ waiters \in Seq(Fibers) /\ IsInjective(waiters) /\ pc \in [Fibers -> Stages]
        /\ f \notin holders /\ waiters # <<>>
    BY <1>2, <2>2 DEF IInv, TypeOK, QueueIsTheWaiting, HoldersByStage, Inside
  <2>4. /\ waiters' \in Seq(Fibers) /\ IsInjective(waiters')
        /\ ToSet(waiters') = ToSet(waiters) \ {f}
    BY <2>2, <2>3, RemoveAtNode
  <2>5. TypeOK' /\ PermitsConserved' /\ NoIdlePermit'
    BY <2>1, <2>3, <2>4 DEF IInv, TypeOK, PermitsConserved, NoIdlePermit, Stages
  <2>6. QueueIsTheWaiting'
    BY <2>1, <2>3, <2>4 DEF IInv, QueueIsTheWaiting
  <2>7. HoldersByStage'
    BY <2>1, <2>3 DEF IInv, HoldersByStage, Inside
  <2> QED
    BY <2>5, <2>6, <2>7 DEF IInv
<1>3. CASE pc[f] \in {"acquire", "granted", "released"}
  <2>1. /\ pc' = [pc EXCEPT ![f] = "done"]
        /\ UNCHANGED <<available, waiters, holders, interrupted>>
    BY <1>3 DEF InterruptStep, Inside
  <2> QED
    BY <1>3, <2>1
       DEF IInv, TypeOK, PermitsConserved, QueueIsTheWaiting, NoIdlePermit,
           HoldersByStage, Inside, Stages
<1> QED
  BY <1>1, <1>2, <1>3 DEF InterruptStep

LEMMA NextIInv == IInv /\ [Next]_vars => IInv'
<1> SUFFICES ASSUME IInv, [Next]_vars PROVE IInv'
  OBVIOUS
<1>1. ASSUME NEW f \in Fibers, RegisterRelease(f) \/ StartEffect(f) \/ Settle(f) \/ Finish(f)
      PROVE  IInv'
  BY <1>1 DEF IInv, TypeOK, PermitsConserved, QueueIsTheWaiting, NoIdlePermit, HoldersByStage,
              Inside, Stages, RegisterRelease, StartEffect, Settle, Finish
<1>2. ASSUME NEW f \in Fibers, ReleaseOnce(f) PROVE IInv'
  BY <1>2, ReleaseIInv DEF ReleaseOnce, Inside
<1>3. ASSUME NEW f \in Fibers, Interrupt(f) PROVE IInv'
  BY <1>3 DEF IInv, TypeOK, PermitsConserved, QueueIsTheWaiting, NoIdlePermit, HoldersByStage,
              Inside, Interrupt
<1>4. CASE UNCHANGED vars
  BY <1>4 DEF IInv, TypeOK, PermitsConserved, QueueIsTheWaiting, NoIdlePermit, HoldersByStage,
              Inside, vars
<1> QED
  BY <1>1, <1>2, <1>3, <1>4, AcquireIInv, InterruptStepIInv DEF Next, FiberStep

\* The fibers inside the protected effect are among the holders.
LEMMA AtMostCapacityLemma == IInv => AtMostCapacity
<1> SUFFICES ASSUME IInv PROVE AtMostCapacity
  OBVIOUS
<1>1. {f \in Fibers : Inside(f)} \subseteq holders
  BY DEF IInv, HoldersByStage
<1>2. IsFiniteSet(holders)
  BY FibersAssumption, FS_Subset DEF IInv, TypeOK
<1>3. Cardinality({f \in Fibers : Inside(f)}) <= Cardinality(holders)
  BY <1>1, <1>2, FS_Subset
<1> QED
  BY <1>1, <1>2, <1>3, CapacityAssumption, FS_Subset, FS_CardinalityType
     DEF IInv, TypeOK, PermitsConserved, AtMostCapacity

\* The state of semaphore.ts keeps its types: the pool never goes below zero or
\* above the capacity, and the queue holds fibers.
THEOREM TypeCorrect == Spec => []TypeOK
<1>1. IInv => TypeOK
  BY DEF IInv
<1> QED
  BY <1>1, InitIInv, NextIInv, PTL DEF Spec

\* Every permit is in the pool or with one fiber, in every reachable state.
THEOREM PermitsConservedTheorem == Spec => []PermitsConserved
<1>1. IInv => PermitsConserved
  BY DEF IInv
<1> QED
  BY <1>1, InitIInv, NextIInv, PTL DEF Spec

\* semaphore.ts:4 -- at most n protected effects run concurrently.
THEOREM AtMostCapacityTheorem == Spec => []AtMostCapacity
BY InitIInv, NextIInv, AtMostCapacityLemma, PTL DEF Spec

\* No idle permit while a waiter queues, and no stale waiter.
THEOREM NoLostWakeupTheorem == Spec => []NoLostWakeup
<1>1. IInv => NoLostWakeup
  BY DEF IInv, NoLostWakeup
<1> QED
  BY <1>1, InitIInv, NextIInv, PTL DEF Spec

-----------------------------------------------------------------------------
(* What a step of the semaphore may do to the stages of withPermit *)

Early == {"acquire", "waiting", "granted", "effect"}
Gone(f) == pc[f] = "done" /\ f \in interrupted

\* A step of f moves f, and may grant a permit to one that waits.
Moves(f) ==
  /\ \A g \in Fibers \ {f} : pc'[g] = pc[g] \/ (pc[g] = "waiting" /\ pc'[g] = "granted")
  /\ interrupted \subseteq interrupted'

LEMMA ReleaseMoves ==
  ASSUME IInv, NEW f \in Fibers, NEW next, Release(f, next), Inside(f)
  PROVE  /\ \A g \in Fibers \ {f} : pc'[g] = pc[g] \/ (pc[g] = "waiting" /\ pc'[g] = "granted")
         /\ pc'[f] = next
<1>0. pc \in [Fibers -> Stages] /\ waiters \in Seq(Fibers)
  BY DEF IInv, TypeOK
<1>1. CASE waiters # <<>>
  <2> DEFINE w == Head(waiters)
  <2>1. pc' = [pc EXCEPT ![f] = next, ![w] = "granted"]
    BY <1>1 DEF Release
  <2>2. w \in Fibers /\ w \in ToSet(waiters)
    BY <1>0, <1>1, TailNode DEF IInv, QueueIsTheWaiting
  <2> HIDE DEF w
  <2>3. pc[w] = "waiting" /\ w # f
    BY <2>2 DEF IInv, QueueIsTheWaiting, Inside
  <2> QED
    BY <1>0, <2>1, <2>2, <2>3
<1>2. CASE waiters = <<>>
  BY <1>0, <1>2 DEF Release
<1> QED
  BY <1>1, <1>2

LEMMA AcquireMoves ==
  ASSUME IInv, NEW f \in Fibers, Acquire(f)
  PROVE  Moves(f) /\ pc[f] \in Early /\ pc'[f] \in Early \ {"effect"}
BY DEF IInv, TypeOK, Acquire, Moves, Early

LEMMA RegisterMoves ==
  ASSUME IInv, NEW f \in Fibers, RegisterRelease(f)
  PROVE  Moves(f) /\ pc[f] \in Early /\ pc'[f] \in Early
BY DEF IInv, TypeOK, RegisterRelease, Moves, Early

LEMMA StartMoves ==
  ASSUME IInv, NEW f \in Fibers, StartEffect(f)
  PROVE  Moves(f) /\ pc[f] \in Early /\ pc'[f] = "running"
BY DEF IInv, TypeOK, StartEffect, Moves, Early

LEMMA SettleMoves ==
  ASSUME IInv, NEW f \in Fibers, Settle(f)
  PROVE  Moves(f) /\ pc[f] = "running" /\ pc'[f] = "settled"
BY DEF IInv, TypeOK, Settle, Moves

LEMMA ReleaseOnceMoves ==
  ASSUME IInv, NEW f \in Fibers, ReleaseOnce(f)
  PROVE  Moves(f) /\ pc[f] = "settled" /\ pc'[f] = "released"
BY ReleaseMoves DEF ReleaseOnce, Moves, Inside

LEMMA FinishMoves ==
  ASSUME IInv, NEW f \in Fibers, Finish(f)
  PROVE  Moves(f) /\ pc[f] = "released" /\ pc'[f] = "done"
BY DEF IInv, TypeOK, Finish, Moves

LEMMA InterruptStepMoves ==
  ASSUME IInv, NEW f \in Fibers, InterruptStep(f)
  PROVE  Moves(f) /\ Gone(f)' /\ pc[f] # "done"
<1>1. interrupted' = interrupted /\ f \in interrupted /\ pc[f] # "done"
  BY DEF InterruptStep
<1>2. CASE Inside(f)
  BY <1>1, <1>2, ReleaseMoves DEF InterruptStep, Moves, Gone, Inside
<1>3. CASE ~Inside(f)
  <2>1. pc' = [pc EXCEPT ![f] = "done"]
    BY <1>3 DEF InterruptStep
  <2> QED
    BY <1>1, <2>1 DEF IInv, TypeOK, Moves, Gone
<1> QED
  BY <1>2, <1>3

-----------------------------------------------------------------------------
(* The inductive invariant *)

BracketTypes == /\ stage \in [Fibers -> BracketStages]
                /\ open \subseteq Fibers /\ closing \subseteq Fibers
                /\ stopping \subseteq Fibers /\ lost \subseteq Fibers

\* One bracket and its fiber: it runs while the fiber waits for it, or on its
\* own once the fiber was interrupted.
Linked(f) ==
  /\ Bracketing(f) => pc[f] = "running" \/ Gone(f)
  /\ f \in closing \cup stopping \cup lost => Gone(f)
  /\ pc[f] \in Early => stage[f] = "none" /\ f \notin open
  /\ stage[f] = "acquiring" => f \notin open
  /\ stage[f] # "none" => f \in Bracketed \cup Ensured
  /\ f \in open => f \in lost \/ stage[f] \in {"opened", "using", "releasing"}

BInv == IInv /\ BracketTypes /\ \A f \in Fibers : Linked(f)

LEMMA BracketInitBInv == BracketInit => BInv
BY InitIInv DEF BracketInit, BInv, BracketTypes, Linked, Bracketing, BracketStages, Init, Early

\* A fiber whose bracket does not move, while another fiber's step does.
LEMMA OthersLinked ==
  ASSUME BInv, NEW f \in Fibers, Moves(f), NEW g \in Fibers \ {f},
         stage'[g] = stage[g], g \in open' <=> g \in open, g \in closing' <=> g \in closing,
         g \in stopping' <=> g \in stopping, g \in lost' <=> g \in lost
  PROVE  Linked(g)'
BY DEF BInv, Linked, Bracketing, Gone, Moves, Early

\* A step of the semaphore preserves its own invariant.
LEMMA SemaphoreStep == ASSUME IInv, [Next]_vars PROVE IInv'
BY NextIInv

-----------------------------------------------------------------------------
(* Every action of Bracket *)

LEMMA PermitStepBInv == ASSUME BInv, NEW f \in Fibers, PermitStep(f) PROVE BInv'
<1>1. IInv' /\ BracketTypes'
  BY SemaphoreStep DEF BInv, PermitStep, Next, FiberStep, BracketTypes, bracketVars
<1>2. /\ Moves(f)
      /\ \/ pc[f] \in Early /\ pc'[f] \in Early
         \/ pc[f] = "settled" /\ pc'[f] = "released"
         \/ pc[f] = "released" /\ pc'[f] = "done"
  BY AcquireMoves, RegisterMoves, ReleaseOnceMoves, FinishMoves DEF PermitStep, BInv
<1>3. Linked(f)'
  BY <1>2 DEF PermitStep, bracketVars, BInv, Linked, Bracketing, Gone, Early, Moves
<1> QED
  BY <1>1, <1>2, <1>3, OthersLinked DEF BInv, PermitStep, bracketVars

LEMMA BeginBInv == ASSUME BInv, NEW f \in Fibers, Begin(f) PROVE BInv'
<1>1. IInv' /\ BracketTypes'
  BY SemaphoreStep DEF BInv, Begin, Next, FiberStep, BracketTypes, BracketStages
<1>2. Moves(f) /\ pc[f] \in Early /\ pc'[f] = "running"
  BY StartMoves DEF Begin, BInv
<1>3. stage[f] = "none" /\ f \notin open /\ ~Gone(f)
  BY <1>2 DEF BInv, Linked, Gone, Early
<1>4. f \notin closing \cup stopping \cup lost
  BY <1>3 DEF BInv, Linked
<1>5. /\ \A g \in Fibers \ {f} : stage'[g] = stage[g] /\ (g \in open' <=> g \in open)
      /\ stage'[f] = CASE f \in Bracketed -> "acquiring" [] f \in Ensured -> "using"
                       [] OTHER -> "none"
      /\ f \in open' <=> f \in Ensured
      /\ closing' = closing /\ stopping' = stopping /\ lost' = lost
  BY <1>3 DEF Begin, BInv, BracketTypes
<1>6. Linked(f)'
  BY <1>2, <1>4, <1>5, EffectsAssumption DEF Linked, Bracketing, Gone, Early
<1> QED
  BY <1>1, <1>2, <1>5, <1>6, OthersLinked DEF BInv

LEMMA OverBInv ==
  ASSUME BInv, NEW f \in Fibers, Over(f), Bracketing(f), closing' = closing,
         open' \in {open, open \ {f}}, f \in open' => f \in lost',
         lost' \in {lost, lost \cup {f}}, f \in lost' => Gone(f)
  PROVE  BInv'
<1>1. [Next]_vars
  BY DEF Over, Next
<1>2. IInv' /\ BracketTypes'
  BY <1>1, SemaphoreStep DEF BInv, Over, BracketTypes, BracketStages
<1>3. /\ Moves(f)
      /\ \/ pc[f] = "running" /\ pc'[f] = "settled"
         \/ pc[f] # "running" /\ UNCHANGED vars
  BY SettleMoves DEF Over, BInv, Moves, vars
<1>4. /\ \A g \in Fibers \ {f} : /\ stage'[g] = stage[g]
                                 /\ g \in stopping' <=> g \in stopping
                                 /\ g \in open' <=> g \in open
                                 /\ g \in lost' <=> g \in lost
      /\ stage'[f] = "over" /\ f \notin stopping'
  BY DEF Over, BInv, BracketTypes
<1>5. pc[f] = "running" \/ Gone(f)
  BY DEF BInv, Linked
<1>6. CASE pc[f] = "running"
  <2>1. pc'[f] = "settled" /\ ~Gone(f)
    BY <1>3, <1>6 DEF Gone
  <2>2. f \notin closing /\ f \notin lost'
    BY <2>1 DEF BInv, Linked
  <2> QED
    BY <1>2, <1>3, <1>4, <2>1, <2>2, OthersLinked DEF BInv, Linked, Bracketing, Early
<1>7. CASE pc[f] # "running"
  <2>1. Gone(f) /\ Gone(f)'
    BY <1>3, <1>5, <1>7 DEF vars, Gone
  <2> QED
    BY <1>2, <1>3, <1>4, <2>1, OthersLinked DEF BInv, Linked, Bracketing, Early, Gone
<1> QED
  BY <1>6, <1>7

LEMMA ChildEndsBInv == ASSUME BInv, NEW f \in Fibers, ChildEnds(f) PROVE BInv'
<1>1. CASE AcquireFails(f)
  <2>1. /\ Bracketing(f) /\ Over(f) /\ closing' = closing /\ open' = open
        /\ lost' = IF f \in open THEN lost \cup {f} ELSE lost
    BY <1>1 DEF AcquireFails, Bracketing
  <2>2. f \in lost' => Gone(f)
    BY <1>1, <2>1 DEF AcquireFails, BInv, Linked
  <2>3. f \in open' => f \in lost'
    BY <2>1
  <2>4. lost' \in {lost, lost \cup {f}}
    BY <2>1
  <2> QED
    BY <2>1, <2>2, <2>3, <2>4, OverBInv
<1>2. CASE AcquireSucceeds(f) \/ UseEnds(f)
  <2>1. /\ stage[f] \in {"opened", "using"} /\ UNCHANGED <<vars, open, closing, lost>>
        /\ stopping' \subseteq stopping /\ stopping' \cup {f} = stopping \cup {f}
        /\ \/ stage' = [stage EXCEPT ![f] = "using"]
           \/ stage' = [stage EXCEPT ![f] = "releasing"]
    BY <1>2 DEF AcquireSucceeds, UseEnds
  <2>2. IInv' /\ BracketTypes'
    BY <2>1, SemaphoreStep DEF BInv, BracketTypes, BracketStages, vars
  <2>3. Moves(f)
    BY <2>1 DEF Moves, vars
  <2>4. Linked(f)'
    BY <2>1 DEF BInv, BracketTypes, Linked, Bracketing, Gone, Early, vars
  <2>5. \A g \in Fibers \ {f} : stage'[g] = stage[g] /\ (g \in stopping' <=> g \in stopping)
    BY <2>1 DEF BInv, BracketTypes
  <2> QED
    BY <2>1, <2>2, <2>3, <2>4, <2>5, OthersLinked DEF BInv
<1>3. CASE ReleaseEnds(f)
  <2>1. /\ Bracketing(f) /\ Over(f) /\ closing' = closing /\ open' = open \ {f}
        /\ lost' = lost
    BY <1>3 DEF ReleaseEnds, Bracketing
  <2>2. f \in lost => Gone(f)
    BY DEF BInv, Linked
  <2> QED
    BY <2>1, <2>2, OverBInv
<1>4. CASE PlainSettles(f)
  <2>1. Settle(f) /\ UNCHANGED bracketVars
    BY <1>4 DEF PlainSettles
  <2>2. IInv' /\ BracketTypes'
    BY <2>1, SemaphoreStep DEF BInv, Next, BracketTypes, bracketVars
  <2>3. Moves(f) /\ pc[f] = "running" /\ pc'[f] = "settled"
    BY <2>1, SettleMoves DEF BInv
  <2>4. stage[f] = "none"
    BY <1>4 DEF PlainSettles, BInv, Linked
  <2>5. Linked(f)'
    BY <2>1, <2>3, <2>4 DEF BInv, Linked, Bracketing, Gone, Early, bracketVars
  <2> QED
    BY <2>1, <2>2, <2>3, <2>5, OthersLinked DEF BInv, bracketVars
<1> QED
  BY <1>1, <1>2, <1>3, <1>4 DEF ChildEnds

LEMMA OpensBInv == ASSUME BInv, NEW f \in Fibers, Opens(f) PROVE BInv'
<1>1. /\ stage[f] = "acquiring" /\ stage' = [stage EXCEPT ![f] = "opened"]
      /\ open' = open \cup {f} /\ UNCHANGED <<vars, closing, stopping, lost>>
  BY DEF Opens
<1>2. IInv' /\ BracketTypes'
  BY <1>1, SemaphoreStep DEF BInv, BracketTypes, BracketStages, vars
<1>3. Moves(f) /\ Linked(f)'
  BY <1>1 DEF BInv, BracketTypes, Moves, Linked, Bracketing, Gone, Early, vars
<1>4. \A g \in Fibers \ {f} : stage'[g] = stage[g] /\ (g \in open' <=> g \in open)
  BY <1>1 DEF BInv, BracketTypes
<1> QED
  BY <1>1, <1>2, <1>3, <1>4, OthersLinked DEF BInv

LEMMA InterruptedBInv == ASSUME BInv, NEW f \in Fibers, Interrupted(f) PROVE BInv'
<1>1. /\ InterruptStep(f) /\ UNCHANGED <<stage, open, lost>>
      /\ closing' \in {closing, closing \cup {f}} /\ stopping' \in {stopping, stopping \cup {f}}
  BY DEF Interrupted
<1>2. IInv' /\ BracketTypes'
  BY <1>1, SemaphoreStep DEF BInv, BracketTypes, Next, FiberStep
<1>3. Moves(f) /\ Gone(f)' /\ pc[f] # "done"
  BY <1>1, InterruptStepMoves DEF BInv
<1>4. Linked(f)'
  BY <1>1, <1>3 DEF BInv, Linked, Bracketing, Gone, Early
<1> QED
  BY <1>1, <1>2, <1>3, <1>4, OthersLinked DEF BInv

LEMMA ClosesBInv == ASSUME BInv, NEW f \in Fibers, Closes(f) PROVE BInv'
<1>1. /\ f \in closing /\ closing' = closing \ {f} /\ UNCHANGED <<vars, stage, open, lost>>
      /\ stopping' \in {stopping, stopping \cup {f}}
  BY DEF Closes
<1>2. IInv' /\ BracketTypes'
  BY <1>1, SemaphoreStep DEF BInv, BracketTypes, vars
<1>3. Moves(f) /\ Gone(f)
  BY <1>1 DEF BInv, Linked, Moves, vars
<1>4. Linked(f)'
  BY <1>1, <1>3 DEF BInv, Linked, Bracketing, Gone, Early, vars
<1> QED
  BY <1>1, <1>2, <1>3, <1>4, OthersLinked DEF BInv

\* Anybody may interrupt a fiber at any time: only the flag changes.
LEMMA InterruptBInv ==
  ASSUME BInv, NEW f \in Fibers, Interrupt(f), UNCHANGED bracketVars
  PROVE  BInv'
<1>1. /\ interrupted' = interrupted \cup {f}
      /\ UNCHANGED <<available, waiters, pc, holders, stage, open, closing, stopping, lost>>
  BY DEF Interrupt, bracketVars
<1>2. IInv' /\ BracketTypes'
  BY <1>1, SemaphoreStep DEF BInv, BracketTypes, Next
<1>3. \A g \in Fibers : Linked(g)'
  BY <1>1 DEF BInv, Linked, Bracketing, Gone, Early
<1> QED
  BY <1>2, <1>3 DEF BInv

LEMMA BracketNextBInv == BInv /\ [BracketNext]_allVars => BInv'
<1> SUFFICES ASSUME BInv, [BracketNext]_allVars PROVE BInv'
  OBVIOUS
<1>1. CASE UNCHANGED allVars
  <2>1. IInv'
    BY <1>1, SemaphoreStep DEF BInv, allVars
  <2> QED
    BY <1>1, <2>1 DEF BInv, allVars, vars, bracketVars, BracketTypes, Linked, Bracketing, Gone
<1>2. ASSUME NEW f \in Fibers, BracketSteps(f) \/ ChildEnds(f) PROVE BInv'
  BY <1>2, PermitStepBInv, BeginBInv, InterruptedBInv, ClosesBInv, ChildEndsBInv
     DEF BracketSteps
<1>3. ASSUME NEW f \in Fibers, Opens(f) \/ (Interrupt(f) /\ UNCHANGED bracketVars) PROVE BInv'
  BY <1>3, OpensBInv, InterruptBInv
<1> QED
  BY <1>1, <1>2, <1>3 DEF BracketNext

-----------------------------------------------------------------------------
(* What follows *)

\* A step of Bracket is a step of the semaphore, or leaves it alone.
LEMMA StepsOfSemaphore == [BracketNext]_allVars => [Next]_vars
<1> SUFFICES ASSUME BracketNext PROVE [Next]_vars
  BY DEF allVars
<1>1. ASSUME NEW f \in Fibers, BracketSteps(f) PROVE [Next]_vars
  BY <1>1 DEF BracketSteps, PermitStep, Begin, Interrupted, Closes, Next, FiberStep
<1>2. ASSUME NEW f \in Fibers, ChildEnds(f) PROVE [Next]_vars
  BY <1>2 DEF ChildEnds, AcquireFails, AcquireSucceeds, UseEnds, ReleaseEnds, PlainSettles,
              Over, Next
<1>3. ASSUME NEW f \in Fibers, Opens(f) \/ Interrupt(f) PROVE [Next]_vars
  BY <1>3 DEF Opens, Next
<1> QED
  BY <1>1, <1>2, <1>3 DEF BracketNext, allVars

\* Brackets use the semaphore as its own specification says: what is proved of
\* it holds of the connections behind it.
THEOREM ImplementsSemaphoreTheorem == BracketSpec => ImplementsSemaphore
<1>1. BracketInit => Init
  BY DEF BracketInit
<1> QED
  BY <1>1, StepsOfSemaphore, PTL DEF BracketSpec, ImplementsSemaphore, Spec

\* Open connections without an interrupt have a permit, and permits are few.
LEMMA BInvAccounts == BInv => ConnectionsAccounted
<1> SUFFICES ASSUME BInv PROVE ConnectionsAccounted
  OBVIOUS
<1>1. ClosedOrLost
  BY DEF BInv, BracketTypes, Linked, ClosedOrLost, Gone
<1>2. \A f \in open : pc[f] = "running" \/ Gone(f)
  BY DEF BInv, BracketTypes, Linked, Bracketing
<1>3. open \ interrupted \subseteq {f \in Fibers : Inside(f)}
  BY <1>2 DEF BInv, BracketTypes, Gone, Inside
<1>4. Cardinality(open \ interrupted) <= Capacity
  <2>1. IsFiniteSet({f \in Fibers : Inside(f)}) /\ IsFiniteSet(open \ interrupted)
    BY FibersAssumption, FS_Subset DEF BInv, BracketTypes
  <2>2. Cardinality({f \in Fibers : Inside(f)}) <= Capacity
    BY AtMostCapacityLemma DEF BInv, AtMostCapacity
  <2>3. Cardinality(open \ interrupted) <= Cardinality({f \in Fibers : Inside(f)})
    BY <1>3, <2>1, FS_Subset
  <2> QED
    BY <2>1, <2>2, <2>3, FS_CardinalityType, CapacityAssumption
<1>5. \A f \in open : Inside(f) \/ (pc[f] = "done" /\ f \in interrupted)
  BY <1>2 DEF Gone, Inside
<1> QED
  BY <1>1, <1>4, <1>5 DEF ConnectionsAccounted, OpenUnderPermit

\* Every connection that was opened is closed or being closed, unless it was
\* lost in the window, and those of fibers nobody interrupted are under permit.
THEOREM ConnectionsAccountedTheorem == BracketSpec => []ConnectionsAccounted
BY BracketInitBInv, BracketNextBInv, BInvAccounts, PTL DEF BracketSpec

-----------------------------------------------------------------------------
(* The worker pool *)

PoolCallers == {"new", "built", "waiting", "told", "cancelled"}
PoolAnswers == {"full", "closed", "timeout", "value", "error"}

\* The queue as the invariant knows it.
LEMMA PoolQueueFacts ==
  ASSUME PoolInv
  PROVE  /\ queue \in Seq(Tasks) /\ IsInjective(queue) /\ ToSet(queue) \subseteq Tasks
         /\ \A t \in ToSet(queue) : caller[t] = "waiting" /\ t \notin posted
         /\ posted \subseteq Tasks /\ IsFiniteSet(posted)
         /\ busy = Cardinality(posted) /\ busy \in 0..size /\ size \in Nat
         /\ queue # <<>> => busy = size
BY WorkerPoolAssumption DEF PoolInv, PoolTypeOK, QueueIsAwaited, NoIdleWorker, Unanswered, ToSet

\* What processNext() makes of a queue, a count of workers and the tasks they
\* hold: it fills at most one slot, which is enough when at most one is free.
LEMMA ProcessNextFills ==
  ASSUME NEW q \in Seq(Tasks), IsInjective(q), NEW b \in 0..size,
         NEW p \in SUBSET Tasks, IsFiniteSet(p), b = Cardinality(p),
         ToSet(q) \intersect p = {},
         b = size \/ b = size - 1 \/ q = <<>> \/ Tail(q) = <<>>,
         ProcessNext(q, b, p)
  PROVE  /\ queue' \in Seq(Tasks) /\ IsInjective(queue') /\ busy' \in 0..size
         /\ posted' \in SUBSET Tasks /\ IsFiniteSet(posted')
         /\ busy' = Cardinality(posted') /\ (queue' # <<>> => busy' = size)
         /\ ToSet(queue') \subseteq ToSet(q) /\ ToSet(queue') \intersect posted' = {}
         /\ posted' \subseteq p \union ToSet(q)
<1>1. CASE q = <<>> \/ b >= size
  BY <1>1, WorkerPoolAssumption DEF ProcessNext
<1>2. CASE q # <<>> /\ b < size
  <2>1. queue' = Tail(q) /\ busy' = b + 1 /\ posted' = p \union {Head(q)}
    BY <1>2, WorkerPoolAssumption DEF ProcessNext
  <2>2. /\ Head(q) \in Tasks /\ Head(q) \in ToSet(q) /\ Tail(q) \in Seq(Tasks)
        /\ ToSet(Tail(q)) = ToSet(q) \ {Head(q)} /\ IsInjective(Tail(q))
    BY <1>2, TailNode
  <2>3. IsFiniteSet(posted') /\ Cardinality(posted') = b + 1
    BY <2>1, <2>2, FS_AddElement
  <2> QED
    BY <1>2, <2>1, <2>2, <2>3, WorkerPoolAssumption
<1> QED
  BY <1>1, <1>2, WorkerPoolAssumption

\* Taking one task out of the queue (indexOf and splice).
LEMMA UnqueueTakesOne ==
  ASSUME PoolInv, NEW t, Unqueue(t)
  PROVE  /\ t \in ToSet(queue) /\ queue # <<>>
         /\ queue' \in Seq(Tasks) /\ IsInjective(queue') /\ ToSet(queue') = ToSet(queue) \ {t}
<1>1. PICK i \in DOMAIN queue : queue[i] = t /\ queue' = RemoveAt(queue, i)
  BY DEF Unqueue
<1>2. /\ queue' \in Seq(Tasks) /\ ToSet(queue') = ToSet(queue) \ {queue[i]} /\ IsInjective(queue')
  BY <1>1, PoolQueueFacts, RemoveAtNode
<1>3. t \in ToSet(queue)
  BY <1>1 DEF ToSet
<1>4. queue # <<>>
  BY <1>3 DEF ToSet
<1> QED
  BY <1>1, <1>2, <1>3, <1>4

\* Telling a task that has no answer yet.
LEMMA TellOnce ==
  ASSUME PoolInv, NEW t \in Tasks, verdicts[t] = <<>>, NEW v \in PoolAnswers, Tell(t, v)
  PROVE  /\ verdicts' \in [Tasks -> Seq(PoolAnswers)] /\ caller' \in [Tasks -> PoolCallers] /\ OneVerdict'
         /\ \A u \in Tasks \ {t} : verdicts'[u] = verdicts[u] /\ caller'[u] = caller[u]
         /\ caller'[t] = IF caller[t] = "waiting" THEN "told" ELSE caller[t]
<1>1. /\ verdicts \in [Tasks -> Seq(PoolAnswers)] /\ caller \in [Tasks -> PoolCallers]
  BY DEF PoolInv, PoolTypeOK, PoolCallers, PoolAnswers
<1>2. /\ verdicts' = [verdicts EXCEPT ![t] = Append(@, v)]
      /\ caller' = [caller EXCEPT ![t] = IF @ = "waiting" THEN "told" ELSE @]
  BY DEF Tell
<1>3. verdicts'[t] \in Seq(PoolAnswers) /\ Len(verdicts'[t]) = 1
  BY <1>1, <1>2
<1>4. OneVerdict'
  BY <1>1, <1>2, <1>3 DEF PoolInv, OneVerdict
<1> QED
  BY <1>1, <1>2, <1>3, <1>4 DEF PoolCallers

\* Counting an answer keeps the statistics numbers.
LEMMA StatsGrow ==
  ASSUME PoolInv, \/ stats' = [stats EXCEPT !.completed = @ + 1]
               \/ stats' = [stats EXCEPT !.failed = @ + 1]
               \/ stats' = [stats EXCEPT !.timedOut = @ + 1]
  PROVE  stats' \in [completed : Nat, failed : Nat, timedOut : Nat]
<1>1. stats \in [completed : Nat, failed : Nat, timedOut : Nat]
  BY DEF PoolInv, PoolTypeOK
<1>2. PICK s \in [completed : Nat, failed : Nat, timedOut : Nat] : s = stats
  BY <1>1
<1>3. \/ stats' = [s EXCEPT !.completed = s.completed + 1]
      \/ stats' = [s EXCEPT !.failed = s.failed + 1]
      \/ stats' = [s EXCEPT !.timedOut = s.timedOut + 1]
  BY <1>2
<1>4. s.completed + 1 \in Nat /\ s.failed + 1 \in Nat /\ s.timedOut + 1 \in Nat
  BY <1>2
<1> QED
  BY <1>3, <1>4

LEMMA PoolInitInv == PoolInit => PoolInv
<1> SUFFICES ASSUME PoolInit PROVE PoolInv
  OBVIOUS
<1>1. ToSet(queue) = {} /\ IsInjective(queue) /\ queue \in Seq(Tasks)
  BY DEF PoolInit, ToSet, IsInjective
<1>2. IsFiniteSet(posted) /\ Cardinality(posted) = 0
  BY FS_EmptySet DEF PoolInit
<1>3. PoolTypeOK
  <2>1. verdicts \in [Tasks -> Seq({"full", "closed", "timeout", "value", "error"})]
    BY DEF PoolInit
  <2>2. busy \in 0..size
    BY WorkerPoolAssumption DEF PoolInit
  <2> QED
    BY <1>1, <2>1, <2>2 DEF PoolInit, PoolTypeOK
<1>4. OneVerdict
  BY DEF PoolInit, OneVerdict
<1> QED
  BY <1>1, <1>2, <1>3, <1>4 DEF PoolInit, PoolInv, NoIdleWorker, QueueIsAwaited, Unanswered

LEMMA ExecuteInv == ASSUME PoolInv, NEW t \in Tasks, Execute(t) PROVE PoolInv'
<1>1. /\ UNCHANGED <<closed, busy, queue, stats, timer, posted>>
      /\ caller[t] = "new" /\ verdicts[t] = <<>> /\ t \notin posted /\ t \notin ToSet(queue)
  BY PoolQueueFacts DEF Execute, PoolInv, Unanswered
<1>2. /\ caller' \in [Tasks -> PoolCallers] /\ verdicts' \in [Tasks -> Seq(PoolAnswers)]
      /\ \A u \in Tasks \ {t} : caller'[u] = caller[u] /\ verdicts'[u] = verdicts[u]
      /\ Len(verdicts'[t]) <= 1 /\ (caller'[t] = "told" \/ verdicts'[t] = <<>>)
  <2>1. caller \in [Tasks -> PoolCallers] /\ verdicts \in [Tasks -> Seq(PoolAnswers)]
    BY DEF PoolInv, PoolTypeOK, PoolCallers, PoolAnswers
  <2>2. CASE closed \/ Len(queue) >= maxQueue
    <3>1. PICK v \in PoolAnswers : verdicts' = [verdicts EXCEPT ![t] = <<v>>]
      BY <2>2 DEF Execute, PoolAnswers
    <3>2. caller' = [caller EXCEPT ![t] = "told"] /\ <<v>> \in Seq(PoolAnswers) /\ Len(<<v>>) = 1
      BY <2>2 DEF Execute
    <3> QED
      BY <2>1, <3>1, <3>2 DEF PoolCallers
  <2>3. CASE ~(closed \/ Len(queue) >= maxQueue)
    <3>1. UNCHANGED verdicts /\ caller' = [caller EXCEPT ![t] = "built"]
      BY <2>3 DEF Execute
    <3> QED
      BY <1>1, <2>1, <3>1 DEF PoolCallers
  <2> QED
    BY <2>2, <2>3
<1>3. PoolTypeOK'
  BY <1>1, <1>2 DEF PoolInv, PoolTypeOK, PoolCallers, PoolAnswers
<1>4. QueueIsAwaited' /\ NoIdleWorker'
  BY <1>1, <1>2, PoolQueueFacts DEF PoolInv, QueueIsAwaited, NoIdleWorker
<1>5. OneVerdict'
  BY <1>1, <1>2 DEF PoolInv, OneVerdict
<1>6. Unanswered'
  <2>1. \A u \in posted : u # t /\ u \in Tasks
    BY <1>1, PoolQueueFacts
  <2> QED
    BY <1>1, <1>2, <2>1 DEF PoolInv, Unanswered
<1> QED
  BY <1>3, <1>4, <1>5, <1>6 DEF PoolInv

\* The effect is run: its task joins the queue, and one slot may be filled.
LEMMA SubmitInv == ASSUME PoolInv, NEW t \in Tasks, Submit(t) PROVE PoolInv'
<1>1. /\ caller[t] = "built" /\ caller' = [caller EXCEPT ![t] = "waiting"] /\ timer' = timer \union {t}
      /\ UNCHANGED <<closed, stats, verdicts>>
      /\ t \notin posted /\ t \notin ToSet(queue) /\ verdicts[t] = <<>>
  BY PoolQueueFacts DEF Submit, PoolInv, Unanswered
<1>2. PICK q : q = Append(queue, t)
  OBVIOUS
<1>3. /\ q \in Seq(Tasks) /\ IsInjective(q) /\ ToSet(q) = ToSet(queue) \union {t}
  BY <1>1, <1>2, PoolQueueFacts, AppendNode
<1>4. busy = size \/ Tail(q) = <<>>
  <2>1. CASE queue = <<>>
    <3>1. Len(q) = 1 /\ Tail(q) = [i \in 1..0 |-> q[i + 1]]
      BY <1>2, <1>3, <2>1
    <3> QED
      BY <1>2, <2>1, <3>1
  <2> QED
    BY <2>1, PoolQueueFacts
<1>5. ProcessNext(q, busy, posted)
  BY <1>2 DEF Submit
<1>6. /\ queue' \in Seq(Tasks) /\ IsInjective(queue') /\ busy' \in 0..size
      /\ posted' \in SUBSET Tasks /\ IsFiniteSet(posted')
      /\ busy' = Cardinality(posted') /\ (queue' # <<>> => busy' = size)
      /\ ToSet(queue') \subseteq ToSet(q) /\ ToSet(queue') \intersect posted' = {}
      /\ posted' \subseteq posted \union ToSet(q)
  <2>1. ToSet(q) \intersect posted = {}
    BY <1>1, <1>3, PoolQueueFacts
  <2> HIDE DEF ProcessNext
  <2> QED
    BY <1>3, <1>4, <1>5, <2>1, PoolQueueFacts, ProcessNextFills
<1>7. \A u \in ToSet(q) : u \in Tasks /\ caller'[u] = "waiting"
  BY <1>1, <1>3, PoolQueueFacts DEF PoolInv, PoolTypeOK
<1>8. PoolTypeOK'
  BY <1>1, <1>6 DEF PoolInv, PoolTypeOK
<1>9. QueueIsAwaited' /\ NoIdleWorker' /\ OneVerdict'
  <2>1. QueueIsAwaited'
    BY <1>6, <1>7 DEF QueueIsAwaited
  <2>2. NoIdleWorker'
    BY <1>6 DEF NoIdleWorker
  <2>3. OneVerdict'
    BY <1>1 DEF PoolInv, OneVerdict
  <2> QED
    BY <2>1, <2>2, <2>3
<1>10. Unanswered'
  <2>1. \A u \in posted' : caller'[u] \in {"waiting", "cancelled"}
    BY <1>1, <1>6, <1>7, PoolQueueFacts DEF PoolInv, PoolTypeOK, Unanswered
  <2>2. \A u \in ToSet(q) : verdicts[u] = <<>>
    BY <1>1, <1>3, PoolQueueFacts DEF PoolInv, Unanswered
  <2> QED
    BY <1>1, <1>6, <2>1, <2>2 DEF PoolInv, PoolTypeOK, Unanswered
<1> QED
  BY <1>8, <1>9, <1>10 DEF PoolInv

\* A task leaves the queue without a worker: its caller stops waiting.
LEMMA LeaveInv ==
  ASSUME PoolInv, NEW t \in Tasks, Unqueue(t), UNCHANGED <<closed, busy, posted>>,
         timer' \subseteq Tasks, stats' \in [completed : Nat, failed : Nat, timedOut : Nat],
         caller' \in [Tasks -> PoolCallers], caller'[t] \in {"told", "cancelled"},
         verdicts' \in [Tasks -> Seq(PoolAnswers)], Len(verdicts'[t]) <= 1,
         \A u \in Tasks \ {t} : caller'[u] = caller[u] /\ verdicts'[u] = verdicts[u]
  PROVE  PoolInv'
<1>1. /\ t \in ToSet(queue) /\ queue # <<>> /\ t \notin posted
      /\ queue' \in Seq(Tasks) /\ IsInjective(queue') /\ ToSet(queue') = ToSet(queue) \ {t}
  BY UnqueueTakesOne, PoolQueueFacts
<1>2. PoolTypeOK'
  BY <1>1 DEF PoolInv, PoolTypeOK, PoolCallers, PoolAnswers
<1>3. QueueIsAwaited' /\ NoIdleWorker'
  BY <1>1, PoolQueueFacts DEF PoolInv, QueueIsAwaited, NoIdleWorker
<1>4. OneVerdict'
  BY DEF PoolInv, OneVerdict
<1>5. Unanswered'
  <2>1. \A u \in posted : u # t /\ u \in Tasks
    BY <1>1, PoolQueueFacts
  <2> QED
    BY <2>1 DEF PoolInv, Unanswered
<1> QED
  BY <1>2, <1>3, <1>4, <1>5 DEF PoolInv

LEMMA CancelInv == ASSUME PoolInv, NEW t \in Tasks, Cancel(t) PROVE PoolInv'
<1>1. /\ caller[t] = "waiting" /\ caller' = [caller EXCEPT ![t] = "cancelled"]
      /\ UNCHANGED <<closed, busy, stats, posted, verdicts>>
      /\ caller' \in [Tasks -> PoolCallers] /\ timer' \subseteq Tasks
      /\ verdicts \in [Tasks -> Seq(PoolAnswers)] /\ Len(verdicts[t]) <= 1
  BY DEF Cancel, PoolInv, PoolTypeOK, OneVerdict, PoolCallers, PoolAnswers
<1>2. CASE Unqueue(t)
  BY <1>1, <1>2, LeaveInv DEF PoolInv, PoolTypeOK
<1>3. CASE ~Queued(t) /\ UNCHANGED <<queue, timer>>
  <2>1. \A u \in ToSet(queue) : u # t
    BY <1>3 DEF Queued
  <2>2. PoolTypeOK'
    BY <1>1, <1>3 DEF PoolInv, PoolTypeOK, PoolCallers
  <2>3. QueueIsAwaited' /\ NoIdleWorker' /\ OneVerdict'
    BY <1>1, <1>3, <2>1, PoolQueueFacts DEF PoolInv, QueueIsAwaited, NoIdleWorker, OneVerdict, PoolTypeOK
  <2>4. Unanswered'
    BY <1>1 DEF PoolInv, Unanswered, PoolTypeOK
  <2> QED
    BY <2>2, <2>3, <2>4 DEF PoolInv
<1> QED
  BY <1>2, <1>3 DEF Cancel, Unqueue, Queued, ToSet

LEMMA TimeoutInv == ASSUME PoolInv, NEW t \in Tasks, Timeout(t) PROVE PoolInv'
<1>1. timer' \subseteq Tasks /\ UNCHANGED <<closed, busy, posted>>
  BY DEF Timeout, PoolInv, PoolTypeOK
<1>2. CASE Unqueue(t) /\ Tell(t, "timeout") /\ stats' = [stats EXCEPT !.timedOut = @ + 1]
  <2>1. caller[t] = "waiting" /\ verdicts[t] = <<>>
    BY <1>2, UnqueueTakesOne, PoolQueueFacts DEF PoolInv, Unanswered
  <2>2. /\ verdicts' \in [Tasks -> Seq(PoolAnswers)] /\ caller' \in [Tasks -> PoolCallers] /\ OneVerdict'
        /\ \A u \in Tasks \ {t} : verdicts'[u] = verdicts[u] /\ caller'[u] = caller[u]
        /\ caller'[t] = "told"
    BY <1>2, <2>1, TellOnce DEF PoolAnswers
  <2>3. stats' \in [completed : Nat, failed : Nat, timedOut : Nat]
    BY <1>2, StatsGrow
  <2>4. Len(verdicts'[t]) <= 1
    BY <2>2 DEF OneVerdict
  <2> QED
    BY <1>1, <1>2, <2>2, <2>3, <2>4, LeaveInv
<1>3. CASE ~Queued(t) /\ UNCHANGED <<queue, stats, verdicts, caller>>
  BY <1>1, <1>3 DEF PoolInv, PoolTypeOK, QueueIsAwaited, NoIdleWorker, OneVerdict, Unanswered
<1> QED
  BY <1>2, <1>3 DEF Timeout

\* A worker answers its task and gives its slot to the oldest one waiting.
LEMMA RunInv == ASSUME PoolInv, NEW t \in Tasks, Run(t) PROVE PoolInv'
<1>1. /\ t \in posted /\ timer' \subseteq Tasks /\ UNCHANGED closed
      /\ caller[t] \in {"waiting", "cancelled"} /\ verdicts[t] = <<>> /\ t \notin ToSet(queue)
  BY PoolQueueFacts DEF Run, PoolInv, PoolTypeOK, Unanswered
<1>2. PICK v \in PoolAnswers : Tell(t, v)
  BY DEF Run, PoolAnswers
<1>3. /\ verdicts' \in [Tasks -> Seq(PoolAnswers)] /\ caller' \in [Tasks -> PoolCallers] /\ OneVerdict'
      /\ \A u \in Tasks \ {t} : verdicts'[u] = verdicts[u] /\ caller'[u] = caller[u]
      /\ caller'[t] \in {"told", "cancelled"}
  BY <1>1, <1>2, TellOnce
<1>4. stats' \in [completed : Nat, failed : Nat, timedOut : Nat]
  BY StatsGrow DEF Run
<1>5. PICK q, b, p : q = queue /\ b = busy - 1 /\ p = posted \ {t}
  OBVIOUS
<1>6. ProcessNext(q, b, p)
  BY <1>5 DEF Run
<1>7. /\ b \in 0..size /\ p \in SUBSET Tasks /\ IsFiniteSet(p) /\ b = Cardinality(p)
      /\ q \in Seq(Tasks) /\ IsInjective(q) /\ ToSet(q) \intersect p = {}
      /\ b = size - 1 \/ q = <<>>
  <2>1. IsFiniteSet(p) /\ Cardinality(p) = Cardinality(posted) - 1
    BY <1>1, <1>5, PoolQueueFacts, FS_RemoveElement
  <2>2. Cardinality(p) \in Nat
    BY <2>1, FS_CardinalityType
  <2> QED
    BY <1>5, <2>1, <2>2, PoolQueueFacts
<1>8. /\ queue' \in Seq(Tasks) /\ IsInjective(queue') /\ busy' \in 0..size
      /\ posted' \in SUBSET Tasks /\ IsFiniteSet(posted')
      /\ busy' = Cardinality(posted') /\ (queue' # <<>> => busy' = size)
      /\ ToSet(queue') \subseteq ToSet(q) /\ ToSet(queue') \intersect posted' = {}
      /\ posted' \subseteq p \union ToSet(q)
  BY <1>6, <1>7, ProcessNextFills
<1>9. \A u \in p \union ToSet(q) : u \in Tasks /\ u # t /\ caller'[u] = caller[u] /\ verdicts'[u] = verdicts[u]
  BY <1>1, <1>3, <1>5, PoolQueueFacts
<1>10. PoolTypeOK'
  BY <1>1, <1>3, <1>4, <1>8 DEF PoolInv, PoolTypeOK, PoolCallers, PoolAnswers
<1>11. QueueIsAwaited'
  BY <1>5, <1>8, <1>9, PoolQueueFacts DEF QueueIsAwaited
<1>12. NoIdleWorker'
  BY <1>8 DEF NoIdleWorker
<1>13. Unanswered'
  <2>1. \A u \in posted' : u # t /\ caller'[u] \in {"waiting", "cancelled"} /\ verdicts'[u] = <<>>
    BY <1>5, <1>8, <1>9, PoolQueueFacts DEF PoolInv, Unanswered
  <2>2. \A u \in Tasks : caller'[u] \in {"new", "built", "waiting"} => verdicts'[u] = <<>>
    BY <1>3 DEF PoolInv, Unanswered
  <2> QED
    BY <1>8, <2>1, <2>2 DEF Unanswered
<1> QED
  BY <1>3, <1>10, <1>11, <1>12, <1>13 DEF PoolInv

\* shutdown() answers whatever is queued and leaves the workers alone.
LEMMA ShutdownInv == ASSUME PoolInv, Shutdown PROVE PoolInv'
<1>1. /\ closed' = TRUE /\ queue' = <<>> /\ timer' \subseteq Tasks /\ UNCHANGED <<busy, stats, posted>>
      /\ caller' = [t \in Tasks |-> IF t \in ToSet(queue) THEN "told" ELSE caller[t]]
      /\ verdicts' = [t \in Tasks |-> IF t \in ToSet(queue) THEN Append(verdicts[t], "closed")
                                      ELSE verdicts[t]]
  BY DEF Shutdown, Queued, PoolInv, PoolTypeOK
<1>2. \A t \in ToSet(queue) : verdicts[t] = <<>>
  BY PoolQueueFacts DEF PoolInv, Unanswered
<1>3. caller' \in [Tasks -> PoolCallers] /\ verdicts' \in [Tasks -> Seq(PoolAnswers)] /\ OneVerdict'
  <2>1. caller \in [Tasks -> PoolCallers] /\ verdicts \in [Tasks -> Seq(PoolAnswers)]
    BY DEF PoolInv, PoolTypeOK, PoolCallers, PoolAnswers
  <2>2. Append(<<>>, "closed") \in Seq(PoolAnswers) /\ Len(Append(<<>>, "closed")) = 1
    BY DEF PoolAnswers
  <2>3. \A t \in Tasks : verdicts'[t] \in Seq(PoolAnswers) /\ Len(verdicts'[t]) <= 1
    BY <1>1, <1>2, <2>1, <2>2 DEF PoolInv, OneVerdict
  <2> QED
    BY <1>1, <2>1, <2>3 DEF OneVerdict, PoolCallers
<1>4. PoolTypeOK'
  BY <1>1, <1>3 DEF PoolInv, PoolTypeOK, PoolCallers, PoolAnswers
<1>5. QueueIsAwaited' /\ NoIdleWorker'
  BY <1>1, PoolQueueFacts DEF QueueIsAwaited, NoIdleWorker, ToSet, IsInjective
<1>6. Unanswered'
  <2>1. \A t \in posted : t \in Tasks /\ t \notin ToSet(queue)
    BY PoolQueueFacts
  <2> QED
    BY <1>1, <2>1 DEF PoolInv, Unanswered
<1> QED
  BY <1>3, <1>4, <1>5, <1>6 DEF PoolInv

LEMMA PoolNextInv == ASSUME PoolInv, [PoolNext]_poolVars PROVE PoolInv'
<1>1. CASE Shutdown
  BY <1>1, ShutdownInv
<1>2. ASSUME NEW t \in Tasks, Execute(t) \/ Submit(t) \/ Cancel(t) \/ Timeout(t) \/ Run(t)
      PROVE  PoolInv'
  BY <1>2, ExecuteInv, SubmitInv, CancelInv, TimeoutInv, RunInv
<1>3. CASE UNCHANGED poolVars
  BY <1>3 DEF poolVars, PoolInv, PoolTypeOK, NoIdleWorker, QueueIsAwaited, OneVerdict, Unanswered
<1> QED
  BY <1>1, <1>2, <1>3 DEF PoolNext

LEMMA PoolInductive == PoolSpec => []PoolInv
BY PoolInitInv, PoolNextInv, PTL DEF PoolSpec

-----------------------------------------------------------------------------
\* The hand-kept count of busy workers (busyWorkers, in processNext and the
\* setImmediate callback) is the number of tasks handed to one, and nothing
\* waits while a worker is free, whatever was cancelled, timed out or threw.
THEOREM NoIdleWorkerTheorem == PoolSpec => []NoIdleWorker
BY PoolInductive, PTL DEF PoolInv

\* Cancelling, timing out and shutdown() leave nothing behind: a task in the
\* queue has a fiber that waits for it, and is there once.
THEOREM QueueIsAwaitedTheorem == PoolSpec => []QueueIsAwaited
BY PoolInductive, PTL DEF PoolInv

\* Both records of the pool, the count and the queue, are exact.
THEOREM WorkersExactTheorem == PoolSpec => []WorkersExact
BY NoIdleWorkerTheorem, QueueIsAwaitedTheorem, PTL DEF WorkersExact

\* The timer, shutdown() and the worker each answer a task by its callback; no
\* two of them answer the same one.
THEOREM OneVerdictTheorem == PoolSpec => []OneVerdict
BY PoolInductive, PTL DEF PoolInv
=============================================================================
