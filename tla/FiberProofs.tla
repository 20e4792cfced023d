----------------------------- MODULE FiberProofs -----------------------------
(***************************************************************************)
(* Machine-checked proofs about Fiber: for every set of joiners, every     *)
(* number of nodes and of answers, with and without a scheduler that       *)
(* refuses and code that interrupts its own fiber.                         *)
(***************************************************************************)
EXTENDS Fiber, QueueLemmas

Regions == FramesFrom(1, "InterruptibilityCont")

\* Taking frames off the stack, and putting one on.
LEMMA PopStack ==
  ASSUME NEW S, NEW s \in Seq(S), NEW i \in 1..(Len(s) + 1)
  PROVE  /\ SubSeq(s, 1, i - 1) \in Seq(S) /\ Len(SubSeq(s, 1, i - 1)) = i - 1
         /\ \A j \in 1..(i - 1) : SubSeq(s, 1, i - 1)[j] = s[j]
<1>1. Len(s) \in Nat /\ \A j \in 1..(i - 1) : s[j] \in S
  OBVIOUS
<1> QED
  BY <1>1, SubSeqProperties

LEMMA InitIInv == Init => IInv
<1> SUFFICES ASSUME Init PROVE IInv
  OBVIOUS
<1>1. /\ stack = <<>> /\ finalizers = <<>> /\ Len(stack) = 0
      /\ stack \in Seq(Frames) /\ finalizers \in Seq(0..MaxOps) /\ ToSet(finalizers) = {}
      /\ \A tag : FramesFrom(1, tag) = {}
  BY DEF Init, FramesFrom, ToSet
<1>2. TypeOK
  <2>1. 0 \in 0..MaxOps /\ MaxOps \in 0..MaxOps
    BY BoundsAssumption
  <2>2. registered \in [Nodes -> Nat] /\ answered \in [Nodes -> Nat]
    BY DEF Init
  <2>3. told \in [Joiners -> Exits \union {None}] /\ closing \in Exits \union {None}
        /\ result \in Exits \union {None}
    BY DEF Init
  <2> QED
    BY <1>1, <2>1, <2>2, <2>3 DEF Init, TypeOK
<1>3. FuelBounds
  BY <1>1, BoundsAssumption DEF Init, FuelBounds, WithinFuel
<1>4. TurnExit
  BY DEF Init, TurnExit
<1>5. MaskDiscipline /\ RefDiscipline /\ RefRestoredOnReturn
  BY <1>1 DEF Init, MaskDiscipline, RefDiscipline, RefRestoredOnReturn, ShieldedBelow
<1>6. StepsQueued
  BY BoundsAssumption DEF Init, StepsQueued, SteppedAgain, Extra
<1>7. CallbackState
  BY BoundsAssumption DEF Init, CallbackState, Nodes
<1>8. CancelersArmed
  BY <1>1 DEF Init, CancelersArmed, Armed
<1>9. OwnAnswerIfOnce
  BY DEF Init, OwnAnswerIfOnce, OwnAnswer
<1> QED
  BY <1>2, <1>3, <1>4, <1>5, <1>6, <1>7, <1>8, <1>9 DEF IInv

-----------------------------------------------------------------------------
(* Regions *)

\* ShieldedBelow, of any stack; and that it depends on the frames below n only.
IsRegion(s, i) == s[i].tag = "InterruptibilityCont"
Shielded(s, n) == \E i \in 1..(n - 1) : /\ IsRegion(s, i) /\ s[i].shields
                                       /\ \A j \in (i + 1)..(n - 1) : ~IsRegion(s, j)

LEMMA ShieldsBelow ==
  ASSUME NEW s, Len(s) \in Nat, NEW n \in 1..(Len(s) + 1)
  PROVE  Shielded(s, n) <=>
           \E i \in {j \in 1..Len(s) : s[j].tag = "InterruptibilityCont"} :
             /\ i < n /\ s[i].shields
             /\ \A j \in {k \in (i + 1)..Len(s) : s[k].tag = "InterruptibilityCont"} : j >= n
<1> DEFINE R(i) == {j \in i..Len(s) : s[j].tag = "InterruptibilityCont"}
<1>1. ASSUME NEW i \in R(1), i < n, s[i].shields, \A j \in R(i + 1) : j >= n
      PROVE  Shielded(s, n)
  <2>1. \A j \in (i + 1)..(n - 1) : ~IsRegion(s, j)
    BY <1>1 DEF IsRegion
  <2> QED
    BY <1>1, <2>1 DEF Shielded, IsRegion
<1>2. ASSUME NEW i \in 1..(n - 1), IsRegion(s, i), s[i].shields,
             \A j \in (i + 1)..(n - 1) : ~IsRegion(s, j)
      PROVE  i \in R(1) /\ i < n /\ \A j \in R(i + 1) : j >= n
  BY <1>2 DEF IsRegion
<1> QED
  BY <1>1, <1>2 DEF Shielded

LEMMA ShieldedNow ==
  /\ Len(stack) \in Nat =>
       \A n \in 1..(Len(stack) + 1) : ShieldedBelow(n) <=> Shielded(stack, n)
  /\ Len(stack') \in Nat =>
       \A n \in 1..(Len(stack') + 1) : ShieldedBelow(n)' <=> Shielded(stack', n)
BY ShieldsBelow DEF ShieldedBelow, FramesFrom

LEMMA ShieldLocal ==
  ASSUME NEW s, NEW t, NEW n \in Nat, \A j \in 1..(n - 1) : t[j] = s[j]
  PROVE  Shielded(t, n) <=> Shielded(s, n)
<1>1. \A i \in 1..(n - 1) : \A j \in (i + 1)..(n - 1) : j \in 1..(n - 1)
  OBVIOUS
<1>2. \A i \in 1..(n - 1) : IsRegion(t, i) = IsRegion(s, i) /\ t[i].shields = s[i].shields
  BY DEF IsRegion
<1> QED
  BY <1>1, <1>2 DEF Shielded

\* No region between i and k: what shields below k shields below i.
LEMMA ShieldGap ==
  ASSUME NEW s, NEW i \in Nat \ {0}, NEW k \in Nat, i <= k, \A j \in i..(k - 1) : ~IsRegion(s, j)
  PROVE  Shielded(s, k) <=> Shielded(s, i)
<1>1. ASSUME NEW j \in 1..(k - 1), IsRegion(s, j) PROVE j \in 1..(i - 1)
  BY <1>1
<1>2. ASSUME NEW j \in 1..(i - 1)
      PROVE  /\ j \in 1..(k - 1)
             /\ (\A m \in (j + 1)..(k - 1) : ~IsRegion(s, m)) <=>
                (\A m \in (j + 1)..(i - 1) : ~IsRegion(s, m))
  <2>1. ASSUME NEW m \in (j + 1)..(k - 1) PROVE m \in (j + 1)..(i - 1) \/ m \in i..(k - 1)
    OBVIOUS
  <2> QED
    BY <2>1
<1> QED
  BY <1>1, <1>2 DEF Shielded

\* MaskDiscipline and RefDiscipline of a stack s, at depth d and with value r.
MaskIn(s, d) == /\ d > 0 <=> Shielded(s, Len(s) + 1)
                /\ \A i \in 1..Len(s) : IsRegion(s, i) => (s[i].prev > 0 <=> Shielded(s, i))
IsLocal(s, i) == s[i].tag = "FiberRefCont"
RefIn(s, r) == /\ (\A i \in 1..Len(s) : ~IsLocal(s, i)) => r = 0
               /\ \A k \in 1..Len(s) :
                    IsLocal(s, k) /\ (\A m \in 1..(k - 1) : ~IsLocal(s, m)) => s[k].prev = 0

LEMMA MaskNow ==
  /\ Len(stack) \in Nat => (MaskDiscipline <=> (closing = None => MaskIn(stack, depth)))
  /\ Len(stack') \in Nat => (MaskDiscipline' <=> (closing' = None => MaskIn(stack', depth')))
<1>1. ASSUME Len(stack) \in Nat
      PROVE  MaskDiscipline <=> (closing = None => MaskIn(stack, depth))
  BY <1>1, ShieldedNow DEF MaskDiscipline, MaskIn, FramesFrom, IsRegion
<1>2. ASSUME Len(stack') \in Nat
      PROVE  MaskDiscipline' <=> (closing' = None => MaskIn(stack', depth'))
  BY <1>2, ShieldedNow DEF MaskDiscipline, MaskIn, FramesFrom, IsRegion
<1> QED
  BY <1>1, <1>2

LEMMA RefNow ==
  /\ Len(stack) \in Nat => (RefDiscipline <=> (closing = None => RefIn(stack, ref)))
  /\ Len(stack') \in Nat => (RefDiscipline' <=> (closing' = None => RefIn(stack', ref')))
<1> DEFINE L(s) == {j \in 1..Len(s) : s[j].tag = "FiberRefCont"}
           D(s, r) == /\ L(s) = {} => r = 0
                      /\ \A k \in L(s) : (\A m \in L(s) : k <= m) => s[k].prev = 0
<1>1. ASSUME NEW s, NEW r, Len(s) \in Nat PROVE D(s, r) <=> RefIn(s, r)
  <2>1. ASSUME NEW k \in L(s)
        PROVE  (\A m \in L(s) : k <= m) <=> (\A m \in 1..(k - 1) : ~IsLocal(s, m))
    BY <1>1 DEF IsLocal
  <2> QED
    BY <2>1 DEF RefIn, IsLocal
<1>2. /\ RefDiscipline <=> (closing = None => D(stack, ref))
      /\ RefDiscipline' <=> (closing' = None => D(stack', ref'))
  BY DEF RefDiscipline, FramesFrom
<1> HIDE DEF D
<1> QED
  BY <1>1, <1>2

\* Popping: the value restored is that of the outermost frame popped.
RestoredIn(s, i, tag, now, new) ==
  \/ (\A j \in i..Len(s) : s[j].tag # tag) /\ new = now
  \/ \E k \in i..Len(s) : /\ s[k].tag = tag /\ new = s[k].prev
                          /\ \A j \in i..(k - 1) : s[j].tag # tag

LEMMA RestoredNow ==
  ASSUME Len(stack) \in Nat, NEW i \in Nat, NEW tag, NEW now, NEW new,
         Restored(i, tag, now, new)
  PROVE  RestoredIn(stack, i, tag, now, new)
<1>1. CASE FramesFrom(i, tag) = {} /\ new = now
  BY <1>1 DEF FramesFrom, RestoredIn
<1>2. CASE \E k \in FramesFrom(i, tag) :
             (\A m \in FramesFrom(i, tag) : k <= m) /\ new = stack[k].prev
  <2>1. PICK k \in i..Len(stack) :
          /\ stack[k].tag = tag /\ new = stack[k].prev
          /\ \A m \in FramesFrom(i, tag) : k <= m
    BY <1>2 DEF FramesFrom
  <2>2. \A j \in i..(k - 1) : stack[j].tag # tag
    BY <2>1 DEF FramesFrom
  <2> QED
    BY <2>1, <2>2 DEF RestoredIn
<1> QED
  BY <1>1, <1>2 DEF Restored

LEMMA MaskPop ==
  ASSUME NEW s \in Seq(Frames), NEW d, NEW e, MaskIn(s, d), NEW i \in 1..(Len(s) + 1),
         RestoredIn(s, i, "InterruptibilityCont", d, e)
  PROVE  MaskIn(SubSeq(s, 1, i - 1), e)
<1> DEFINE t == SubSeq(s, 1, i - 1)
<1>1. /\ Len(s) \in Nat /\ Len(t) = i - 1 /\ \A j \in 1..(i - 1) : t[j] = s[j]
  BY PopStack
<1> HIDE DEF t
<1>2. \A n \in 1..i : Shielded(t, n) <=> Shielded(s, n)
  BY <1>1, ShieldLocal
<1>3. e > 0 <=> Shielded(s, i)
  <2>1. CASE (\A j \in i..Len(s) : s[j].tag # "InterruptibilityCont") /\ e = d
    <3>1. Shielded(s, Len(s) + 1) <=> Shielded(s, i)
      BY <1>1, <2>1, ShieldGap DEF IsRegion
    <3> QED
      BY <2>1, <3>1 DEF MaskIn
  <2>2. CASE \E k \in i..Len(s) : /\ s[k].tag = "InterruptibilityCont" /\ e = s[k].prev
                                 /\ \A j \in i..(k - 1) : s[j].tag # "InterruptibilityCont"
    <3>1. PICK k \in i..Len(s) : /\ IsRegion(s, k) /\ e = s[k].prev
                                 /\ \A j \in i..(k - 1) : ~IsRegion(s, j)
      BY <2>2 DEF IsRegion
    <3>2. Shielded(s, k) <=> Shielded(s, i)
      BY <1>1, <3>1, ShieldGap
    <3>3. k \in 1..Len(s)
      BY <1>1
    <3> QED
      BY <3>1, <3>2, <3>3 DEF MaskIn
  <2> QED
    BY <2>1, <2>2 DEF RestoredIn
<1>4. \A j \in 1..(i - 1) : IsRegion(t, j) => (t[j].prev > 0 <=> Shielded(t, j))
  <2> TAKE j \in 1..(i - 1)
  <2>1. j \in 1..Len(s) /\ j \in 1..i /\ t[j] = s[j]
    BY <1>1
  <2> QED
    BY <1>2, <2>1 DEF MaskIn, IsRegion
<1>5. i \in 1..i /\ Len(t) + 1 = i
  BY <1>1
<1>6. MaskIn(t, e)
  BY <1>1, <1>2, <1>3, <1>4, <1>5 DEF MaskIn
<1> QED
  BY <1>6 DEF t

LEMMA RefPop ==
  ASSUME NEW s \in Seq(Frames), NEW r, NEW v, RefIn(s, r), NEW i \in 1..(Len(s) + 1),
         RestoredIn(s, i, "FiberRefCont", r, v)
  PROVE  RefIn(SubSeq(s, 1, i - 1), v) /\ (i = 1 => v = 0)
<1> DEFINE t == SubSeq(s, 1, i - 1)
<1>1. /\ Len(s) \in Nat /\ Len(t) = i - 1 /\ \A j \in 1..(i - 1) : t[j] = s[j]
  BY PopStack
<1> HIDE DEF t
<1>2. ASSUME \A j \in 1..(i - 1) : ~IsLocal(s, j) PROVE v = 0
  <2>1. CASE (\A j \in i..Len(s) : s[j].tag # "FiberRefCont") /\ v = r
    <3>1. \A j \in 1..Len(s) : ~IsLocal(s, j)
      BY <1>1, <1>2, <2>1 DEF IsLocal
    <3> QED
      BY <2>1, <3>1 DEF RefIn
  <2>2. CASE \E k \in i..Len(s) : /\ s[k].tag = "FiberRefCont" /\ v = s[k].prev
                                 /\ \A j \in i..(k - 1) : s[j].tag # "FiberRefCont"
    <3>1. PICK k \in i..Len(s) : /\ IsLocal(s, k) /\ v = s[k].prev
                                 /\ \A j \in i..(k - 1) : ~IsLocal(s, j)
      BY <2>2 DEF IsLocal
    <3>2. k \in 1..Len(s) /\ \A j \in 1..(k - 1) : ~IsLocal(s, j)
      BY <1>1, <1>2, <3>1
    <3> QED
      BY <3>1, <3>2 DEF RefIn
  <2> QED
    BY <2>1, <2>2 DEF RestoredIn
<1>3. \A k \in 1..(i - 1) :
        IsLocal(t, k) /\ (\A m \in 1..(k - 1) : ~IsLocal(t, m)) => t[k].prev = 0
  <2> TAKE k \in 1..(i - 1)
  <2>1. k \in 1..Len(s) /\ \A m \in 1..(k - 1) : m \in 1..(i - 1)
    BY <1>1
  <2>2. IsLocal(t, k) = IsLocal(s, k) /\ \A m \in 1..(k - 1) : IsLocal(t, m) = IsLocal(s, m)
    BY <1>1, <2>1 DEF IsLocal
  <2> QED
    BY <1>1, <2>1, <2>2 DEF RefIn
<1>4. (\A j \in 1..(i - 1) : ~IsLocal(t, j)) => v = 0
  BY <1>1, <1>2 DEF IsLocal
<1>5. RefIn(t, v) /\ (i = 1 => v = 0)
  BY <1>1, <1>2, <1>3, <1>4 DEF RefIn
<1> QED
  BY <1>5 DEF t

LEMMA MaskPush ==
  ASSUME NEW s \in Seq(Frames), NEW d, NEW e, MaskIn(s, d), NEW f \in Frames,
         \/ f.tag # "InterruptibilityCont" /\ e = d
         \/ f.tag = "InterruptibilityCont" /\ f.prev = d /\ f.shields = (e > 0)
  PROVE  MaskIn(Append(s, f), e)
<1> DEFINE t == Append(s, f)  n == Len(s) + 1
<1>1. /\ Len(s) \in Nat /\ Len(t) = n /\ t[n] = f /\ \A j \in 1..Len(s) : t[j] = s[j]
  BY AppendProperties
<1> HIDE DEF t
<1>2. \A k \in 1..n : Shielded(t, k) <=> Shielded(s, k)
  BY <1>1, ShieldLocal
<1>3. n \in 1..n /\ \A j \in 1..Len(s) : j \in 1..n
  BY <1>1
<1>4. \A j \in 1..Len(s) : IsRegion(t, j) => (t[j].prev > 0 <=> Shielded(t, j))
  BY <1>1, <1>2, <1>3 DEF MaskIn, IsRegion
<1>5. CASE f.tag # "InterruptibilityCont" /\ e = d
  <2>1. Shielded(t, n + 1) <=> Shielded(t, n)
    BY <1>1, <1>5, ShieldGap DEF IsRegion
  <2> QED
    BY <1>1, <1>2, <1>3, <1>4, <1>5, <2>1 DEF MaskIn, IsRegion, t
<1>6. CASE f.tag = "InterruptibilityCont" /\ f.prev = d /\ f.shields = (e > 0)
  <2>1. Shielded(t, n + 1) <=> e > 0
    <3>1. ASSUME NEW i \in 1..n, \A j \in (i + 1)..n : ~IsRegion(t, j) PROVE i = n
      BY <1>1, <1>6, <3>1 DEF IsRegion
    <3>2. n \in 1..n /\ n + 1 - 1 = n /\ \A j \in (n + 1)..n : ~IsRegion(t, j)
      BY <1>1
    <3>3. IsRegion(t, n) /\ t[n].shields <=> e > 0
      BY <1>1, <1>6 DEF IsRegion
    <3> HIDE DEF n
    <3> QED
      BY <3>1, <3>2, <3>3 DEF Shielded
  <2>2. IsRegion(t, n) => (t[n].prev > 0 <=> Shielded(t, n))
    BY <1>1, <1>2, <1>3, <1>6 DEF MaskIn
  <2> QED
    BY <1>1, <1>4, <2>1, <2>2 DEF MaskIn, t
<1> QED
  BY <1>5, <1>6

LEMMA RefPush ==
  ASSUME NEW s \in Seq(Frames), NEW r, NEW v, RefIn(s, r), NEW f \in Frames,
         \/ f.tag # "FiberRefCont" /\ v = r
         \/ f.tag = "FiberRefCont" /\ f.prev = r
  PROVE  RefIn(Append(s, f), v)
<1> DEFINE t == Append(s, f)  n == Len(s) + 1
<1>1. /\ Len(s) \in Nat /\ Len(t) = n /\ t[n] = f /\ \A j \in 1..Len(s) : t[j] = s[j]
  BY AppendProperties
<1> HIDE DEF t
<1>2. \A j \in 1..Len(s) : IsLocal(t, j) = IsLocal(s, j)
  BY <1>1 DEF IsLocal
<1>3. ASSUME NEW k \in 1..n, IsLocal(t, k), \A m \in 1..(k - 1) : ~IsLocal(t, m)
      PROVE  t[k].prev = 0
  <2>1. CASE k \in 1..Len(s)
    <3>1. \A m \in 1..(k - 1) : m \in 1..Len(s)
      BY <2>1
    <3> QED
      BY <1>1, <1>2, <1>3, <2>1, <3>1 DEF RefIn
  <2>2. CASE k = n
    <3>1. \A m \in 1..Len(s) : ~IsLocal(s, m)
      BY <1>1, <1>2, <1>3, <2>2
    <3>2. f.tag = "FiberRefCont"
      BY <1>1, <1>3, <2>2 DEF IsLocal
    <3> QED
      BY <1>1, <2>2, <3>1, <3>2 DEF RefIn
  <2> QED
    BY <1>1, <2>1, <2>2
<1>4. ASSUME \A j \in 1..n : ~IsLocal(t, j) PROVE v = 0
  <2>1. n \in 1..n /\ \A j \in 1..Len(s) : j \in 1..n
    BY <1>1
  <2>2. f.tag # "FiberRefCont" /\ \A j \in 1..Len(s) : ~IsLocal(s, j)
    BY <1>1, <1>2, <1>4, <2>1 DEF IsLocal
  <2> QED
    BY <2>2 DEF RefIn
<1>5. RefIn(t, v)
  BY <1>1, <1>3, <1>4 DEF RefIn
<1> QED
  BY <1>5 DEF t

\* What a step may do to the stack and to what its frames saved: leave all as it is,
\* pop frames, all of them when the fiber ends by value or typed failure, or push one.
StackSame ==
  /\ UNCHANGED <<stack, depth, ref>>
  /\ closing' = closing \/ (closing = None /\ closing' \in {Die, Interrupt})

StackPop ==
  /\ closing = None /\ closing' \in Exits \union {None}
  /\ \E i \in 1..(Len(stack) + 1) :
       Unwind(i) /\ (closing' \in {None, Die, Interrupt} \/ i = 1)

PushBind == /\ \E tag \in {"SuccessCont", "FoldCont"} : Push(Frame(tag, 0, FALSE))
            /\ UNCHANGED <<depth, ref>>
CanEnter(e) == e \in {0, depth + 1} \/ \E j \in 1..Len(stack) : e = stack[j].prev
PushRegion == (\E e \in Nat : CanEnter(e) /\ EnterRegion(e)) /\ UNCHANGED ref
PushLocal == /\ Push(Frame("FiberRefCont", ref, FALSE))
             /\ ref' = ref + 1 /\ UNCHANGED depth
StackPush ==
  /\ closing = None /\ closing' = None /\ fuel > 0 /\ fuel' = fuel - 1
  /\ PushBind \/ PushRegion \/ PushLocal

StackStep == fuel' \in 0..fuel /\ (StackSame \/ StackPop \/ StackPush)

StackBounds == /\ WithinFuel(depth) /\ WithinFuel(ref)
               /\ \A i \in 1..Len(stack) : WithinFuel(stack[i].prev)
StackTypes == stack \in Seq(Frames) /\ depth \in 0..MaxOps /\ ref \in 0..MaxOps
StackInv == /\ fuel \in 0..MaxOps /\ StackTypes /\ StackBounds
            /\ MaskDiscipline /\ RefDiscipline /\ RefRestoredOnReturn

LEMMA FrameTypes ==
  ASSUME stack \in Seq(Frames)
  PROVE  Len(stack) \in Nat /\ \A k \in 1..Len(stack) : stack[k] \in Frames /\ stack[k].prev \in Nat
<1>1. \A f \in Frames : f.prev \in Nat
  BY BoundsAssumption DEF Frames
<1>2. Len(stack) \in Nat /\ \A k \in 1..Len(stack) : stack[k] \in Frames
  OBVIOUS
<1> QED
  BY <1>1, <1>2

LEMMA SumShrinks ==
  ASSUME NEW m \in Nat, NEW f \in Nat, NEW g \in Nat, g <= f, NEW n \in Nat, n + f <= m
  PROVE  n + g <= m
OBVIOUS

LEMMA SumBounds ==
  ASSUME NEW m \in Nat, NEW f \in Nat, NEW n \in Nat, n + f <= m
  PROVE  n \in 0..m
OBVIOUS

LEMMA LessFuel ==
  ASSUME fuel \in 0..MaxOps, fuel' \in 0..fuel
  PROVE  fuel' \in 0..MaxOps /\ \A n \in Nat : n + fuel <= MaxOps => n + fuel' <= MaxOps
<1>1. MaxOps \in Nat /\ fuel \in Nat /\ fuel' \in Nat /\ fuel' <= fuel /\ fuel <= MaxOps
  BY BoundsAssumption
<1>2. ASSUME NEW n \in Nat, n + fuel <= MaxOps PROVE n + fuel' <= MaxOps
  BY <1>1, <1>2, SumShrinks
<1>3. fuel' \in 0..MaxOps
  BY <1>1
<1> QED
  BY <1>2, <1>3

LEMMA PopKeeps == ASSUME StackInv, fuel' \in 0..fuel, StackPop PROVE StackInv'
<1>1. PICK i \in 1..(Len(stack) + 1) :
             Unwind(i) /\ (closing' \in {None, Die, Interrupt} \/ i = 1)
  BY DEF StackPop
<1>2. /\ stack \in Seq(Frames) /\ Len(stack) \in Nat /\ MaxOps \in Nat
      /\ closing = None /\ fuel \in 0..MaxOps
      /\ MaskIn(stack, depth) /\ RefIn(stack, ref)
  BY MaskNow, RefNow, BoundsAssumption DEF StackInv, StackTypes, StackPop
<1>3. PICK d \in 0..MaxOps : Restored(i, "InterruptibilityCont", depth, d) /\ depth' = d
  BY <1>1 DEF Unwind
<1>4. PICK r \in 0..MaxOps : Restored(i, "FiberRefCont", ref, r) /\ ref' = r
  BY <1>1 DEF Unwind
<1>5. /\ RestoredIn(stack, i, "InterruptibilityCont", depth, d)
      /\ RestoredIn(stack, i, "FiberRefCont", ref, r)
  BY <1>2, <1>3, <1>4, RestoredNow
<1>6. /\ stack' = SubSeq(stack, 1, i - 1) /\ stack' \in Seq(Frames) /\ Len(stack') = i - 1
      /\ \A j \in 1..(i - 1) : stack'[j] = stack[j]
  BY <1>1, <1>2, PopStack DEF Unwind
<1>7. MaskIn(stack', depth')
  BY <1>2, <1>3, <1>5, <1>6, MaskPop
<1>8. RefIn(stack', ref') /\ (i = 1 => ref' = 0)
  BY <1>2, <1>4, <1>5, <1>6, RefPop
<1>9. MaskDiscipline' /\ RefDiscipline'
  BY <1>6, <1>7, <1>8, MaskNow, RefNow
<1>10. RefRestoredOnReturn'
  <2>1. "fail" \notin Die /\ "fail" \notin Interrupt /\ Die # Success /\ Interrupt # Success
    BY DEF Die, Interrupt, Success
  <2> QED
    BY <1>1, <1>8, <2>1 DEF RefRestoredOnReturn
<1>11. StackBounds'
  <2>1. /\ depth = d \/ \E k \in 1..Len(stack) : d = stack[k].prev
        /\ ref = r \/ \E k \in 1..Len(stack) : r = stack[k].prev
    BY <1>2, <1>5 DEF RestoredIn
  <2>2. depth \in Nat /\ ref \in Nat /\ \A k \in 1..Len(stack) : stack[k].prev \in Nat
    BY <1>2, FrameTypes DEF StackInv, StackTypes
  <2>3. \A n \in Nat : n + fuel <= MaxOps => n + fuel' <= MaxOps
    BY <1>2, LessFuel
  <2>4. d + fuel' <= MaxOps /\ r + fuel' <= MaxOps
    BY <2>1, <2>2, <2>3 DEF StackInv, StackBounds, WithinFuel
  <2>5. \A j \in 1..(i - 1) : j \in 1..Len(stack)
    BY <1>2
  <2>6. \A j \in 1..Len(stack) : stack[j].prev + fuel' <= MaxOps
    BY <2>2, <2>3 DEF StackInv, StackBounds, WithinFuel
  <2> QED
    BY <1>3, <1>4, <1>6, <2>4, <2>5, <2>6 DEF StackBounds, WithinFuel
<1> QED
  BY <1>2, <1>3, <1>4, <1>6, <1>9, <1>10, <1>11, LessFuel DEF StackInv, StackTypes

LEMMA PushKeeps == ASSUME StackInv, StackPush PROVE StackInv'
<1>1. /\ stack \in Seq(Frames) /\ Len(stack) \in Nat /\ MaxOps \in Nat
      /\ closing = None /\ closing' = None /\ fuel \in 1..MaxOps /\ fuel' = fuel - 1
      /\ depth \in 0..MaxOps /\ ref \in 0..MaxOps
      /\ depth + fuel <= MaxOps /\ ref + fuel <= MaxOps
      /\ MaskIn(stack, depth) /\ RefIn(stack, ref)
  BY MaskNow, RefNow, BoundsAssumption
     DEF StackInv, StackTypes, StackPush, StackBounds, WithinFuel
<1>2. \A j \in 1..Len(stack) : /\ stack[j] \in Frames /\ stack[j].prev \in Nat
                               /\ stack[j].prev + fuel <= MaxOps
  BY <1>1, FrameTypes DEF StackInv, StackBounds, WithinFuel
<1>3. PICK f \in Frames :
        /\ stack' = Append(stack, f) /\ f.prev + fuel' <= MaxOps
        /\ depth' \in Nat /\ depth' + fuel' <= MaxOps /\ ref' \in Nat /\ ref' + fuel' <= MaxOps
        /\ \/ f.tag # "InterruptibilityCont" /\ depth' = depth
           \/ f.tag = "InterruptibilityCont" /\ f.prev = depth /\ f.shields = (depth' > 0)
        /\ \/ f.tag # "FiberRefCont" /\ ref' = ref
           \/ f.tag = "FiberRefCont" /\ f.prev = ref
  <2>1. CASE PushBind
    <3>1. PICK tag \in {"SuccessCont", "FoldCont"} : Push(Frame(tag, 0, FALSE))
      BY <2>1 DEF PushBind
    <3>2. Frame(tag, 0, FALSE) \in Frames
      BY <1>1 DEF Frame, Frames
    <3> QED
      BY <1>1, <2>1, <3>1, <3>2 DEF PushBind, Push, Frame
  <2>2. CASE PushRegion
    <3>1. PICK e \in Nat : CanEnter(e) /\ EnterRegion(e)
      BY <2>2 DEF PushRegion
    <3>2. e + fuel' <= MaxOps
      BY <1>1, <1>2, <3>1 DEF CanEnter
    <3>3. Frame("InterruptibilityCont", depth, e > 0) \in Frames
      BY <1>1, <3>1 DEF Frame, Frames
    <3> QED
      BY <1>1, <2>2, <3>1, <3>2, <3>3 DEF PushRegion, EnterRegion, Push, Frame
  <2>3. CASE PushLocal
    <3>1. Frame("FiberRefCont", ref, FALSE) \in Frames
      BY <1>1 DEF Frame, Frames
    <3> QED
      BY <1>1, <2>3, <3>1 DEF PushLocal, Push, Frame
  <2> QED
    BY <2>1, <2>2, <2>3 DEF StackPush
<1>4. /\ stack' \in Seq(Frames) /\ Len(stack') = Len(stack) + 1 /\ stack'[Len(stack) + 1] = f
      /\ \A j \in 1..Len(stack) : stack'[j] = stack[j]
  BY <1>1, <1>3, AppendProperties
<1>5. MaskIn(stack', depth') /\ RefIn(stack', ref')
  BY <1>1, <1>3, MaskPush, RefPush
<1>6. MaskDiscipline' /\ RefDiscipline' /\ RefRestoredOnReturn'
  BY <1>1, <1>4, <1>5, MaskNow, RefNow DEF RefRestoredOnReturn
<1>7. StackBounds'
  <2>1. \A j \in 1..Len(stack) : stack[j].prev + fuel' <= MaxOps
    BY <1>1, <1>2
  <2>2. ASSUME NEW j \in 1..Len(stack') PROVE stack'[j].prev + fuel' <= MaxOps
    BY <1>1, <1>3, <1>4, <2>1
  <2> QED
    BY <1>3, <2>2 DEF StackBounds, WithinFuel
<1>8. fuel' \in 0..MaxOps /\ depth' \in 0..MaxOps /\ ref' \in 0..MaxOps
  <2>1. fuel' \in Nat /\ fuel' <= MaxOps /\ MaxOps \in Nat
    BY <1>1
  <2>2. /\ depth' \in Nat /\ depth' + fuel' <= MaxOps
        /\ ref' \in Nat /\ ref' + fuel' <= MaxOps
    BY <1>3
  <2>3. ASSUME NEW n \in Nat, n + fuel' <= MaxOps PROVE n \in 0..MaxOps
    BY <2>1, <2>3, SumBounds
  <2>4. fuel' \in 0..MaxOps
    BY <2>1
  <2>5. depth' \in 0..MaxOps
    BY <2>2, <2>3
  <2>6. ref' \in 0..MaxOps
    BY <2>2, <2>3
  <2> QED
    BY <2>4, <2>5, <2>6
<1> QED
  BY <1>4, <1>6, <1>7, <1>8 DEF StackInv, StackTypes

LEMMA SameKeeps == ASSUME StackInv, fuel' \in 0..fuel, StackSame PROVE StackInv'
<1>1. /\ MaxOps \in Nat /\ fuel \in 0..MaxOps /\ stack' = stack /\ depth' = depth /\ ref' = ref
      /\ Len(stack) \in Nat
      /\ depth \in Nat /\ ref \in Nat /\ \A k \in 1..Len(stack) : stack[k].prev \in Nat
  BY BoundsAssumption, FrameTypes DEF StackInv, StackTypes, StackSame
<1>2. fuel' \in 0..MaxOps /\ \A n \in Nat : n + fuel <= MaxOps => n + fuel' <= MaxOps
  BY <1>1, LessFuel
<1>3. StackBounds'
  BY <1>1, <1>2 DEF StackInv, StackBounds, WithinFuel
<1>4. closing' = None => closing = None
  BY NoneAssumption DEF StackSame, Exits, Die, Interrupt
<1>5. MaskDiscipline' /\ RefDiscipline'
  BY <1>1, <1>4, MaskNow, RefNow DEF StackInv
<1>6. RefRestoredOnReturn'
  <2>1. "fail" \notin Die /\ "fail" \notin Interrupt /\ Die # Success /\ Interrupt # Success
    BY DEF Die, Interrupt, Success
  <2> QED
    BY <1>1, <2>1 DEF StackInv, RefRestoredOnReturn, StackSame
<1> QED
  BY <1>1, <1>2, <1>3, <1>5, <1>6 DEF StackInv, StackTypes

LEMMA StackKeeps == ASSUME StackInv, StackStep PROVE StackInv'
BY PopKeeps, PushKeeps, SameKeeps DEF StackStep

-----------------------------------------------------------------------------
(* What the evaluator does to the stack *)

\* A value or a cause found a frame that goes on with it, or ended the fiber.
Continues == closing' = None /\ phase' = "eval" /\ code' = "next" /\ setsDone' = setsDone
Ends(e) == closing' = e /\ phase' = "closing" /\ code' = code
Unwinds ==
  \E i \in 1..(Len(stack) + 1) :
    /\ Unwind(i)
    /\ \/ Continues
       \/ \E e \in Exits : /\ Ends(e) /\ setsDone' = TRUE
                           /\ i = 1 \/ e \in {Die, Interrupt}
                           /\ e = Success => ~interrupted

\* The end of the program is a success only if no interrupt came.
LEMMA OnSuccessUnwinds ==
  ASSUME IInv, closing = None, OnSuccess
  PROVE  Unwinds
<1>1. /\ stack \in Seq(Frames) /\ Len(stack) \in Nat /\ MaskIn(stack, depth)
  BY MaskNow DEF IInv, TypeOK
<1>2. PICK s \in 0..Len(stack) :
    LET borders == {j \in FramesFrom(s + 1, "InterruptibilityCont") : Pending(j)}
    IN  /\ TakesValue(s)
        /\ \/ /\ \E j \in borders : (\A k \in borders : k <= j) /\ Unwind(j)
              /\ Close(Interrupt, TRUE)
              /\ UNCHANGED code
           \/ /\ borders = {} /\ s = 0
              /\ Unwind(1)
              /\ Close(IF interrupted /\ depth' = 0 THEN Interrupt ELSE Success, TRUE)
              /\ UNCHANGED code
           \/ /\ borders = {} /\ s > 0
              /\ Unwind(s)
              /\ \/ code' = "next" /\ phase' = "eval" /\ NoClose
                 \/ Close(Die, TRUE) /\ UNCHANGED code
  BY DEF OnSuccess
<1> DEFINE borders == {j \in FramesFrom(s + 1, "InterruptibilityCont") : Pending(j)}
<1>3. /\ 1 \in 1..(Len(stack) + 1) /\ \A j \in 1..Len(stack) : j \in 1..(Len(stack) + 1)
      /\ \A j \in borders : j \in 1..Len(stack)
  BY <1>1 DEF FramesFrom
<1>4. Success \in Exits /\ Die \in Exits /\ Interrupt \in Exits /\ Die # Success /\ Interrupt # Success
  BY DEF Success, Die, Interrupt, Exits
<1>5. CASE /\ \E j \in borders : (\A k \in borders : k <= j) /\ Unwind(j)
           /\ Close(Interrupt, TRUE) /\ UNCHANGED code
  BY <1>3, <1>4, <1>5 DEF Unwinds, Ends, Close
<1>6. CASE /\ borders = {} /\ s = 0 /\ Unwind(1)
           /\ Close(IF interrupted /\ depth' = 0 THEN Interrupt ELSE Success, TRUE)
           /\ UNCHANGED code
  <2>1. ASSUME interrupted PROVE depth' = 0
    <3>1. RestoredIn(stack, 1, "InterruptibilityCont", depth, depth')
      BY <1>1, <1>6, RestoredNow DEF Unwind
    <3>2. \A j \in 1..Len(stack) : ~(IsRegion(stack, j) /\ stack[j].prev = 0)
      BY <1>1, <1>6, <2>1 DEF FramesFrom, Pending, IsRegion
    <3>3. CASE (\A j \in 1..Len(stack) : ~IsRegion(stack, j)) /\ depth' = depth
      <4>1. ~Shielded(stack, Len(stack) + 1) /\ depth \in Nat
        BY <1>1, <3>3, BoundsAssumption DEF Shielded, IInv, TypeOK
      <4> QED
        BY <1>1, <3>3, <4>1 DEF MaskIn
    <3>4. CASE \E k \in 1..Len(stack) : IsRegion(stack, k) /\ \A j \in 1..(k - 1) : ~IsRegion(stack, j)
      <4>1. PICK k \in 1..Len(stack) : IsRegion(stack, k) /\ \A j \in 1..(k - 1) : ~IsRegion(stack, j)
        BY <3>4
      <4>2. ~Shielded(stack, k) /\ stack[k].prev \in Nat
        BY <1>1, <4>1, FrameTypes DEF Shielded
      <4>3. stack[k].prev = 0
        BY <1>1, <4>1, <4>2 DEF MaskIn
      <4> QED
        BY <3>2, <4>1, <4>3
    <3> QED
      BY <3>1, <3>3, <3>4 DEF RestoredIn, IsRegion
  <2> DEFINE e == IF interrupted /\ depth' = 0 THEN Interrupt ELSE Success
  <2>2. e \in Exits /\ (e = Success => ~interrupted)
    BY <1>4, <2>1
  <2>3. Ends(e) /\ setsDone' = TRUE
    BY <1>6 DEF Ends, Close
  <2> HIDE DEF e
  <2> QED
    BY <1>3, <1>6, <2>2, <2>3 DEF Unwinds
<1>7. CASE borders = {} /\ s > 0 /\ Unwind(s) /\ code' = "next" /\ phase' = "eval" /\ NoClose
  BY <1>1, <1>3, <1>7 DEF Unwinds, Continues, NoClose
<1>8. CASE borders = {} /\ s > 0 /\ Unwind(s) /\ Close(Die, TRUE) /\ UNCHANGED code
  BY <1>1, <1>3, <1>4, <1>8 DEF Unwinds, Ends, Close
<1> QED
  BY <1>2, <1>5, <1>6, <1>7, <1>8

\* A cause is handled by a frame, or ends the fiber with what it says.
LEMMA UnhandledEnds ==
  ASSUME NEW cause \in {Fail, Die, Interrupt}, NEW done, Unhandled(cause, done)
  PROVE  /\ Unwind(1) /\ setsDone' = done
         /\ \E e \in Exits \ {Success} : Ends(e)
<1> DEFINE e == IF PendingAbove(0) /\ ~IsInterruptedOnly(cause) THEN Then(cause, Interrupt) ELSE cause
<1>1. Ends(e) /\ Unwind(1) /\ setsDone' = done
  BY DEF Unhandled, Ends, Close
<1>2. e \in Exits /\ e # Success
  BY DEF Exits, Success, Fail, Die, Interrupt, Then
<1> QED
  BY <1>1, <1>2

LEMMA HandledUnwinds ==
  ASSUME Len(stack) \in Nat, NEW cause, Handled(cause)
  PROVE  \E i \in 1..(Len(stack) + 1) : Unwind(i) /\ code' = "next"
BY DEF Handled, Handlers, FramesFrom

LEMMA OnCauseUnwinds ==
  ASSUME Len(stack) \in Nat, closing = None, NEW cause \in {Fail, Die, Interrupt}, OnCause(cause)
  PROVE  Unwinds
<1>1. CASE Handled(cause) /\ phase' = "eval" /\ NoClose
  BY <1>1, HandledUnwinds DEF Unwinds, Continues, NoClose
<1>2. CASE Unhandled(cause, TRUE)
  <2>1. 1 \in 1..(Len(stack) + 1)
    OBVIOUS
  <2> QED
    BY <1>2, <2>1, UnhandledEnds DEF Unwinds
<1> QED
  BY <1>1, <1>2 DEF OnCause

LEMMA UnwindsPop == ASSUME closing = None, Unwinds PROVE StackPop
<1>1. PICK i \in 1..(Len(stack) + 1) :
    /\ Unwind(i)
    /\ \/ Continues
       \/ \E e \in Exits : Ends(e) /\ (i = 1 \/ e \in {Die, Interrupt})
  BY DEF Unwinds
<1>2. closing' \in Exits \union {None} /\ (closing' \in {None, Die, Interrupt} \/ i = 1)
  BY <1>1 DEF Continues, Ends
<1> QED
  BY <1>1, <1>2 DEF StackPop

LEMMA ScheduleCloses ==
  ASSUME NEW then, Schedule(then)
  PROVE  \/ closing' = closing /\ phase' = then
         \/ closing = None /\ closing' = Die /\ phase' = "closing"
BY DEF Schedule, Close, NoClose

LEMMA InterruptCloses ==
  ASSUME NEW then, DoInterrupt(then)
  PROVE  /\ result = None /\ ~interrupted /\ interrupted' = TRUE
         /\ \/ closing' = closing /\ phase' = then
            \/ closing = None /\ closing' = Die /\ phase' = "closing"
BY ScheduleCloses DEF DoInterrupt, NoClose

LEMMA IInvStack == ASSUME IInv PROVE StackInv
BY DEF IInv, TypeOK, FuelBounds, StackInv, StackTypes, StackBounds

LEMMA StepStack == ASSUME IInv, [Next]_vars PROVE StackStep
<1>1. /\ stack \in Seq(Frames) /\ Len(stack) \in Nat /\ fuel \in Nat /\ fuel \in 0..fuel
      /\ \A k \in 1..Len(stack) : stack[k].prev \in Nat
      /\ depth \in Nat /\ Die \in {Die, Interrupt} /\ TurnExit
      /\ Fail \in {Fail, Die, Interrupt} /\ Die \in {Fail, Die, Interrupt}
      /\ Interrupt \in {Fail, Die, Interrupt}
  <2>1. stack \in Seq(Frames) /\ fuel \in Nat /\ depth \in Nat /\ TurnExit
    BY BoundsAssumption DEF IInv, TypeOK
  <2>2. fuel \in 0..fuel
    BY <2>1
  <2> QED
    BY <2>1, <2>2, FrameTypes
<1>2. phase = "eval" => closing = None
  BY <1>1 DEF TurnExit
<1>3. fuel > 0 => fuel - 1 \in 0..fuel
  BY <1>1
<1>4. CASE UNCHANGED <<evalVars, closing>>
  BY <1>1, <1>4 DEF StackStep, StackSame, evalVars
<1>5. CASE BeginStep
  <2>1. CASE runState = "Done" \/ result # None
    BY <1>4, <1>5, <2>1 DEF BeginStep
  <2>2. CASE ~(runState = "Done" \/ result # None) /\ interrupted /\ depth = 0
    <3>1. OnCause(Interrupt) /\ closing = None /\ fuel' = fuel
      BY <1>1, <1>5, <2>2 DEF BeginStep, TurnExit
    <3> QED
      BY <1>1, <3>1, OnCauseUnwinds, UnwindsPop DEF StackStep
  <2>3. CASE ~(runState = "Done" \/ result # None) /\ ~(interrupted /\ depth = 0)
    BY <1>4, <1>5, <2>3 DEF BeginStep, evalVars
  <2> QED
    BY <2>1, <2>2, <2>3
<1>6. CASE Yield
  BY <1>1, <1>6, ScheduleCloses DEF Yield, StackStep, StackSame, evalVars
<1>7. CASE EvalSucceed
  <2>1. OnSuccess /\ closing = None /\ fuel' = fuel
    BY <1>2, <1>7 DEF EvalSucceed
  <2> QED
    BY <1>1, <2>1, OnSuccessUnwinds, UnwindsPop DEF StackStep
<1>8. CASE EvalFail
  <2>1. OnCause(Fail) /\ closing = None /\ fuel' = fuel
    BY <1>2, <1>8 DEF EvalFail
  <2> QED
    BY <1>1, <2>1, OnCauseUnwinds, UnwindsPop DEF StackStep
<1>9. ASSUME Spend PROVE closing = None /\ fuel > 0 /\ fuel' = fuel - 1 /\ fuel' \in 0..fuel
  BY <1>2, <1>3, <1>9 DEF Spend
<1>10. CASE EvalBind
  BY <1>9, <1>10 DEF EvalBind, StayInLoop, NoClose, StackStep, StackPush, PushBind
<1>11. CASE EvalThrow
  <2>1. CASE Close(Die, TRUE) /\ UNCHANGED <<code, stack, depth, ref>>
    BY <1>1, <1>9, <1>11, <2>1 DEF EvalThrow, Close, StackStep, StackSame
  <2>2. CASE OnCause(Die)
    BY <1>1, <1>9, <1>11, <2>2, OnCauseUnwinds, UnwindsPop DEF EvalThrow, StackStep
  <2> QED
    BY <1>11, <2>1, <2>2 DEF EvalThrow
<1>12. CASE EvalInterruptibility
  <2>1. Spend /\ StayInLoop /\ UNCHANGED ref /\ \E e \in {depth + 1, 0} : EnterRegion(e)
    BY <1>12 DEF EvalInterruptibility
  <2>2. PICK e \in Nat : CanEnter(e) /\ EnterRegion(e)
    BY <1>1, <2>1 DEF CanEnter
  <2> QED
    BY <1>9, <2>1, <2>2 DEF StayInLoop, NoClose, StackStep, StackPush, PushRegion
<1>13. CASE EvalRestore
  <2>1. Spend /\ StayInLoop /\ UNCHANGED ref
    BY <1>13 DEF EvalRestore
  <2>2. PICK j \in FramesFrom(1, "InterruptibilityCont") : EnterRegion(stack[j].prev)
    BY <1>13 DEF EvalRestore
  <2>3. j \in 1..Len(stack)
    BY <2>2 DEF FramesFrom
  <2>4. PICK e \in Nat : CanEnter(e) /\ EnterRegion(e)
    BY <1>1, <2>2, <2>3 DEF CanEnter
  <2> QED
    BY <1>9, <2>1, <2>4 DEF StayInLoop, NoClose, StackStep, StackPush, PushRegion
<1>14. CASE EvalLocally
  BY <1>9, <1>14 DEF EvalLocally, StayInLoop, NoClose, StackStep, StackPush, PushLocal
<1>15. CASE EvalAddFinalizer
  BY <1>9, <1>15, OnSuccessUnwinds, UnwindsPop DEF EvalAddFinalizer, StackStep
<1>16. CASE EvalSelfInterrupt
  BY <1>1, <1>9, <1>16, InterruptCloses DEF EvalSelfInterrupt, StackStep, StackSame
<1>17. CASE EvalAsync
  <2>1. fuel' \in 0..fuel /\ closing = None
    BY <1>1, <1>2, <1>3, <1>17 DEF EvalAsync
  <2>2. CASE OnSuccess \/ OnCause(Fail)
    BY <1>1, <2>1, <2>2, OnSuccessUnwinds, OnCauseUnwinds, UnwindsPop DEF StackStep
  <2>3. CASE NoClose /\ UNCHANGED <<stack, depth, ref>>
    BY <2>1, <2>3 DEF NoClose, StackStep, StackSame
  <2> QED
    BY <1>17, <2>2, <2>3 DEF EvalAsync
<1>18. ASSUME NEW k \in Nodes, Answer(k) PROVE StackStep
  <2>1. CASE resolved \/ closing # None
    BY <1>4, <1>18, <2>1 DEF Answer
  <2>2. CASE ~(resolved \/ closing # None)
    <3>1. closing = None /\ fuel' = fuel
      BY <1>18, <2>2 DEF Answer
    <3>2. CASE Schedule("idle") /\ UNCHANGED <<stack, depth, ref>>
      BY <1>1, <3>1, <3>2, ScheduleCloses DEF StackStep, StackSame
    <3>3. CASE Handled(Fail) /\ Schedule("idle")
      <4>1. PICK i \in 1..(Len(stack) + 1) : Unwind(i)
        BY <1>1, <3>3, HandledUnwinds
      <4>2. closing' \in {None, Die} /\ Die \in Exits
        BY <3>1, <3>3, ScheduleCloses DEF Die, Exits
      <4>3. StackPop
        BY <3>1, <4>1, <4>2 DEF StackPop
      <4> QED
        BY <1>1, <3>1, <4>3 DEF StackStep
    <3>4. CASE Unhandled(Fail, FALSE)
      <4>1. Unwind(1) /\ closing' \in Exits
        BY <1>1, <3>4, UnhandledEnds DEF Ends
      <4>2. 1 \in 1..(Len(stack) + 1)
        BY <1>1
      <4>3. StackPop
        BY <3>1, <4>1, <4>2 DEF StackPop
      <4> QED
        BY <1>1, <3>1, <4>3 DEF StackStep
    <3> QED
      BY <1>18, <2>2, <3>2, <3>3, <3>4 DEF Answer
  <2> QED
    BY <2>1, <2>2
<1>19. CASE InterruptCall
  BY <1>1, <1>19, InterruptCloses DEF InterruptCall, StackStep, StackSame, evalVars
<1>20. ASSUME NEW j \in Joiners, JoinCall(j) PROVE StackStep
  BY <1>4, <1>20 DEF JoinCall
<1>21. CASE RunFinalizer
  <2>1. UNCHANGED evalVars /\ phase = "closing" /\ closing # None
    BY <1>1, <1>21 DEF RunFinalizer, TurnExit
  <2>2. UNCHANGED closing
    BY <1>21, <2>1, InterruptCloses DEF RunFinalizer
  <2> QED
    BY <1>4, <2>1, <2>2
<1>22. CASE Publish
  BY <1>4, <1>22 DEF Publish
<1>23. ASSUME NEW j \in Joiners, NotifyJoiner(j) PROVE StackStep
  BY <1>4, <1>23 DEF NotifyJoiner
<1>24. CASE EndTurn
  BY <1>4, <1>24 DEF EndTurn, exitVars
<1>25. CASE UNCHANGED vars
  BY <1>4, <1>25 DEF vars, fiberVars, exitVars
<1> QED
  BY <1>5, <1>6, <1>7, <1>8, <1>10, <1>11, <1>12, <1>13, <1>14, <1>15, <1>16, <1>17, <1>18,
     <1>19, <1>20, <1>21, <1>22, <1>23, <1>24, <1>25 DEF Next, Step, Eval, Notify

-----------------------------------------------------------------------------
(* What a step does to the rest of the fiber *)

\* A node that neither suspends nor interrupts: the program goes on, or it ends.
Moves ==
  \/ closing' = None /\ phase' = "eval" /\ code' = "next" /\ setsDone' = setsDone
  \/ /\ closing' \in Exits /\ phase' = "closing" /\ code' = code /\ setsDone' = TRUE
     /\ closing' = Success => ~interrupted
QuietStep ==
  /\ phase = "eval" /\ code # "async"
  /\ UNCHANGED <<runState, entries, interrupted, asyncVars, result, waiting, told>>
  /\ finalizers' = finalizers \/ finalizers' = Append(finalizers, 0)
  /\ Moves
QuietEval == \/ EvalSucceed \/ EvalFail \/ EvalBind \/ EvalThrow \/ EvalInterruptibility
             \/ EvalRestore \/ EvalLocally \/ EvalAddFinalizer

LEMMA UnwindsMoves == Unwinds => Moves
BY DEF Unwinds, Continues, Ends, Moves

LEMMA EvalOpen == ASSUME IInv, phase = "eval" PROVE closing = None /\ result = None
BY DEF IInv, TurnExit

LEMMA QuietEvalStep == ASSUME IInv, QuietEval PROVE QuietStep
<1>0. phase = "eval"
  BY DEF QuietEval, EvalSucceed, EvalFail, EvalBind, EvalThrow, EvalInterruptibility,
         EvalRestore, EvalLocally, EvalAddFinalizer, Spend
<1>1. /\ phase = "eval" /\ closing = None /\ Len(stack) \in Nat
      /\ Fail \in {Fail, Die, Interrupt} /\ Die \in {Fail, Die, Interrupt}
  BY <1>0, EvalOpen DEF IInv, TypeOK
<1>2. ASSUME StayInLoop PROVE Moves
  BY <1>1, <1>2 DEF StayInLoop, NoClose, Moves
<1>3. CASE EvalSucceed
  BY <1>1, <1>3, OnSuccessUnwinds, UnwindsMoves DEF EvalSucceed, Quiet, QuietStep
<1>4. CASE EvalFail
  BY <1>1, <1>4, OnCauseUnwinds, UnwindsMoves DEF EvalFail, Quiet, QuietStep
<1>5. CASE EvalBind
  BY <1>2, <1>5 DEF EvalBind, Spend, Quiet, QuietStep
<1>6. CASE EvalThrow
  <2>1. CASE Close(Die, TRUE) /\ UNCHANGED code
    BY <1>6, <2>1 DEF EvalThrow, Spend, Quiet, QuietStep, Close, Moves, Die, Exits, Success
  <2>2. CASE OnCause(Die)
    BY <1>1, <1>6, <2>2, OnCauseUnwinds, UnwindsMoves DEF EvalThrow, Spend, Quiet, QuietStep
  <2> QED
    BY <1>6, <2>1, <2>2 DEF EvalThrow
<1>7. CASE EvalInterruptibility
  BY <1>2, <1>7 DEF EvalInterruptibility, Spend, Quiet, QuietStep
<1>8. CASE EvalRestore
  BY <1>2, <1>8 DEF EvalRestore, Spend, Quiet, QuietStep
<1>9. CASE EvalLocally
  BY <1>2, <1>9 DEF EvalLocally, Spend, Quiet, QuietStep
<1>10. CASE EvalAddFinalizer
  BY <1>1, <1>10, OnSuccessUnwinds, UnwindsMoves DEF EvalAddFinalizer, Spend, QuietStep
<1> QED
  BY <1>3, <1>4, <1>5, <1>6, <1>7, <1>8, <1>9, <1>10 DEF QuietEval

\* BeginStep: what is left to do for the program, if anything.
BeginDone == runState = "Done" \/ result # None

\* An interrupt is not handled by any frame.
LEMMA InterruptUnhandled ==
  ASSUME OnCause(Interrupt)
  PROVE  /\ setsDone' = TRUE /\ \E e \in Exits \ {Success} : Ends(e)
<1>1. ~Handled(Interrupt)
  <2>1. Interrupt # Fail
    BY DEF Interrupt, Fail
  <2> QED
    BY <2>1 DEF Handled, Handlers, IsFailureOnly
<1>2. Unhandled(Interrupt, TRUE) /\ Interrupt \in {Fail, Die, Interrupt}
  BY <1>1 DEF OnCause
<1> QED
  BY <1>2, UnhandledEnds

\* The fiber ends, not by success.
Fails == closing' \in Exits \ {Success} /\ phase' = "closing"

BeginOver == /\ runState = "Done" \/ result # None
             /\ runState' = "Done" /\ UNCHANGED <<phase, setsDone, code, closing>>
BeginUnwinds == /\ result = None /\ closing = None /\ interrupted /\ depth = 0
                /\ Fails /\ code' = code /\ setsDone' = TRUE
BeginEval == /\ runState # "Done" /\ result = None /\ closing = None
             /\ ~(interrupted /\ depth = 0)
             /\ runState' = "Running" /\ phase' = "eval" /\ UNCHANGED <<setsDone, code, closing>>
BeginEffect ==
  /\ phase = "idle" /\ entries > 0 /\ entries' = entries - 1
  /\ UNCHANGED <<interrupted, asyncVars, finalizers, result, waiting, told>>
  /\ runState' \in {"Done", "Running"}
  /\ BeginOver \/ BeginUnwinds \/ BeginEval

LEMMA BeginStepEffect == ASSUME IInv, BeginStep PROVE BeginEffect
<1>1. phase = "idle" => result = closing
  BY DEF IInv, TurnExit
<1>2. CASE runState = "Done" \/ result # None
  BY <1>2 DEF BeginStep, BeginEffect, BeginOver, evalVars
<1>3. CASE ~(runState = "Done" \/ result # None) /\ interrupted /\ depth = 0
  <2>1. OnCause(Interrupt)
    BY <1>3 DEF BeginStep
  <2>2. setsDone' = TRUE /\ \E e \in Exits \ {Success} : Ends(e)
    BY <2>1, InterruptUnhandled
  <2> QED
    BY <1>1, <1>3, <2>2 DEF BeginStep, BeginEffect, BeginUnwinds, Fails, Ends
<1>4. CASE ~(runState = "Done" \/ result # None) /\ ~(interrupted /\ depth = 0)
  BY <1>1, <1>4 DEF BeginStep, BeginEffect, BeginEval
<1> QED
  BY <1>2, <1>3, <1>4

\* schedule(): queued already, queued now, or refused.
AlreadyQueued == runState \in {"Queued", "Done"} /\ UNCHANGED <<runState, entries>>
QueuedNow == runState \in {"Running", "Suspended"} /\ runState' = "Queued" /\ entries' = entries + 1
Refused == runState \in {"Running", "Suspended"} /\ runState' = "Done" /\ UNCHANGED entries
ScheduleEffect(then) ==
  \/ AlreadyQueued /\ phase' = then /\ UNCHANGED <<closing, setsDone>>
  \/ QueuedNow /\ phase' = then /\ UNCHANGED <<closing, setsDone>>
  \/ Refused /\ closing = None /\ closing' = Die /\ Fails /\ setsDone' = TRUE
  \/ Refused /\ closing # None /\ phase' = then /\ UNCHANGED <<closing, setsDone>>

LEMMA ScheduleDoes == ASSUME NEW then, Schedule(then) PROVE ScheduleEffect(then)
<1>1. Die \in Exits \ {Success}
  BY DEF Die, Exits, Success
<1> QED
  BY <1>1 DEF Schedule, NoClose, Close, ScheduleEffect, AlreadyQueued, QueuedNow, Refused, Fails

InterruptEffect(then) ==
  /\ result = None /\ ~interrupted /\ interrupted' = TRUE
  /\ \/ ScheduleEffect(then)
     \/ phase' = then /\ UNCHANGED <<closing, setsDone, runState, entries>> /\ depth # 0

LEMMA InterruptDoes == ASSUME NEW then, DoInterrupt(then) PROVE InterruptEffect(then)
BY ScheduleDoes DEF DoInterrupt, InterruptEffect, NoClose

\* An answer that is taken.
AnswerTaken ==
  /\ closing = None /\ result = None /\ ~resolved /\ resolved' = TRUE
  /\ \/ /\ AlreadyQueued \/ QueuedNow
        /\ phase' = "idle" /\ code' \in {"value", "next"} /\ UNCHANGED <<closing, setsDone>>
     \/ /\ Refused \/ UNCHANGED <<runState, entries>>
        /\ Fails /\ code' \in {"value", "next", code} /\ setsDone' \in BOOLEAN
AnswerEffect(k) ==
  /\ phase = "idle" /\ answered[k] < MaxAnswers * registered[k]
  /\ answered' = [answered EXCEPT ![k] = @ + 1]
  /\ UNCHANGED <<interrupted, node, registered, cancelable, cancelled, result, waiting, told>>
  /\ \/ /\ resolved \/ closing # None
        /\ UNCHANGED <<runState, entries, phase, setsDone, code, resolved, resumes, finalizers, closing>>
     \/ /\ AnswerTaken
        /\ resumes' = resumes \union {<<node, k>>}
        /\ Detach(node)

LEMMA AnswerDoes == ASSUME IInv, NEW k \in Nodes, Answer(k) PROVE AnswerEffect(k)
<1>1. CASE resolved \/ closing # None
  BY <1>1 DEF Answer, AnswerEffect, evalVars
<1>2. CASE ~(resolved \/ closing # None)
  <2>1. /\ closing = None /\ ~resolved /\ resolved' = TRUE /\ phase = "idle"
        /\ resumes' = resumes \union {<<node, k>>} /\ Detach(node)
        /\ \/ code' = "value" /\ Schedule("idle")
           \/ Handled(Fail) /\ Schedule("idle")
           \/ Unhandled(Fail, FALSE) /\ UNCHANGED <<runState, entries>>
    BY <1>2 DEF Answer
  <2>2. result = None
    BY <2>1 DEF IInv, TurnExit
  <2>3. ASSUME code' \in {"value", "next"}, Schedule("idle") PROVE AnswerTaken
    <3>1. ScheduleEffect("idle")
      BY <2>3, ScheduleDoes
    <3>2. \/ (AlreadyQueued \/ QueuedNow) /\ phase' = "idle" /\ UNCHANGED <<closing, setsDone>>
          \/ Refused /\ Fails /\ setsDone' \in BOOLEAN
      BY <2>1, <3>1 DEF ScheduleEffect
    <3> QED
      BY <2>1, <2>2, <2>3, <3>2 DEF AnswerTaken
  <2>4. ASSUME Unhandled(Fail, FALSE), UNCHANGED <<runState, entries>> PROVE AnswerTaken
    <3>1. setsDone' = FALSE /\ \E e \in Exits \ {Success} : Ends(e)
      BY <2>4, UnhandledEnds
    <3>2. Fails /\ code' = code /\ setsDone' \in BOOLEAN
      BY <3>1 DEF Ends, Fails
    <3> QED
      BY <2>1, <2>2, <2>4, <3>2 DEF AnswerTaken
  <2>5. AnswerTaken
    BY <2>1, <2>3, <2>4 DEF Handled
  <2> QED
    BY <2>1, <2>5 DEF Answer, AnswerEffect
<1> QED
  BY <1>1, <1>2

\* An Async node: answered at once, or the fiber suspends.
AsyncEnters == \/ code = "async" /\ UNCHANGED <<fuel, node>>
               \/ code = "next" /\ fuel > 0 /\ fuel' = fuel - 1 /\ node' = node + 1
AsyncAnswered ==
  /\ resolved' = TRUE
  /\ answered' = [answered EXCEPT ![node'] = @ + 1]
  /\ resumes' = resumes \union {<<node', node'>>}
  /\ Moves
  /\ UNCHANGED <<runState, finalizers, cancelable>>
AsyncSuspends ==
  /\ resolved' = FALSE
  /\ runState' = "Suspended" /\ phase' = "idle" /\ code' = "async"
  /\ \/ finalizers' = Append(finalizers, node') /\ cancelable' = cancelable \union {node'}
     \/ UNCHANGED <<finalizers, cancelable>>
  /\ UNCHANGED <<closing, setsDone, answered, resumes>>
AsyncEffect ==
  /\ phase = "eval" /\ AsyncEnters
  /\ registered' = [registered EXCEPT ![node'] = @ + 1]
  /\ AsyncAnswered \/ AsyncSuspends
  /\ UNCHANGED <<entries, interrupted, cancelled, result, waiting, told>>

LEMMA EvalAsyncDoes == ASSUME IInv, EvalAsync PROVE AsyncEffect
<1>1. phase = "eval" /\ closing = None /\ Len(stack) \in Nat /\ Fail \in {Fail, Die, Interrupt}
  <2>1. phase = "eval" /\ Len(stack) \in Nat
    BY DEF EvalAsync, IInv, TypeOK
  <2> QED
    BY <2>1, EvalOpen
<1>2. ASSUME OnSuccess \/ OnCause(Fail) PROVE Moves
  BY <1>1, <1>2, OnSuccessUnwinds, OnCauseUnwinds, UnwindsMoves
<1>3. /\ AsyncEnters
      /\ registered' = [registered EXCEPT ![node'] = @ + 1]
      /\ UNCHANGED <<entries, interrupted, cancelled, result, waiting, told>>
  BY DEF EvalAsync, AsyncEnters
<1>4. AsyncAnswered \/ AsyncSuspends
  BY <1>2 DEF EvalAsync, AsyncAnswered, AsyncSuspends, NoClose
<1> QED
  BY <1>1, <1>3, <1>4 DEF AsyncEffect

YieldEffect ==
  /\ phase = "eval" /\ ScheduleEffect("idle")
  /\ UNCHANGED <<code, interrupted, asyncVars, finalizers, result, waiting, told>>
SelfEffect ==
  /\ phase = "eval" /\ code = "next" /\ InterruptEffect("eval")
  /\ UNCHANGED <<code, asyncVars, finalizers, result, waiting, told>>
CallEffect ==
  /\ phase = "idle" /\ InterruptEffect("idle")
  /\ UNCHANGED <<code, asyncVars, finalizers, result, waiting, told>>

\* One finalizer: a canceler, or a user's, which may interrupt the closing fiber.
FinalizerEffect ==
  /\ phase = "closing" /\ finalizers # <<>>
  /\ finalizers' = SubSeq(finalizers, 1, Len(finalizers) - 1)
  /\ \/ /\ finalizers[Len(finalizers)] > 0
        /\ resolved' = TRUE
        /\ cancelled' = IF resolved THEN cancelled
                                    ELSE cancelled \union {finalizers[Len(finalizers)]}
        /\ UNCHANGED <<runState, entries, phase, setsDone, interrupted, closing>>
     \/ /\ ~(finalizers[Len(finalizers)] > 0)
        /\ InterruptEffect("closing")
        /\ UNCHANGED <<resolved, cancelled>>
     \/ /\ ~(finalizers[Len(finalizers)] > 0)
        /\ UNCHANGED <<runState, entries, phase, setsDone, interrupted, closing, resolved, cancelled>>
  /\ UNCHANGED <<code, node, registered, answered, resumes, cancelable, result, waiting, told>>

LEMMA FinalizerDoes == ASSUME RunFinalizer PROVE FinalizerEffect
<1>1. CASE finalizers[Len(finalizers)] > 0
  BY <1>1 DEF RunFinalizer, FinalizerEffect, evalVars
<1>2. CASE ~(finalizers[Len(finalizers)] > 0)
  BY <1>2, InterruptDoes DEF RunFinalizer, FinalizerEffect, evalVars
<1> QED
  BY <1>1, <1>2

\* Joiners come and are told.
JoinersOnly ==
  UNCHANGED <<runState, entries, phase, setsDone, code, interrupted, asyncVars, finalizers,
              closing, result>>
PublishEffect ==
  /\ phase = "closing" /\ finalizers = <<>> /\ result' = closing /\ phase' = "publishing"
  /\ UNCHANGED <<runState, entries, setsDone, code, interrupted, asyncVars, finalizers, closing,
                 waiting, told>>
EndEffect ==
  /\ phase = "publishing" /\ phase' = "idle"
  /\ runState' = IF setsDone THEN "Done" ELSE runState
  /\ UNCHANGED <<entries, setsDone, code, interrupted, asyncVars, finalizers, closing, result,
                 waiting, told>>

StepEffect ==
  \/ QuietStep \/ BeginEffect \/ YieldEffect \/ SelfEffect \/ AsyncEffect
  \/ \E k \in Nodes : AnswerEffect(k)
  \/ CallEffect \/ FinalizerEffect \/ JoinersOnly \/ PublishEffect \/ EndEffect

LEMMA StepDoes == ASSUME IInv, [Next]_vars PROVE StepEffect
<1>1. CASE BeginStep
  BY <1>1, BeginStepEffect DEF StepEffect
<1>2. CASE Yield
  BY <1>2, ScheduleDoes DEF Yield, YieldEffect, StepEffect, evalVars
<1>3. CASE QuietEval
  BY <1>3, QuietEvalStep DEF StepEffect
<1>4. CASE EvalSelfInterrupt
  BY <1>4, InterruptDoes DEF EvalSelfInterrupt, Spend, SelfEffect, StepEffect
<1>5. CASE EvalAsync
  BY <1>5, EvalAsyncDoes DEF StepEffect
<1>6. CASE Notify
  <2>1. CASE RunFinalizer
    BY <2>1, FinalizerDoes DEF StepEffect
  <2>2. CASE Publish
    BY <2>2 DEF Publish, PublishEffect, StepEffect, evalVars
  <2>3. ASSUME NEW j \in Joiners, NotifyJoiner(j) PROVE StepEffect
    BY <2>3 DEF NotifyJoiner, JoinersOnly, StepEffect, evalVars
  <2>4. CASE EndTurn
    BY <2>4 DEF EndTurn, EndEffect, StepEffect, evalVars, exitVars
  <2> QED
    BY <1>6, <2>1, <2>2, <2>3, <2>4 DEF Notify
<1>7. CASE InterruptCall
  BY <1>7, InterruptDoes DEF InterruptCall, CallEffect, StepEffect, evalVars
<1>8. ASSUME NEW k \in Nodes, Answer(k) PROVE StepEffect
  BY <1>8, AnswerDoes DEF StepEffect
<1>9. ASSUME NEW j \in Joiners, JoinCall(j) PROVE StepEffect
  BY <1>9 DEF JoinCall, JoinersOnly, StepEffect, evalVars
<1>10. CASE UNCHANGED vars
  BY <1>10 DEF vars, fiberVars, JoinersOnly, StepEffect, evalVars, exitVars
<1> QED
  BY <1>1, <1>2, <1>3, <1>4, <1>5, <1>6, <1>7, <1>8, <1>9, <1>10
     DEF Next, Step, Eval, QuietEval

LEMMA OwnInterruptNoted ==
  ASSUME IInv, [Next]_vars
  PROVE  ownInterrupt' = (ownInterrupt \/ (phase = "eval" /\ interrupted' # interrupted))
BY DEF IInv, TypeOK, Next, NoteOwnInterrupt, vars, fiberVars

-----------------------------------------------------------------------------
(* The exit at each point of a turn *)

LEMMA TurnKeeps == ASSUME IInv, StepEffect PROVE TurnExit'
<1>1. TurnExit /\ \A e \in Exits : e # None
  BY NoneAssumption DEF IInv
<1>2. Die \in Exits
  BY DEF Die, Exits
<1>3. CASE QuietStep
  BY <1>1, <1>3 DEF QuietStep, Moves, TurnExit
<1>4. CASE BeginEffect
  BY <1>1, <1>4 DEF BeginEffect, BeginOver, BeginUnwinds, BeginEval, Fails, TurnExit
<1>5. CASE YieldEffect
  BY <1>1, <1>2, <1>5 DEF YieldEffect, ScheduleEffect, Fails, TurnExit
<1>6. CASE SelfEffect
  BY <1>1, <1>2, <1>6 DEF SelfEffect, InterruptEffect, ScheduleEffect, Fails, TurnExit
<1>7. CASE AsyncEffect
  BY <1>1, <1>7 DEF AsyncEffect, AsyncAnswered, AsyncSuspends, Moves, TurnExit
<1>8. ASSUME NEW k \in Nodes, AnswerEffect(k) PROVE TurnExit'
  <2>1. CASE AnswerTaken
    BY <1>1, <1>8, <2>1 DEF AnswerEffect, AnswerTaken, Fails, TurnExit
  <2>2. CASE ~AnswerTaken
    BY <1>1, <1>8, <2>2 DEF AnswerEffect, TurnExit
  <2> QED
    BY <2>1, <2>2
<1>9. CASE CallEffect
  BY <1>1, <1>2, <1>9 DEF CallEffect, InterruptEffect, ScheduleEffect, Fails, TurnExit
<1>10. CASE FinalizerEffect
  BY <1>1, <1>2, <1>10 DEF FinalizerEffect, InterruptEffect, ScheduleEffect, Fails, TurnExit
<1>11. CASE JoinersOnly
  BY <1>1, <1>11 DEF JoinersOnly, TurnExit
<1>12. CASE PublishEffect
  BY <1>1, <1>12 DEF PublishEffect, TurnExit
<1>13. CASE EndEffect
  BY <1>1, <1>13 DEF EndEffect, TurnExit
<1> QED
  BY <1>3, <1>4, <1>5, <1>6, <1>7, <1>8, <1>9, <1>10, <1>11, <1>12, <1>13 DEF StepEffect

-----------------------------------------------------------------------------
(* Types *)

\* TypeOK without the stack and what its frames save.
RunTypes ==
  /\ runState \in {"Queued", "Running", "Suspended", "Done"} /\ entries \in Nat
  /\ phase \in {"idle", "eval", "closing", "publishing"} /\ setsDone \in BOOLEAN
  /\ code \in {"next", "value", "async"} /\ interrupted \in BOOLEAN /\ ownInterrupt \in BOOLEAN
  /\ closing \in Exits \union {None} /\ result \in Exits \union {None}
AsyncTypes ==
  /\ node \in 0..MaxOps /\ WithinFuel(node)
  /\ registered \in [Nodes -> Nat] /\ answered \in [Nodes -> Nat]
  /\ resolved \in BOOLEAN /\ resumes \subseteq Nodes \X Nodes
  /\ cancelable \subseteq Nodes /\ cancelled \subseteq Nodes
  /\ finalizers \in Seq(0..MaxOps)
JoinTypes == waiting \subseteq Joiners /\ told \in [Joiners -> Exits \union {None}]

LEMMA TypesSplit == IInv => RunTypes /\ AsyncTypes /\ JoinTypes /\ StackInv
BY IInvStack DEF IInv, TypeOK, FuelBounds, RunTypes, AsyncTypes, JoinTypes

LEMMA FailsTypes == Fails => closing' \in Exits \union {None} /\ phase' = "closing"
BY DEF Fails

\* What schedule() and interrupt() leave well-typed.
LEMMA ScheduleTypes ==
  ASSUME RunTypes, NEW then \in {"idle", "eval", "closing"}, ScheduleEffect(then)
  PROVE  /\ runState' \in {"Queued", "Done"} /\ entries' \in Nat
         /\ phase' \in {"idle", "eval", "closing"} /\ setsDone' \in BOOLEAN
         /\ closing' \in Exits \union {None}
<1>1. /\ runState \in {"Queued", "Running", "Suspended", "Done"} /\ entries \in Nat
      /\ setsDone \in BOOLEAN /\ closing \in Exits \union {None}
  BY DEF RunTypes
<1>2. (AlreadyQueued \/ QueuedNow \/ Refused) =>
        runState' \in {"Queued", "Done"} /\ entries' \in Nat
  BY <1>1 DEF AlreadyQueued, QueuedNow, Refused
<1> QED
  BY <1>1, <1>2, FailsTypes DEF ScheduleEffect

LEMMA InterruptTypes ==
  ASSUME RunTypes, NEW then \in {"idle", "eval", "closing"}, InterruptEffect(then)
  PROVE  /\ runState' \in {"Queued", "Running", "Suspended", "Done"} /\ entries' \in Nat
         /\ phase' \in {"idle", "eval", "closing"} /\ setsDone' \in BOOLEAN
         /\ closing' \in Exits \union {None} /\ interrupted' \in BOOLEAN
BY ScheduleTypes DEF RunTypes, InterruptEffect

LEMMA RunTypesKeep ==
  ASSUME IInv, StepEffect, ownInterrupt' \in BOOLEAN PROVE RunTypes'
<1>1. RunTypes
  BY TypesSplit
<1>2. CASE QuietStep
  BY <1>1, <1>2 DEF QuietStep, Moves, RunTypes
<1>3. CASE BeginEffect
  <2>1. entries' \in Nat /\ runState' \in {"Done", "Running"}
    BY <1>1, <1>3 DEF BeginEffect, RunTypes
  <2>2. /\ phase' \in {"idle", "eval", "closing"} /\ setsDone' \in BOOLEAN /\ code' = code
        /\ closing' \in Exits \union {None}
    BY <1>1, <1>3, FailsTypes DEF BeginEffect, BeginOver, BeginUnwinds, BeginEval, RunTypes
  <2> QED
    BY <1>1, <1>3, <2>1, <2>2 DEF BeginEffect, RunTypes
<1>4. CASE YieldEffect
  BY <1>1, <1>4, ScheduleTypes DEF YieldEffect, RunTypes
<1>5. CASE SelfEffect
  BY <1>1, <1>5, InterruptTypes DEF SelfEffect, RunTypes
<1>6. CASE AsyncEffect
  BY <1>1, <1>6 DEF AsyncEffect, AsyncAnswered, AsyncSuspends, Moves, RunTypes
<1>7. ASSUME NEW k \in Nodes, AnswerEffect(k) PROVE RunTypes'
  <2>1. CASE AnswerTaken
    <3>1. runState' \in {"Queued", "Running", "Suspended", "Done"} /\ entries' \in Nat
      BY <1>1, <2>1 DEF AnswerTaken, AlreadyQueued, QueuedNow, Refused, RunTypes
    <3>2. /\ phase' \in {"idle", "closing"} /\ setsDone' \in BOOLEAN
          /\ closing' \in Exits \union {None} /\ code' \in {"next", "value", "async"}
      BY <1>1, <2>1, FailsTypes DEF AnswerTaken, RunTypes
    <3> QED
      BY <1>1, <1>7, <3>1, <3>2 DEF AnswerEffect, RunTypes
  <2>2. CASE ~AnswerTaken
    BY <1>1, <1>7, <2>2 DEF AnswerEffect, RunTypes
  <2> QED
    BY <2>1, <2>2
<1>8. CASE CallEffect
  BY <1>1, <1>8, InterruptTypes DEF CallEffect, RunTypes
<1>9. CASE FinalizerEffect
  BY <1>1, <1>9, InterruptTypes DEF FinalizerEffect, RunTypes
<1>10. CASE JoinersOnly
  BY <1>1, <1>10 DEF JoinersOnly, RunTypes
<1>11. CASE PublishEffect
  BY <1>1, <1>11 DEF PublishEffect, RunTypes
<1>12. CASE EndEffect
  BY <1>1, <1>12 DEF EndEffect, RunTypes
<1> QED
  BY <1>2, <1>3, <1>4, <1>5, <1>6, <1>7, <1>8, <1>9, <1>10, <1>11, <1>12 DEF StepEffect

LEMMA SeqAt == ASSUME NEW S, NEW s \in Seq(S), NEW i \in 1..Len(s) PROVE s[i] \in S
OBVIOUS

\* Disarming removes at most one canceler, of this node.
LEMMA DetachDoes ==
  ASSUME NEW S, finalizers \in Seq(S), NEW k, Detach(k)
  PROVE  /\ finalizers' \in Seq(S) /\ ToSet(finalizers) \subseteq ToSet(finalizers') \union {k}
         /\ ToSet(finalizers') \subseteq ToSet(finalizers)
<1>1. CASE UNCHANGED finalizers
  BY <1>1
<1>2. CASE \E i \in DOMAIN finalizers : finalizers[i] = k /\ finalizers' = RemoveAt(finalizers, i)
  <2>1. PICK i \in DOMAIN finalizers : finalizers[i] = k /\ finalizers' = RemoveAt(finalizers, i)
    BY <1>2
  <2>2. /\ i \in 1..Len(finalizers) /\ Len(finalizers) \in Nat
        /\ DOMAIN finalizers = 1..Len(finalizers)
    BY <2>1
  <2>8. /\ finalizers' \in Seq(S) /\ Len(finalizers') = Len(finalizers) - 1
        /\ \A j \in 1..(Len(finalizers) - 1) :
             finalizers'[j] = IF j < i THEN finalizers[j] ELSE finalizers[j + 1]
    BY <2>1, <2>2, RemoveAtProperties, Zenon
  <2>3. /\ finalizers' \in Seq(S)
        /\ DOMAIN finalizers' = 1..(Len(finalizers) - 1)
        /\ \A j \in 1..(Len(finalizers) - 1) :
             finalizers'[j] = IF j < i THEN finalizers[j] ELSE finalizers[j + 1]
    BY <2>8
  <2>4. ASSUME NEW j \in 1..Len(finalizers), j # i PROVE finalizers[j] \in ToSet(finalizers')
    <3> DEFINE at == IF j < i THEN j ELSE j - 1
    <3>1. at \in DOMAIN finalizers' /\ finalizers'[at] = finalizers[j]
      BY <2>2, <2>3, <2>4
    <3> QED
      BY <3>1 DEF ToSet
  <2>5. ASSUME NEW j \in 1..(Len(finalizers) - 1) PROVE finalizers'[j] \in ToSet(finalizers)
    <3> DEFINE at == IF j < i THEN j ELSE j + 1
    <3>1. at \in DOMAIN finalizers /\ finalizers'[j] = finalizers[at]
      BY <2>2, <2>3
    <3> QED
      BY <3>1 DEF ToSet
  <2>6. ToSet(finalizers) \subseteq ToSet(finalizers') \union {k}
    BY <2>1, <2>2, <2>4 DEF ToSet
  <2>7. ToSet(finalizers') \subseteq ToSet(finalizers)
    BY <2>3, <2>5 DEF ToSet
  <2> QED
    BY <2>3, <2>6, <2>7
<1> QED
  BY <1>1, <1>2 DEF Detach

LEMMA EntersNode ==
  ASSUME AsyncTypes, AsyncEnters, CallbackState, closing = None, fuel \in 0..MaxOps
  PROVE  /\ node' \in Nodes /\ node' \in 0..MaxOps /\ node \in Nat /\ WithinFuel(node)'
         /\ code = "async" => node' = node
         /\ code # "async" => node' = node + 1
<1>1. node \in 0..MaxOps /\ node + fuel <= MaxOps /\ MaxOps \in Nat /\ fuel \in Nat
  BY BoundsAssumption DEF AsyncTypes, WithinFuel
<1>2. CASE code = "async" /\ UNCHANGED <<fuel, node>>
  BY <1>1, <1>2 DEF CallbackState, Nodes, WithinFuel
<1>3. CASE code = "next" /\ fuel > 0 /\ fuel' = fuel - 1 /\ node' = node + 1
  BY <1>1, <1>3 DEF Nodes, WithinFuel
<1> QED
  BY <1>2, <1>3 DEF AsyncEnters

LEMMA AsyncTypesKeep ==
  ASSUME IInv, StepEffect, fuel' \in 0..fuel PROVE AsyncTypes'
<1>1. /\ AsyncTypes /\ CallbackState /\ fuel \in 0..MaxOps
      /\ 0 \in 0..MaxOps /\ finalizers \in Seq(0..MaxOps)
  BY TypesSplit, BoundsAssumption DEF IInv, TypeOK
<1>2. WithinFuel(node) => node + fuel' <= MaxOps
  BY <1>1, LessFuel DEF AsyncTypes, WithinFuel
<1>3. ASSUME UNCHANGED asyncVars, finalizers' \in Seq(0..MaxOps) PROVE AsyncTypes'
  BY <1>1, <1>2, <1>3 DEF asyncVars, AsyncTypes, WithinFuel
<1>4. CASE QuietStep
  <2>0. Append(finalizers, 0) \in Seq(0..MaxOps)
    BY <1>1, AppendNode
  <2>1. finalizers' \in Seq(0..MaxOps)
    BY <1>1, <1>4, <2>0 DEF QuietStep
  <2> QED
    BY <1>3, <1>4, <2>1 DEF QuietStep
<1>5. CASE AsyncEffect
  <2>1. closing = None
    BY <1>5, EvalOpen DEF AsyncEffect
  <2>2. node' \in Nodes /\ node' \in 0..MaxOps /\ WithinFuel(node)'
    BY <1>1, <1>5, <2>1, EntersNode DEF AsyncEffect
  <2>3. PICK n \in Nodes : n = node' /\ n \in 0..MaxOps
    BY <2>2
  <2>4. registered' \in [Nodes -> Nat] /\ cancelled' \subseteq Nodes
    BY <1>1, <1>5, <2>3 DEF AsyncEffect, AsyncTypes
  <2>5. CASE AsyncAnswered
    BY <1>1, <2>2, <2>3, <2>4, <2>5 DEF AsyncAnswered, AsyncTypes
  <2>6. CASE AsyncSuspends
    <3>0. Append(finalizers, n) \in Seq(0..MaxOps)
      BY <1>1, <2>3, AppendNode
    <3>1. finalizers' \in Seq(0..MaxOps) /\ cancelable' \subseteq Nodes
      BY <1>1, <2>3, <2>6, <3>0 DEF AsyncSuspends, AsyncTypes
    <3> QED
      BY <1>1, <2>2, <2>4, <2>6, <3>1 DEF AsyncSuspends, AsyncTypes
  <2> QED
    BY <1>5, <2>5, <2>6 DEF AsyncEffect
<1>6. ASSUME NEW k \in Nodes, AnswerEffect(k) PROVE AsyncTypes'
  <2>1. answered' \in [Nodes -> Nat] /\ answered[k] \in Nat /\ registered[k] \in Nat
    BY <1>1, <1>6 DEF AnswerEffect, AsyncTypes
  <2>2. CASE AnswerTaken /\ resumes' = resumes \union {<<node, k>>} /\ Detach(node)
    <3>1. finalizers' \in Seq(0..MaxOps)
      BY <1>1, <2>2, DetachDoes
    <3>2. node \in Nodes
      <4>1. registered[k] > 0
        BY <1>6, <2>1, BoundsAssumption DEF AnswerEffect
      <4>2. k <= node
        BY <1>1, <4>1 DEF CallbackState
      <4> QED
        BY <1>1, <4>2, BoundsAssumption DEF AsyncTypes, Nodes
    <3>3. resumes' \subseteq Nodes \X Nodes /\ resolved' \in BOOLEAN
      BY <1>1, <1>6, <2>2, <3>2 DEF AnswerTaken, AsyncTypes
    <3> QED
      BY <1>1, <1>2, <1>6, <2>1, <3>1, <3>3 DEF AnswerEffect, AsyncTypes, WithinFuel
  <2>3. CASE UNCHANGED <<resolved, resumes, finalizers>>
    BY <1>1, <1>2, <1>6, <2>1, <2>3 DEF AnswerEffect, AsyncTypes, WithinFuel
  <2> QED
    BY <1>6, <2>2, <2>3 DEF AnswerEffect
<1>7. CASE FinalizerEffect
  <2>1. Len(finalizers) \in Nat /\ Len(finalizers) # 0
    BY <1>1, <1>7, EmptySeq DEF FinalizerEffect
  <2>2. Len(finalizers) \in 1..Len(finalizers) /\ Len(finalizers) \in 1..(Len(finalizers) + 1)
    BY <2>1
  <2>3. finalizers[Len(finalizers)] \in 0..MaxOps
    BY <1>1, <2>2, SeqAt
  <2>4. finalizers' \in Seq(0..MaxOps)
    BY <1>1, <1>7, <2>2, PopStack DEF FinalizerEffect
  <2>5. finalizers[Len(finalizers)] > 0 => finalizers[Len(finalizers)] \in Nodes
    BY <2>3, BoundsAssumption DEF Nodes
  <2>6. cancelled' \subseteq Nodes /\ resolved' \in BOOLEAN
    BY <1>1, <1>7, <2>5 DEF FinalizerEffect, AsyncTypes
  <2> QED
    BY <1>1, <1>2, <1>7, <2>4, <2>6 DEF FinalizerEffect, AsyncTypes, WithinFuel
<1>8. CASE UNCHANGED <<asyncVars, finalizers>>
  BY <1>1, <1>3, <1>8
<1> QED
  BY <1>4, <1>5, <1>6, <1>7, <1>8
     DEF StepEffect, BeginEffect, YieldEffect, SelfEffect, CallEffect, JoinersOnly,
         PublishEffect, EndEffect

\* Joiners come and are told in steps of their own.
LEMMA JoinersKeep ==
  [Next]_vars => \/ \E j \in Joiners : JoinCall(j) \/ NotifyJoiner(j)
                 \/ UNCHANGED <<waiting, told>>
<1>1. QuietEval => UNCHANGED <<waiting, told>>
  BY DEF QuietEval, EvalSucceed, EvalFail, EvalBind, EvalThrow, EvalInterruptibility,
         EvalRestore, EvalLocally, EvalAddFinalizer, Quiet
<1>2. UNCHANGED vars => UNCHANGED <<waiting, told>>
  BY DEF vars, fiberVars, exitVars
<1> QED
  BY <1>1, <1>2
     DEF Next, Step, BeginStep, Yield, Eval, QuietEval, EvalSelfInterrupt, EvalAsync, Notify,
         RunFinalizer, Publish, EndTurn, InterruptCall, Answer, exitVars

LEMMA JoinTypesKeep == ASSUME IInv, [Next]_vars PROVE JoinTypes'
<1>1. JoinTypes /\ result \in Exits \union {None}
  BY TypesSplit DEF RunTypes
<1>2. ASSUME NEW j \in Joiners, JoinCall(j) PROVE JoinTypes'
  BY <1>1, <1>2 DEF JoinCall, JoinTypes
<1>3. ASSUME NEW j \in Joiners, NotifyJoiner(j) PROVE JoinTypes'
  BY <1>1, <1>3 DEF NotifyJoiner, JoinTypes
<1>4. CASE UNCHANGED <<waiting, told>>
  BY <1>1, <1>4 DEF JoinTypes
<1> QED
  BY <1>2, <1>3, <1>4, JoinersKeep

-----------------------------------------------------------------------------
(* The scheduler queue *)

\* StepsQueued in parts: while the program may go on, and once a node was stepped again.
OwnNoted == ownInterrupt => interrupted
QueueHolds ==
  phase \in {"eval", "idle"} /\ result = None =>
    /\ Extra \in {0, 1}
    /\ ~ownInterrupt \/ SteppedAgain => Extra = 0
    /\ runState \in {"Queued", IF phase = "eval" THEN "Running" ELSE "Suspended"}
    /\ phase = "eval" /\ runState = "Queued" =>
         ownInterrupt /\ ~SteppedAgain /\ Extra = 0 /\ code # "async"
    /\ code = "async" /\ (phase = "eval" \/ runState = "Queued") => interrupted /\ Extra = 0
AgainHolds ==
  SteppedAgain => /\ interrupted
                  /\ ~resolved => phase = "idle" /\ runState = "Suspended" /\ closing = None

LEMMA QueueParts ==
  /\ StepsQueued <=> OwnNoted /\ QueueHolds /\ AgainHolds
  /\ StepsQueued' <=> OwnNoted' /\ QueueHolds' /\ AgainHolds'
BY DEF StepsQueued, OwnNoted, QueueHolds, AgainHolds

\* Only a node that is stepped again while it is suspended is registered twice.
LEMMA AgainDoes ==
  ASSUME IInv, StepEffect
  PROVE  /\ AsyncEffect \/ registered' = registered
         /\ registered' = registered => SteppedAgain' = SteppedAgain
         /\ AsyncEffect => /\ code = "next" => SteppedAgain' = SteppedAgain
                           /\ code = "async" => SteppedAgain' /\ interrupted
                           /\ SteppedAgain => SteppedAgain'
                           /\ code \in {"next", "async"} /\ node' \in Nodes /\ node \in Nat
<1>1. /\ AsyncTypes /\ CallbackState /\ fuel \in 0..MaxOps
      /\ registered \in [Nodes -> Nat]
  BY TypesSplit DEF IInv, TypeOK
<1>2. AsyncEffect \/ registered' = registered
  BY DEF StepEffect, QuietStep, BeginEffect, YieldEffect, SelfEffect, AnswerEffect, CallEffect,
         FinalizerEffect, JoinersOnly, PublishEffect, EndEffect, asyncVars
<1>3. registered' = registered => SteppedAgain' = SteppedAgain
  BY DEF SteppedAgain
<1>4. ASSUME AsyncEffect
      PROVE  /\ code = "next" => SteppedAgain' = SteppedAgain
             /\ code = "async" => SteppedAgain' /\ interrupted
             /\ SteppedAgain => SteppedAgain'
             /\ code \in {"next", "async"} /\ node' \in Nodes /\ node \in Nat
  <2>1. closing = None /\ result = None /\ phase = "eval" /\ AsyncEnters
    BY <1>4, EvalOpen DEF AsyncEffect
  <2>2. /\ node' \in Nodes /\ node \in Nat
        /\ code = "async" => node' = node
        /\ code # "async" => node' = node + 1
    BY <1>1, <2>1, EntersNode
  <2>3. PICK n \in Nodes : n = node'
    BY <2>2
  <2>4. n \in Nat /\ registered' = [registered EXCEPT ![n] = @ + 1] /\ code \in {"next", "async"}
    BY <1>4, <2>1, <2>3 DEF AsyncEffect, AsyncEnters, Nodes
  <2>5. \A k \in Nodes : registered'[k] = IF k = n THEN registered[k] + 1 ELSE registered[k]
    BY <1>1, <2>4
  <2>6. \A k \in Nodes : registered[k] \in Nat /\ (registered[k] > 0 <=> k <= node)
    BY <1>1 DEF CallbackState
  <2>7. code = "async" => SteppedAgain' /\ interrupted
    <3>1. code = "async" => interrupted
      BY <2>1 DEF IInv, StepsQueued
    <3>2. code = "async" => registered'[n] > 1
      BY <2>2, <2>3, <2>4, <2>5, <2>6
    <3> QED
      BY <3>1, <3>2 DEF SteppedAgain
  <2>8. SteppedAgain => SteppedAgain'
    BY <2>5, <2>6 DEF SteppedAgain
  <2>9. ASSUME code = "next", SteppedAgain' PROVE SteppedAgain
    <3>1. n > node
      BY <2>2, <2>3, <2>9
    <3>2. ~(registered[n] > 0)
      BY <2>2, <2>4, <2>6, <3>1
    <3>3. \A k \in Nodes : registered'[k] > 1 => registered[k] > 1
      BY <2>5, <2>6, <3>2
    <3> QED
      BY <2>9, <3>3 DEF SteppedAgain
  <2>10. code = "next" => SteppedAgain' = SteppedAgain
    BY <2>8, <2>9 DEF SteppedAgain
  <2> QED
    BY <2>2, <2>4, <2>7, <2>8, <2>10
<1> QED
  BY <1>2, <1>3, <1>4

LEMMA QueueTypes ==
  ASSUME IInv
  PROVE  /\ OwnNoted /\ QueueHolds /\ AgainHolds /\ TurnExit /\ entries \in Nat
         /\ phase \in {"idle", "eval", "closing", "publishing"}
         /\ interrupted \in BOOLEAN /\ ownInterrupt \in BOOLEAN
         /\ \A e \in Exits : e # None
         /\ Die \in Exits
BY QueueParts, NoneAssumption DEF IInv, TypeOK, Die, Exits

LEMMA AgainKeeps == ASSUME IInv, StepEffect PROVE AgainHolds'
<1>1. /\ AgainHolds /\ QueueHolds /\ TurnExit /\ entries \in Nat
      /\ interrupted \in BOOLEAN
  BY QueueTypes
<1>2. CASE AsyncEffect
  BY <1>1, <1>2, AgainDoes DEF AsyncEffect, AsyncAnswered, AsyncSuspends, AgainHolds, TurnExit
<1>3. CASE ~AsyncEffect
  <2>1. SteppedAgain' = SteppedAgain
    BY <1>3, AgainDoes
  <2>2. CASE ~SteppedAgain
    BY <2>1, <2>2 DEF AgainHolds
  <2>3. CASE SteppedAgain
    <3>1. interrupted /\ (~resolved => phase = "idle" /\ runState = "Suspended" /\ closing = None)
      BY <1>1, <2>3 DEF AgainHolds
    <3>2. CASE BeginEffect
      <4>1. CASE ~resolved
        <5>1. Extra = 0 /\ entries = Extra
          BY <1>1, <2>3, <3>1, <4>1 DEF QueueHolds, TurnExit, Extra
        <5> QED
          BY <3>2, <5>1 DEF BeginEffect
      <4>2. CASE resolved
        BY <2>1, <3>1, <3>2, <4>2 DEF BeginEffect, asyncVars, AgainHolds
      <4> QED
        BY <4>1, <4>2
    <3>3. CASE QuietStep \/ YieldEffect
      BY <2>1, <3>1, <3>3 DEF QuietStep, YieldEffect, asyncVars, AgainHolds
    <3>4. CASE SelfEffect \/ CallEffect
      BY <3>1, <3>4 DEF SelfEffect, CallEffect, InterruptEffect
    <3>5. ASSUME NEW k \in Nodes, AnswerEffect(k) PROVE AgainHolds'
      BY <2>1, <3>1, <3>5 DEF AnswerEffect, AnswerTaken, AgainHolds
    <3>6. CASE FinalizerEffect
      <4>1. resolved /\ ~InterruptEffect("closing")
        BY <3>1, <3>6 DEF FinalizerEffect, InterruptEffect
      <4>2. resolved' /\ interrupted' = interrupted
        BY <3>6, <4>1 DEF FinalizerEffect
      <4> QED
        BY <3>1, <4>2 DEF AgainHolds
    <3>7. CASE JoinersOnly \/ PublishEffect \/ EndEffect
      BY <2>1, <3>1, <3>7 DEF JoinersOnly, PublishEffect, EndEffect, asyncVars, AgainHolds
    <3> QED
      BY <1>3, <3>2, <3>3, <3>4, <3>5, <3>6, <3>7 DEF StepEffect
  <2> QED
    BY <2>2, <2>3
<1> QED
  BY <1>2, <1>3

LEMMA QueueKeeps == ASSUME IInv, [Next]_vars, StepEffect PROVE OwnNoted' /\ QueueHolds'
<1>1. /\ OwnNoted /\ QueueHolds /\ AgainHolds /\ TurnExit /\ entries \in Nat
      /\ phase \in {"idle", "eval", "closing", "publishing"}
      /\ interrupted \in BOOLEAN /\ ownInterrupt \in BOOLEAN
      /\ \A e \in Exits : e # None
      /\ Die \in Exits
  BY QueueTypes
<1>2. ownInterrupt' = (ownInterrupt \/ (phase = "eval" /\ interrupted' # interrupted))
  BY OwnInterruptNoted
<1>3. UNCHANGED interrupted => ownInterrupt' = ownInterrupt
  BY <1>1, <1>2
<1>4. UNCHANGED interrupted \/ interrupted' = TRUE
  BY DEF StepEffect, QuietStep, BeginEffect, YieldEffect, SelfEffect, AsyncEffect, AnswerEffect,
         CallEffect, FinalizerEffect, JoinersOnly, PublishEffect, EndEffect, InterruptEffect
<1>5. OwnNoted'
  BY <1>1, <1>3, <1>4 DEF OwnNoted
<1> SUFFICES QueueHolds'
  BY <1>5
<1>6. phase' \notin {"eval", "idle"} \/ result' # None => QueueHolds'
  BY DEF QueueHolds
<1>7. ~AsyncEffect => SteppedAgain' = SteppedAgain
  BY AgainDoes
<1>8. CASE QuietStep
  <2>1. SteppedAgain' = SteppedAgain
    BY <1>8, AgainDoes DEF QuietStep, asyncVars
  <2> QED
    BY <1>1, <1>3, <1>6, <1>8, <2>1 DEF QuietStep, Moves, QueueHolds, Extra
<1>9. CASE BeginEffect
  <2>1. SteppedAgain' = SteppedAgain
    BY <1>9, AgainDoes DEF BeginEffect, asyncVars
  <2>2. CASE BeginOver
    BY <1>1, <1>6, <1>9, <2>2 DEF BeginEffect, BeginOver, QueueHolds
  <2>3. CASE BeginUnwinds
    BY <1>6, <2>3 DEF BeginUnwinds, Fails
  <2>4. CASE BeginEval
    BY <1>1, <1>3, <1>9, <2>1, <2>4 DEF BeginEffect, BeginEval, QueueHolds, OwnNoted, Extra
  <2> QED
    BY <1>9, <2>2, <2>3, <2>4 DEF BeginEffect
<1>10. CASE YieldEffect
  <2>1. SteppedAgain' = SteppedAgain
    BY <1>10, AgainDoes DEF YieldEffect, asyncVars
  <2>2. CASE Refused
    BY <1>1, <1>6, <1>10, <2>2
       DEF YieldEffect, ScheduleEffect, AlreadyQueued, QueuedNow, Refused, Fails, TurnExit
  <2>3. CASE (AlreadyQueued \/ QueuedNow) /\ phase' = "idle"
    BY <1>1, <1>3, <1>10, <2>1, <2>3
       DEF YieldEffect, AlreadyQueued, QueuedNow, QueueHolds, Extra
  <2> QED
    BY <1>10, <2>2, <2>3 DEF YieldEffect, ScheduleEffect
<1>11. CASE SelfEffect
  <2>1. SteppedAgain' = SteppedAgain /\ ~SteppedAgain /\ ~ownInterrupt /\ ownInterrupt' /\ interrupted'
    BY <1>1, <1>2, <1>11, AgainDoes
       DEF SelfEffect, InterruptEffect, asyncVars, AgainHolds, OwnNoted
  <2>2. phase = "eval" /\ code = "next" /\ result = None /\ code' = code /\ closing = None
    BY <1>1, <1>11 DEF SelfEffect, InterruptEffect, TurnExit
  <2>3. runState = "Running" /\ Extra = 0
    BY <1>1, <2>1, <2>2 DEF QueueHolds
  <2>4. CASE (QueuedNow \/ UNCHANGED <<runState, entries>>) /\ phase' = "eval"
    BY <1>1, <2>1, <2>2, <2>3, <2>4 DEF QueuedNow, QueueHolds, Extra
  <2>5. CASE Refused /\ Fails
    BY <1>6, <2>5 DEF Fails
  <2> QED
    BY <1>11, <2>2, <2>3, <2>4, <2>5 DEF SelfEffect, InterruptEffect, ScheduleEffect, AlreadyQueued
<1>12. CASE AsyncEffect
  <2>1. phase = "eval" /\ result = None /\ closing = None /\ ownInterrupt' = ownInterrupt
        /\ code \in {"next", "async"} /\ entries' = entries /\ interrupted' = interrupted
    BY <1>3, <1>12, EvalOpen, AgainDoes DEF AsyncEffect
  <2>2. /\ code = "next" => SteppedAgain' = SteppedAgain
        /\ code = "async" => SteppedAgain'
    BY <1>12, AgainDoes
  <2>3. CASE AsyncAnswered
    BY <1>1, <1>6, <2>1, <2>2, <2>3 DEF AsyncAnswered, Moves, QueueHolds, Extra
  <2>4. CASE AsyncSuspends
    BY <1>1, <2>1, <2>2, <2>4 DEF AsyncSuspends, QueueHolds, Extra
  <2> QED
    BY <1>12, <2>3, <2>4 DEF AsyncEffect
<1>13. ASSUME NEW k \in Nodes, AnswerEffect(k) PROVE QueueHolds'
  <2>1. SteppedAgain' = SteppedAgain
    BY <1>13, AgainDoes DEF AnswerEffect
  <2>2. CASE AnswerTaken
    <3>1. CASE (AlreadyQueued \/ QueuedNow) /\ phase' = "idle" /\ code' \in {"value", "next"}
      BY <1>1, <1>3, <1>13, <2>1, <2>2, <3>1
         DEF AnswerEffect, AnswerTaken, AlreadyQueued, QueuedNow, QueueHolds, Extra
    <3>2. CASE Fails
      BY <1>6, <3>2 DEF Fails
    <3> QED
      BY <2>2, <3>1, <3>2 DEF AnswerTaken
  <2>3. CASE ~AnswerTaken
    BY <1>1, <1>3, <1>13, <2>1, <2>3 DEF AnswerEffect, QueueHolds, Extra
  <2> QED
    BY <2>2, <2>3
<1>14. CASE CallEffect
  <2>1. SteppedAgain' = SteppedAgain /\ ~SteppedAgain /\ ~ownInterrupt /\ interrupted'
        /\ ~interrupted /\ ownInterrupt' = ownInterrupt
    BY <1>1, <1>2, <1>14, AgainDoes
       DEF CallEffect, InterruptEffect, asyncVars, AgainHolds, OwnNoted
  <2>2. phase = "idle" /\ result = None /\ code' = code /\ closing = None
    BY <1>1, <1>14 DEF CallEffect, InterruptEffect, TurnExit
  <2>3. runState \in {"Queued", "Suspended"} /\ Extra = 0
        /\ (runState = "Queued" => code # "async")
    BY <1>1, <2>1, <2>2 DEF QueueHolds
  <2>4. CASE (QueuedNow \/ UNCHANGED <<runState, entries>>) /\ phase' = "idle"
    BY <1>1, <2>1, <2>2, <2>3, <2>4 DEF QueuedNow, QueueHolds, Extra
  <2>5. CASE Refused /\ Fails
    BY <1>6, <2>5 DEF Fails
  <2> QED
    BY <1>14, <2>2, <2>4, <2>5 DEF CallEffect, InterruptEffect, ScheduleEffect, AlreadyQueued
<1>15. CASE FinalizerEffect
  <2>1. phase' = "closing"
    BY <1>15 DEF FinalizerEffect, InterruptEffect, ScheduleEffect, Fails
  <2> QED
    BY <1>6, <2>1
<1>16. CASE JoinersOnly
  <2>1. SteppedAgain' = SteppedAgain
    BY <1>16, AgainDoes DEF JoinersOnly, asyncVars
  <2> QED
    BY <1>1, <1>3, <1>16, <2>1 DEF JoinersOnly, QueueHolds, Extra
<1>17. CASE PublishEffect
  BY <1>6, <1>17 DEF PublishEffect
<1>18. CASE EndEffect
  BY <1>1, <1>6, <1>18 DEF EndEffect, TurnExit
<1> QED
  BY <1>8, <1>9, <1>10, <1>11, <1>12, <1>13, <1>14, <1>15, <1>16, <1>17, <1>18 DEF StepEffect

-----------------------------------------------------------------------------
(* The callback and the cancelers *)

\* A step leaves the callback alone, or it is an Async node, an answer or a finalizer.
CallbackSame ==
  /\ UNCHANGED asyncVars
  /\ finalizers' = finalizers \/ finalizers' = Append(finalizers, 0)
  /\ closing' = None => closing = None /\ (code' = "async" <=> code = "async")

LEMMA CallbackSteps ==
  ASSUME IInv, StepEffect
  PROVE  \/ CallbackSame \/ AsyncEffect \/ FinalizerEffect
         \/ \E k \in Nodes : AnswerEffect(k)
<1>1. TurnExit /\ \A e \in Exits : e # None
  BY NoneAssumption DEF IInv
<1>2. Die \in Exits
  BY DEF Die, Exits
<1>3. CASE QuietStep
  BY <1>1, <1>3 DEF QuietStep, Moves, CallbackSame, TurnExit
<1>4. CASE BeginEffect
  BY <1>1, <1>4 DEF BeginEffect, BeginOver, BeginUnwinds, BeginEval, Fails, CallbackSame
<1>5. CASE YieldEffect
  BY <1>1, <1>2, <1>5 DEF YieldEffect, ScheduleEffect, CallbackSame
<1>6. CASE SelfEffect
  BY <1>1, <1>2, <1>6 DEF SelfEffect, InterruptEffect, ScheduleEffect, CallbackSame
<1>7. CASE CallEffect
  BY <1>1, <1>2, <1>7 DEF CallEffect, InterruptEffect, ScheduleEffect, CallbackSame
<1>8. CASE JoinersOnly \/ PublishEffect \/ EndEffect
  BY <1>8 DEF JoinersOnly, PublishEffect, EndEffect, CallbackSame
<1> QED
  BY <1>3, <1>4, <1>5, <1>6, <1>7, <1>8 DEF StepEffect

\* Facts about the callback before a step.
LEMMA CallbackNow ==
  ASSUME IInv
  PROVE  /\ AsyncTypes /\ CallbackState /\ CancelersArmed /\ OwnAnswerIfOnce /\ AgainHolds
         /\ TurnExit /\ node \in Nat /\ finalizers \in Seq(0..MaxOps)
         /\ registered \in [Nodes -> Nat] /\ answered \in [Nodes -> Nat]
         /\ resolved \in BOOLEAN /\ resumes \subseteq Nodes \X Nodes
         /\ cancelable \subseteq Nodes /\ cancelled \subseteq Nodes
         /\ \A e \in Exits : e # None
BY TypesSplit, QueueTypes DEF IInv, AsyncTypes

\* An Async node: the current one again, or the next one when the last was resolved.
LEMMA AsyncNode ==
  ASSUME IInv, AsyncEffect
  PROVE  /\ node' \in Nodes /\ cancelled = {} /\ cancelled' = {} /\ closing = None
         /\ \/ code = "async" /\ node' = node /\ ~resolved
            \/ code = "next" /\ node' = node + 1 /\ (node = 0 \/ resolved)
<1>1. closing = None /\ AsyncEnters /\ cancelled' = cancelled
  BY EvalOpen DEF AsyncEffect
<1>2. AsyncTypes /\ CallbackState /\ CancelersArmed /\ node \in Nat /\ fuel \in 0..MaxOps
  BY CallbackNow DEF IInv, TypeOK
<1>3. node' \in Nodes
  BY <1>1, <1>2, EntersNode
<1>4. cancelled = {}
  BY <1>1, <1>2 DEF CancelersArmed
<1>5. code = "async" => ~resolved
  BY <1>1, <1>2 DEF CallbackState
<1>6. code # "async" => node = 0 \/ resolved
  BY <1>1, <1>2 DEF CallbackState
<1> QED
  BY <1>1, <1>3, <1>4, <1>5, <1>6 DEF AsyncEnters

\* An answer that is taken resumes the current node.
LEMMA AnswerNode ==
  ASSUME IInv, NEW k \in Nodes, AnswerEffect(k)
  PROVE  /\ node \in Nodes /\ k <= node
         /\ answered'[k] = answered[k] + 1
         /\ \A m \in Nodes : m # k => answered'[m] = answered[m]
<1>1. CallbackState /\ node \in 0..MaxOps /\ registered[k] \in Nat /\ answered \in [Nodes -> Nat]
  BY CallbackNow DEF AsyncTypes
<1>2. registered[k] > 0
  BY <1>1, BoundsAssumption DEF AnswerEffect
<1>3. k <= node
  BY <1>1, <1>2 DEF CallbackState
<1>4. node \in Nodes
  BY <1>1, <1>3, BoundsAssumption DEF Nodes
<1> QED
  BY <1>1, <1>3, <1>4 DEF AnswerEffect

LEMMA CallbackKeeps == ASSUME IInv, StepEffect PROVE CallbackState'
<1>1. /\ AsyncTypes /\ CallbackState /\ CancelersArmed /\ TurnExit /\ node \in Nat
      /\ registered \in [Nodes -> Nat] /\ answered \in [Nodes -> Nat]
      /\ resumes \subseteq Nodes \X Nodes /\ resolved \in BOOLEAN
      /\ \A e \in Exits : e # None
  BY CallbackNow
<1>2. CASE CallbackSame
  BY <1>1, <1>2 DEF CallbackSame, asyncVars, CallbackState
<1>3. CASE AsyncEffect
  <2>1. /\ node' \in Nodes /\ cancelled = {} /\ cancelled' = {} /\ closing = None
        /\ \/ code = "async" /\ node' = node /\ ~resolved
           \/ code = "next" /\ node' = node + 1 /\ (node = 0 \/ resolved)
    BY <1>3, AsyncNode
  <2>2. PICK n \in Nodes : n = node'
    BY <2>1
  <2>3. n \in Nat \ {0} /\ (n = node \/ n = node + 1)
    BY <2>1, <2>2 DEF Nodes
  <2>4. \A k \in Nodes : registered'[k] = IF k = n THEN registered[k] + 1 ELSE registered[k]
    BY <1>1, <1>3, <2>2 DEF AsyncEffect
  <2>5. \A k \in Nodes : registered'[k] > 0 <=> k <= node'
    <3> TAKE k \in Nodes
    <3>1. k \in Nat /\ registered[k] \in Nat /\ (registered[k] > 0 <=> k <= node)
      BY <1>1 DEF CallbackState, Nodes
    <3> QED
      BY <1>1, <2>2, <2>3, <2>4, <3>1
  <2>6. ASSUME NEW k \in 1..node', k < node' PROVE \E m \in Nodes : <<k, m>> \in resumes
    <3>1. k \in 1..node /\ (k < node \/ (k = node /\ node # 0 /\ node' # node))
      BY <1>1, <2>2, <2>3, <2>6
    <3>2. k < node \/ (resolved /\ cancelled = {})
      BY <1>1, <2>1, <3>1
    <3> QED
      BY <1>1, <3>1, <3>2 DEF CallbackState
  <2>7. \A r \in resumes : r[1] <= node /\ r[1] \in Nat /\ r[2] \in Nodes /\ answered[r[2]] > 0
    BY <1>1 DEF CallbackState, Nodes
  <2>8. CASE AsyncAnswered
    <3>1. /\ resolved' /\ resumes' = resumes \union {<<n, n>>}
          /\ answered' = [answered EXCEPT ![n] = @ + 1]
          /\ closing' = None => code' = "next"
      BY <1>1, <2>2, <2>8 DEF AsyncAnswered, Moves
    <3>2. \A k \in Nodes : answered'[k] \in Nat /\ answered'[k] >= answered[k] /\ answered[k] \in Nat
      BY <1>1, <3>1
    <3>3. answered'[n] > 0
      BY <1>1, <3>1
    <3>4. ASSUME NEW r \in resumes' PROVE r[1] <= node' /\ answered'[r[2]] > 0
      <4>1. CASE r \in resumes
        <5>1. /\ r[1] <= node /\ r[1] \in Nat /\ answered[r[2]] > 0
              /\ answered'[r[2]] >= answered[r[2]]
              /\ answered'[r[2]] \in Nat /\ answered[r[2]] \in Nat
          BY <2>7, <3>2, <4>1
        <5>2. r[1] <= n
          BY <1>1, <2>3, <5>1
        <5> QED
          BY <2>2, <5>1, <5>2
      <4>2. CASE r = <<n, n>>
        BY <2>2, <2>3, <3>3, <4>2
      <4> QED
        BY <3>1, <4>1, <4>2
    <3>5. ASSUME NEW k \in 1..node' PROVE \E m \in Nodes : <<k, m>> \in resumes'
      <4>1. k < node' \/ k = n
        BY <2>2, <2>3
      <4> QED
        BY <2>2, <2>6, <3>1, <4>1
    <3> QED
      BY <2>2, <2>3, <2>5, <3>1, <3>4, <3>5 DEF CallbackState
  <2>9. CASE AsyncSuspends
    <3>1. ~resolved' /\ code' = "async" /\ resumes' = resumes /\ answered' = answered
      BY <2>9 DEF AsyncSuspends
    <3>2. <<n, n>> \notin resumes
      <4>1. CASE n = node
        BY <1>1, <2>1, <2>2, <2>3, <4>1 DEF CallbackState
      <4>2. CASE n = node + 1
        BY <1>1, <2>7, <4>2
      <4> QED
        BY <2>3, <4>1, <4>2
    <3>3. \A r \in resumes' : r[1] <= node' /\ answered'[r[2]] > 0
      BY <1>1, <2>2, <2>3, <2>7, <3>1
    <3> QED
      BY <2>2, <2>3, <2>5, <2>6, <3>1, <3>2, <3>3 DEF CallbackState
  <2> QED
    BY <1>3, <2>8, <2>9 DEF AsyncEffect
<1>4. ASSUME NEW k \in Nodes, AnswerEffect(k) PROVE CallbackState'
  <2>1. /\ node \in Nodes /\ k <= node
        /\ answered'[k] = answered[k] + 1
        /\ \A m \in Nodes : m # k => answered'[m] = answered[m]
    BY <1>4, AnswerNode
  <2>2. \A m \in Nodes : answered[m] > 0 => answered'[m] > 0
    BY <1>1, <2>1
  <2>3. node' = node /\ registered' = registered /\ cancelled' = cancelled
    BY <1>4 DEF AnswerEffect
  <2>4. CASE AnswerTaken /\ resumes' = resumes \union {<<node, k>>}
    <3>1. resolved' /\ closing = None /\ (closing' = None => code' # "async")
      BY <1>1, <2>4 DEF AnswerTaken, Fails
    <3>2. answered'[k] > 0
      BY <1>1, <2>1
    <3>3. \A r \in resumes' : r[1] <= node /\ answered'[r[2]] > 0
      <4>1. \A r \in resumes : r[1] <= node /\ r[2] \in Nodes /\ answered[r[2]] > 0
        BY <1>1 DEF CallbackState
      <4> QED
        BY <1>1, <2>2, <2>4, <3>2, <4>1
    <3>4. \A m \in 1..node : m < node \/ m = node
      BY <1>1
    <3>5. ASSUME NEW m \in 1..node PROVE \E x \in Nodes : <<m, x>> \in resumes'
      BY <1>1, <2>4, <3>4 DEF CallbackState
    <3> QED
      BY <1>1, <2>3, <3>1, <3>3, <3>5 DEF CallbackState
  <2>5. CASE UNCHANGED <<code, resolved, resumes, closing>>
    <3>1. \A r \in resumes : r[1] <= node /\ answered'[r[2]] > 0
      <4>1. \A r \in resumes : r[1] <= node /\ r[2] \in Nodes /\ answered[r[2]] > 0
        BY <1>1 DEF CallbackState
      <4> QED
        BY <2>2, <4>1
    <3> QED
      BY <1>1, <2>3, <2>5, <3>1 DEF CallbackState
  <2> QED
    BY <1>4, <2>4, <2>5 DEF AnswerEffect
<1>5. CASE FinalizerEffect
  <2>1. closing # None /\ closing' # None
    BY <1>1, <1>5 DEF FinalizerEffect, InterruptEffect, ScheduleEffect, TurnExit
  <2>2. /\ UNCHANGED <<node, registered, answered, resumes>>
        /\ resolved => resolved'
    BY <1>5 DEF FinalizerEffect
  <2>3. ASSUME resolved', cancelled' = {} PROVE resolved /\ cancelled = {}
    <3>1. CASE cancelled' = IF resolved THEN cancelled
                                        ELSE cancelled \union {finalizers[Len(finalizers)]}
      BY <2>3, <3>1
    <3>2. CASE UNCHANGED <<resolved, cancelled>>
      BY <2>3, <3>2
    <3> QED
      BY <1>5, <3>1, <3>2 DEF FinalizerEffect
  <2> QED
    BY <1>1, <2>1, <2>2, <2>3 DEF CallbackState
<1> QED
  BY <1>2, <1>3, <1>4, <1>5, CallbackSteps

LEMMA OwnAnswerKeeps == ASSUME IInv, StepEffect PROVE OwnAnswerIfOnce'
<1>1. /\ CallbackState /\ OwnAnswerIfOnce /\ node \in Nat
      /\ answered \in [Nodes -> Nat] /\ resumes \subseteq Nodes \X Nodes
  BY CallbackNow
<1>2. ASSUME \A k \in Nodes : answered'[k] \in Nat /\ answered'[k] >= answered[k], AnswersOnce'
      PROVE  AnswersOnce /\ OwnAnswer
  BY <1>1, <1>2 DEF AnswersOnce, OwnAnswerIfOnce
<1>3. CASE CallbackSame \/ FinalizerEffect
  BY <1>1, <1>3 DEF CallbackSame, asyncVars, FinalizerEffect, OwnAnswerIfOnce, AnswersOnce, OwnAnswer
<1>4. CASE AsyncEffect
  <2>1. PICK n \in Nodes : n = node'
    BY <1>4, AsyncNode
  <2>2. \A k \in Nodes : answered'[k] \in Nat /\ answered'[k] >= answered[k]
    BY <1>1, <1>4, <2>1 DEF AsyncEffect, AsyncAnswered, AsyncSuspends
  <2>3. resumes' \subseteq resumes \union {<<n, n>>}
    BY <1>4, <2>1 DEF AsyncEffect, AsyncAnswered, AsyncSuspends
  <2> QED
    BY <1>2, <2>2, <2>3 DEF OwnAnswerIfOnce, OwnAnswer
<1>5. ASSUME NEW k \in Nodes, AnswerEffect(k), AnswersOnce' PROVE OwnAnswer'
  <2>1. /\ node \in Nodes /\ k <= node /\ answered'[k] = answered[k] + 1
        /\ \A m \in Nodes : m # k => answered'[m] = answered[m]
    BY <1>5, AnswerNode
  <2>2. OwnAnswer
    <3>1. \A m \in Nodes : answered'[m] \in Nat /\ answered'[m] >= answered[m]
      BY <1>1, <2>1
    <3> QED
      BY <1>2, <1>5, <3>1
  <2>3. answered[k] = 0
    BY <1>1, <1>5, <2>1 DEF AnswersOnce
  <2>4. k = node
    <3>1. SUFFICES ASSUME k < node PROVE FALSE
      BY <1>1, <2>1 DEF Nodes
    <3>2. k \in 1..node
      BY <1>1, <2>1 DEF Nodes
    <3>3. PICK n \in Nodes : <<k, n>> \in resumes
      BY <1>1, <3>1, <3>2 DEF CallbackState
    <3>4. n = k
      BY <2>2, <3>3 DEF OwnAnswer
    <3> QED
      BY <1>1, <2>3, <3>3, <3>4 DEF CallbackState
  <2>5. resumes' \subseteq resumes \union {<<node, node>>}
    BY <1>5, <2>4 DEF AnswerEffect
  <2> QED
    BY <2>2, <2>5 DEF OwnAnswer
<1> QED
  BY <1>3, <1>4, <1>5, CallbackSteps DEF OwnAnswerIfOnce

\* CancelersArmed, of any list of finalizers: f has cancelers of nodes up to n; only one,
\* of n; none.
ArmedBelow(f, n) == \A i \in 1..Len(f) : f[i] > 0 => f[i] <= n
OneArmed(f, n) == \A i \in 1..Len(f) : f[i] > 0 =>
                    f[i] = n /\ \A j \in 1..Len(f) : f[j] > 0 => j = i
NoneArmed(f) == \A i \in 1..Len(f) : ~(f[i] > 0)

LEMMA ArmedNow ==
  /\ finalizers \in Seq(0..MaxOps) => DOMAIN finalizers = 1..Len(finalizers)
  /\ finalizers' \in Seq(0..MaxOps) => DOMAIN finalizers' = 1..Len(finalizers')
OBVIOUS

LEMMA ArmedSets ==
  ASSUME NEW f, NEW n, NEW r \in BOOLEAN
  PROVE  LET A == {i \in 1..Len(f) : f[i] > 0}
         IN  (\A i \in A : f[i] = n /\ ~r /\ A = {i}) <=> OneArmed(f, n) /\ (r => NoneArmed(f))
<1> DEFINE A == {i \in 1..Len(f) : f[i] > 0}
<1>1. ASSUME \A i \in A : f[i] = n /\ ~r /\ A = {i} PROVE OneArmed(f, n) /\ (r => NoneArmed(f))
  BY <1>1 DEF OneArmed, NoneArmed
<1>2. ASSUME OneArmed(f, n), r => NoneArmed(f), NEW i \in A PROVE f[i] = n /\ ~r /\ A = {i}
  BY <1>2 DEF OneArmed, NoneArmed
<1> QED
  BY <1>1, <1>2

LEMMA ArmedParts ==
  ASSUME finalizers \in Seq(0..MaxOps), resolved \in BOOLEAN
  PROVE  CancelersArmed <=>
           /\ ArmedBelow(finalizers, node)
           /\ ~SteppedAgain => OneArmed(finalizers, node) /\ (resolved => NoneArmed(finalizers))
           /\ SteppedAgain \/ closing = None => cancelled = {}
           /\ \A k \in cancelled : <<k, k>> \notin resumes
           /\ OwnAnswer => \A k \in cancelable :
                k \in ToSet(finalizers) \/ k \in cancelled \/ <<k, k>> \in resumes
BY ArmedNow, ArmedSets DEF CancelersArmed, Armed, ArmedBelow

LEMMA ArmedPartsAfter ==
  ASSUME finalizers' \in Seq(0..MaxOps), resolved' \in BOOLEAN
  PROVE  CancelersArmed' <=>
           /\ ArmedBelow(finalizers', node')
           /\ ~SteppedAgain' => OneArmed(finalizers', node') /\ (resolved' => NoneArmed(finalizers'))
           /\ SteppedAgain' \/ closing' = None => cancelled' = {}
           /\ \A k \in cancelled' : <<k, k>> \notin resumes'
           /\ OwnAnswer' => \A k \in cancelable' :
                k \in ToSet(finalizers') \/ k \in cancelled' \/ <<k, k>> \in resumes'
BY ArmedNow, ArmedSets DEF CancelersArmed, Armed, ArmedBelow

\* One finalizer more, or one less.
LEMMA ArmedAppend ==
  ASSUME NEW f \in Seq(Nat), NEW e \in Nat, NEW n \in Nat
  PROVE  /\ ArmedBelow(f, n) /\ e <= n => ArmedBelow(Append(f, e), n)
         /\ NoneArmed(f) /\ e = n => OneArmed(Append(f, e), n)
         /\ OneArmed(f, n) /\ e = 0 => OneArmed(Append(f, e), n)
         /\ NoneArmed(f) /\ e = 0 => NoneArmed(Append(f, e))
<1> DEFINE g == Append(f, e)
<1>1. /\ Len(f) \in Nat /\ Len(g) = Len(f) + 1 /\ g[Len(f) + 1] = e
      /\ \A i \in 1..Len(f) : g[i] = f[i] /\ f[i] \in Nat
  BY AppendProperties
<1> HIDE DEF g
<1>2. ASSUME NEW i \in 1..Len(g) PROVE i \in 1..Len(f) \/ i = Len(f) + 1
  BY <1>1
<1>3. ArmedBelow(f, n) /\ e <= n => ArmedBelow(g, n)
  BY <1>1, <1>2 DEF ArmedBelow
<1>4. NoneArmed(f) /\ e = n => OneArmed(g, n)
  BY <1>1, <1>2 DEF NoneArmed, OneArmed
<1>5. OneArmed(f, n) /\ e = 0 => OneArmed(g, n)
  BY <1>1, <1>2 DEF OneArmed
<1>6. NoneArmed(f) /\ e = 0 => NoneArmed(g)
  BY <1>1, <1>2 DEF NoneArmed
<1> QED
  BY <1>3, <1>4, <1>5, <1>6 DEF g

\* g is f without its finalizer i.
Without(g, f, i) == /\ Len(g) = Len(f) - 1
                    /\ \A j \in 1..(Len(f) - 1) : g[j] = IF j < i THEN f[j] ELSE f[j + 1]

LEMMA ArmedWithout ==
  ASSUME NEW f \in Seq(Nat), NEW g, NEW i \in 1..Len(f), Without(g, f, i), NEW n
  PROVE  /\ ArmedBelow(f, n) => ArmedBelow(g, n)
         /\ OneArmed(f, n) => OneArmed(g, n)
         /\ OneArmed(f, n) /\ (f[i] > 0 \/ f[i] = n) => NoneArmed(g)
         /\ NoneArmed(f) => NoneArmed(g)
<1> DEFINE at(j) == IF j < i THEN j ELSE j + 1
<1>1. Len(f) \in Nat /\ Len(g) = Len(f) - 1
  BY DEF Without
<1>2. ASSUME NEW j \in 1..Len(g) PROVE at(j) \in 1..Len(f) /\ g[j] = f[at(j)] /\ at(j) # i
  <2>1. j \in 1..(Len(f) - 1) /\ i \in Nat /\ at(j) \in 1..Len(f) /\ at(j) # i
    BY <1>1
  <2>2. g[j] = IF j < i THEN f[j] ELSE f[j + 1]
    BY <2>1 DEF Without
  <2> QED
    BY <2>1, <2>2
<1>3. ASSUME NEW j \in 1..Len(g), NEW k \in 1..Len(g), at(j) = at(k) PROVE j = k
  BY <1>1, <1>3
<1> HIDE DEF at
<1>4. ArmedBelow(f, n) => ArmedBelow(g, n)
  BY <1>2 DEF ArmedBelow
<1>5. OneArmed(f, n) => OneArmed(g, n)
  BY <1>2, <1>3 DEF OneArmed
<1>6. ASSUME OneArmed(f, n), f[i] > 0 \/ f[i] = n, NEW j \in 1..Len(g) PROVE ~(g[j] > 0)
  <2>1. ASSUME g[j] > 0 PROVE f[at(j)] > 0 /\ f[at(j)] = n /\ at(j) \in 1..Len(f) /\ at(j) # i
    BY <1>2, <1>6, <2>1 DEF OneArmed
  <2> QED
    BY <1>6, <2>1 DEF OneArmed
<1>7. NoneArmed(f) => NoneArmed(g)
  BY <1>2 DEF NoneArmed
<1> QED
  BY <1>4, <1>5, <1>6, <1>7 DEF NoneArmed

LEMMA NatsOfBound == ASSUME NEW f \in Seq(0..MaxOps) PROVE f \in Seq(Nat)
BY BoundsAssumption

\* Disarming takes the one canceler that is armed.
LEMMA DetachArmed ==
  ASSUME finalizers \in Seq(0..MaxOps), NEW n, Detach(n)
  PROVE  /\ \A m : ArmedBelow(finalizers, m) => ArmedBelow(finalizers', m)
         /\ OneArmed(finalizers, n) => NoneArmed(finalizers') /\ OneArmed(finalizers', n)
<1>1. finalizers \in Seq(Nat)
  BY NatsOfBound
<1>2. CASE n \notin ToSet(finalizers) /\ UNCHANGED finalizers
  <2>1. \A i \in 1..Len(finalizers) : finalizers[i] # n
    BY <1>1, <1>2 DEF ToSet
  <2> QED
    BY <1>2, <2>1 DEF OneArmed, NoneArmed
<1>3. CASE \E i \in DOMAIN finalizers : finalizers[i] = n /\ finalizers' = RemoveAt(finalizers, i)
  <2>1. PICK i \in 1..Len(finalizers) : finalizers[i] = n /\ finalizers' = RemoveAt(finalizers, i)
    BY <1>1, <1>3
  <2>2. Without(finalizers', finalizers, i)
    BY <1>1, <2>1, RemoveAtProperties DEF Without
  <2> QED
    BY <1>1, <2>1, <2>2, ArmedWithout
<1> QED
  BY <1>2, <1>3 DEF Detach

LEMMA CancelersKeep == ASSUME IInv, StepEffect, AsyncTypes' PROVE CancelersArmed'
<1>1. /\ AsyncTypes /\ CallbackState /\ AgainHolds /\ TurnExit /\ node \in Nat
      /\ finalizers \in Seq(0..MaxOps) /\ finalizers \in Seq(Nat)
      /\ resumes \subseteq Nodes \X Nodes /\ resolved \in BOOLEAN
      /\ cancelable \subseteq Nodes /\ cancelled \subseteq Nodes
      /\ \A e \in Exits : e # None
  BY CallbackNow, NatsOfBound
<1>2. /\ ArmedBelow(finalizers, node)
      /\ ~SteppedAgain => OneArmed(finalizers, node) /\ (resolved => NoneArmed(finalizers))
      /\ SteppedAgain \/ closing = None => cancelled = {}
      /\ \A k \in cancelled : <<k, k>> \notin resumes
      /\ OwnAnswer => \A k \in cancelable :
           k \in ToSet(finalizers) \/ k \in cancelled \/ <<k, k>> \in resumes
  BY <1>1, CallbackNow, ArmedParts
<1>3. finalizers' \in Seq(0..MaxOps) /\ resolved' \in BOOLEAN
  BY DEF AsyncTypes
<1>4. SUFFICES
        /\ ArmedBelow(finalizers', node')
        /\ ~SteppedAgain' => OneArmed(finalizers', node') /\ (resolved' => NoneArmed(finalizers'))
        /\ SteppedAgain' \/ closing' = None => cancelled' = {}
        /\ \A k \in cancelled' : <<k, k>> \notin resumes'
        /\ OwnAnswer' => \A k \in cancelable' :
             k \in ToSet(finalizers') \/ k \in cancelled' \/ <<k, k>> \in resumes'
  BY <1>3, ArmedPartsAfter
<1>5. CASE CallbackSame
  <2>1. SteppedAgain' = SteppedAgain /\ OwnAnswer' = OwnAnswer
    BY <1>5, AgainDoes DEF CallbackSame, asyncVars, OwnAnswer
  <2>2. /\ UNCHANGED <<node, resolved, resumes, cancelable, cancelled>>
        /\ closing' = None => closing = None
    BY <1>5 DEF CallbackSame, asyncVars
  <2>3. CASE finalizers' = finalizers
    BY <1>2, <2>1, <2>2, <2>3
  <2>4. CASE finalizers' = Append(finalizers, 0)
    <3>1. 0 \in Nat /\ 0 <= node
      BY <1>1
    <3>2. /\ ArmedBelow(finalizers', node)
          /\ OneArmed(finalizers, node) => OneArmed(finalizers', node)
          /\ NoneArmed(finalizers) => NoneArmed(finalizers')
      BY <1>1, <1>2, <2>4, <3>1, ArmedAppend
    <3>3. ToSet(finalizers) \subseteq ToSet(finalizers')
      BY <1>1, <2>4, <3>1, AppendNode
    <3> QED
      BY <1>2, <2>1, <2>2, <3>2, <3>3
  <2> QED
    BY <1>5, <2>3, <2>4 DEF CallbackSame
<1>6. CASE AsyncEffect
  <2>1. /\ node' \in Nodes /\ cancelled = {} /\ cancelled' = {} /\ closing = None
        /\ \/ code = "async" /\ node' = node /\ ~resolved
           \/ code = "next" /\ node' = node + 1 /\ (node = 0 \/ resolved)
    BY <1>6, AsyncNode
  <2>2. /\ code = "next" => SteppedAgain' = SteppedAgain
        /\ code = "async" => SteppedAgain'
    BY <1>6, AgainDoes
  <2>3. PICK n \in Nodes : n = node'
    BY <2>1
  <2>4. n \in Nat \ {0} /\ node <= n
    BY <1>1, <2>1, <2>3 DEF Nodes
  <2>5. \A i \in 1..Len(finalizers) : finalizers[i] \in Nat
    BY <1>1
  <2>6. ArmedBelow(finalizers, n)
    BY <1>1, <1>2, <2>4, <2>5 DEF ArmedBelow
  <2>7. node = 0 => NoneArmed(finalizers)
    BY <1>2, <2>5 DEF ArmedBelow, NoneArmed
  <2>8. ~SteppedAgain' => NoneArmed(finalizers)
    BY <1>2, <2>1, <2>2, <2>7
  <2>9. NoneArmed(finalizers) => OneArmed(finalizers, n)
    BY DEF NoneArmed, OneArmed
  <2>10. resumes \subseteq resumes'
    BY <1>6 DEF AsyncEffect, AsyncAnswered, AsyncSuspends
  <2>11. OwnAnswer' => OwnAnswer
    BY <2>10 DEF OwnAnswer
  <2>12. CASE UNCHANGED <<finalizers, cancelable>>
    BY <1>2, <2>1, <2>3, <2>6, <2>8, <2>9, <2>10, <2>11, <2>12
  <2>13. CASE /\ finalizers' = Append(finalizers, n) /\ cancelable' = cancelable \union {n}
              /\ resolved' = FALSE
    <3>1. /\ ArmedBelow(finalizers', n)
          /\ NoneArmed(finalizers) => OneArmed(finalizers', n)
      BY <1>1, <2>4, <2>6, <2>13, ArmedAppend
    <3>2. ToSet(finalizers') = ToSet(finalizers) \union {n}
      BY <1>1, <2>4, <2>13, AppendNode
    <3> QED
      BY <1>2, <2>1, <2>3, <2>8, <2>10, <2>11, <2>13, <3>1, <3>2
  <2> QED
    BY <1>6, <2>3, <2>12, <2>13 DEF AsyncEffect, AsyncAnswered, AsyncSuspends
<1>7. ASSUME NEW k \in Nodes, AnswerEffect(k)
      PROVE  /\ ArmedBelow(finalizers', node')
             /\ ~SteppedAgain' => OneArmed(finalizers', node') /\ (resolved' => NoneArmed(finalizers'))
             /\ SteppedAgain' \/ closing' = None => cancelled' = {}
             /\ \A c \in cancelled' : <<c, c>> \notin resumes'
             /\ OwnAnswer' => \A c \in cancelable' :
                  c \in ToSet(finalizers') \/ c \in cancelled' \/ <<c, c>> \in resumes'
  <2>1. UNCHANGED <<node, cancelable, cancelled>> /\ SteppedAgain' = SteppedAgain
    BY <1>7, AgainDoes DEF AnswerEffect
  <2>2. CASE AnswerTaken /\ resumes' = resumes \union {<<node, k>>} /\ Detach(node)
    <3>1. cancelled = {} /\ closing = None
      BY <1>2, <2>2 DEF AnswerTaken
    <3>2. /\ ArmedBelow(finalizers', node)
          /\ OneArmed(finalizers, node) => NoneArmed(finalizers') /\ OneArmed(finalizers', node)
      BY <1>1, <1>2, <2>2, DetachArmed
    <3>3. ToSet(finalizers) \subseteq ToSet(finalizers') \union {node}
      BY <1>1, <2>2, DetachDoes
    <3>4. OwnAnswer' => OwnAnswer /\ k = node
      <4>1. PICK r : r = <<node, k>>
        OBVIOUS
      <4>2. r \in resumes' /\ r[1] = node /\ r[2] = k /\ resumes \subseteq resumes'
        BY <2>2, <4>1
      <4>3. OwnAnswer' => k = node
        BY <4>2 DEF OwnAnswer
      <4>4. OwnAnswer' => OwnAnswer
        BY <4>2 DEF OwnAnswer
      <4> QED
        BY <4>3, <4>4
    <3> QED
      BY <1>2, <2>1, <2>2, <3>1, <3>2, <3>3, <3>4
  <2>3. CASE UNCHANGED <<resolved, resumes, finalizers, closing>>
    <3>1. OwnAnswer' = OwnAnswer
      BY <2>3 DEF OwnAnswer
    <3> QED
      BY <1>2, <2>1, <2>3, <3>1
  <2> QED
    BY <1>7, <2>2, <2>3 DEF AnswerEffect
<1>8. CASE FinalizerEffect
  <2>1. PICK n : n = finalizers[Len(finalizers)]
    OBVIOUS
  <2>2. Len(finalizers) \in 1..Len(finalizers) /\ Len(finalizers) \in Nat \ {0}
    <3>1. Len(finalizers) \in Nat /\ Len(finalizers) # 0
      BY <1>1, <1>8, EmptySeq DEF FinalizerEffect
    <3> QED
      BY <3>1
  <2>3. n \in 0..MaxOps /\ n \in Nat
    <3>1. n \in 0..MaxOps
      BY <1>1, <2>1, <2>2, SeqAt
    <3> QED
      BY <3>1, BoundsAssumption
  <2>4. Len(finalizers) \in 1..(Len(finalizers) + 1)
    BY <2>2
  <2>5. /\ Len(finalizers') = Len(finalizers) - 1
        /\ \A j \in 1..(Len(finalizers) - 1) : finalizers'[j] = finalizers[j]
    BY <1>1, <1>8, <2>4, PopStack DEF FinalizerEffect
  <2>6. Without(finalizers', finalizers, Len(finalizers))
    <3>1. \A j \in 1..(Len(finalizers) - 1) : j < Len(finalizers)
      BY <2>2
    <3> QED
      BY <2>5, <3>1 DEF Without
  <2>7. /\ ArmedBelow(finalizers', node)
        /\ OneArmed(finalizers, node) => OneArmed(finalizers', node)
        /\ OneArmed(finalizers, node) /\ n > 0 => NoneArmed(finalizers')
        /\ NoneArmed(finalizers) => NoneArmed(finalizers')
    BY <1>1, <1>2, <2>1, <2>2, <2>6, ArmedWithout
  <2>8. ToSet(finalizers) \subseteq ToSet(finalizers') \union {n}
    <3>1. ASSUME NEW i \in 1..Len(finalizers), i # Len(finalizers)
          PROVE  i \in 1..Len(finalizers') /\ finalizers'[i] = finalizers[i]
      BY <2>2, <2>5, <3>1
    <3>2. DOMAIN finalizers = 1..Len(finalizers) /\ DOMAIN finalizers' = 1..Len(finalizers')
      BY <1>1, <1>3
    <3> QED
      BY <2>1, <3>1, <3>2, Zenon DEF ToSet
  <2>9. /\ UNCHANGED <<node, resumes, cancelable>> /\ SteppedAgain' = SteppedAgain
        /\ OwnAnswer' = OwnAnswer
    BY <1>8, AgainDoes DEF FinalizerEffect, OwnAnswer
  <2>10. closing # None /\ closing' # None
    BY <1>1, <1>8 DEF FinalizerEffect, InterruptEffect, ScheduleEffect, TurnExit
  <2>11. SteppedAgain => resolved
    BY <1>1, <1>8 DEF AgainHolds, FinalizerEffect
  <2>12. CASE /\ n > 0 /\ resolved' = TRUE
              /\ cancelled' = IF resolved THEN cancelled ELSE cancelled \union {n}
    <3>1. ~NoneArmed(finalizers)
      BY <2>1, <2>2, <2>12 DEF NoneArmed
    <3>2. ~resolved => n = node
      BY <1>2, <2>1, <2>2, <2>11, <2>12 DEF OneArmed
    <3>3. <<node, node>> \in resumes => resolved
      BY <1>1 DEF CallbackState
    <3>4. ASSUME resolved PROVE SteppedAgain /\ cancelled = {}
      BY <1>2, <3>1, <3>4
    <3>5. ASSUME resolved, OwnAnswer PROVE <<n, n>> \in resumes
      <4>1. n \in 1..node
        <5>1. n <= node
          BY <1>2, <2>1, <2>2, <2>12 DEF ArmedBelow
        <5> QED
          BY <1>1, <2>3, <2>12, <5>1
      <4>2. PICK m \in Nodes : <<n, m>> \in resumes
        BY <1>1, <3>4, <3>5, <4>1 DEF CallbackState
      <4> QED
        BY <3>5, <4>2 DEF OwnAnswer
    <3>6. SteppedAgain' => cancelled' = {}
      BY <1>2, <2>9, <2>11, <2>12
    <3>7. \A c \in cancelled' : <<c, c>> \notin resumes
      BY <1>2, <2>12, <3>2, <3>3
    <3>8. ~SteppedAgain => OneArmed(finalizers', node) /\ NoneArmed(finalizers')
      BY <1>2, <2>7, <2>12
    <3>9. OwnAnswer => \A c \in cancelable :
            c \in ToSet(finalizers') \/ c \in cancelled' \/ <<c, c>> \in resumes
      BY <1>2, <2>8, <2>12, <3>5
    <3> QED
      BY <2>7, <2>9, <2>10, <3>6, <3>7, <3>8, <3>9
  <2>13. CASE ~(n > 0) /\ UNCHANGED <<resolved, cancelled>>
    <3>1. n \notin Nodes
      BY <2>13 DEF Nodes
    <3>2. OwnAnswer => \A c \in cancelable :
            c \in ToSet(finalizers') \/ c \in cancelled' \/ <<c, c>> \in resumes
      BY <1>1, <1>2, <2>8, <2>13, <3>1
    <3> QED
      BY <1>2, <2>7, <2>9, <2>10, <2>13, <3>2
  <2> QED
    BY <1>8, <2>1, <2>12, <2>13 DEF FinalizerEffect
<1> QED
  BY <1>5, <1>6, <1>7, <1>8, CallbackSteps

-----------------------------------------------------------------------------
LEMMA OwnTyped == ASSUME IInv, [Next]_vars PROVE ownInterrupt' \in BOOLEAN
BY OwnInterruptNoted, QueueTypes

LEMMA NextIInv == IInv /\ [Next]_vars => IInv'
<1> SUFFICES ASSUME IInv, [Next]_vars PROVE IInv'
  OBVIOUS
<1>1. StepEffect /\ StackStep /\ StackInv
  BY StepDoes, StepStack, IInvStack
<1>2. StackInv' /\ fuel' \in 0..fuel
  BY <1>1, StackKeeps DEF StackStep
<1>3. ownInterrupt' \in BOOLEAN
  BY OwnTyped
<1>4. RunTypes' /\ AsyncTypes' /\ JoinTypes'
  BY <1>1, <1>2, <1>3, RunTypesKeep, AsyncTypesKeep, JoinTypesKeep
<1>5. (TypeOK /\ FuelBounds)'
  BY <1>2, <1>4
     DEF TypeOK, FuelBounds, RunTypes, AsyncTypes, JoinTypes, StackInv, StackTypes, StackBounds
<1>6. (MaskDiscipline /\ RefDiscipline /\ RefRestoredOnReturn)'
  BY <1>2 DEF StackInv
<1>7. TurnExit' /\ CallbackState' /\ CancelersArmed' /\ OwnAnswerIfOnce'
  BY <1>1, <1>4, TurnKeeps, CallbackKeeps, CancelersKeep, OwnAnswerKeeps
<1>8. StepsQueued'
  BY <1>1, QueueKeeps, AgainKeeps, QueueParts
<1> QED
  BY <1>5, <1>6, <1>7, <1>8 DEF IInv

LEMMA IInvInductive == Spec => []IInv
BY InitIInv, NextIInv, PTL DEF Spec

\* Every reachable state is well-typed, and no counter of the fiber (depth of regions,
\* value of a FiberRef, Async nodes) passes what the program can still do.
THEOREM TypeCorrect == Spec => [](TypeOK /\ FuelBounds)
<1>1. IInv => TypeOK /\ FuelBounds
  BY DEF IInv
<1> QED
  BY <1>1, IInvInductive, PTL

\* Whatever regions the program opens and however it leaves them, by value, failure,
\* restore, an interrupt at the border of a shield, or the end of the fiber
\* (InterruptibilityCont and FiberRefCont in onSuccess and onCause, fiber.ts): the mode is
\* that of the innermost open region, and the FiberRef has its outermost value again when
\* the fiber ends by value or by a typed failure.
THEOREM RegionsRestoredTheorem == Spec => []RegionsRestored
<1>1. IInv => RegionsRestored
  BY DEF IInv, RegionsRestored
<1> QED
  BY <1>1, IInvInductive, PTL

\* The scheduler queue has exactly one entry of a queued fiber and none of a suspended one
\* as long as its own code does not interrupt it; as long as no operation calls back twice
\* a node resumes with the answer of its own operation; no canceler runs for an answer that
\* was taken, and at the end none is missing (schedule, the callback of Async nodes and
\* _asyncDetach, notify in fiber.ts).
THEOREM AnswersMatchTheorem == Spec => []AnswersMatch
<1>1. ASSUME IInv PROVE AnswersMatch
  <2>1. TypeOK /\ StepsQueued /\ CancelersArmed /\ OwnAnswerIfOnce /\ TurnExit
    BY <1>1 DEF IInv
  <2>2. OneEntryFromOutside
    <3>1. ASSUME ~ownInterrupt, phase = "idle", result = None
          PROVE  entries = IF runState = "Queued" THEN 1 ELSE 0
      BY <2>1, <3>1 DEF TypeOK, StepsQueued, Extra
    <3> QED
      BY <3>1 DEF OneEntryFromOutside, OneEntry
  <2>3. AnsweredOrCancelled
    <3>1. \A k \in cancelled : <<k, k>> \notin resumes
      BY <2>1 DEF CancelersArmed
    <3>2. ASSUME AnswersOnce, result # None
          PROVE  \A k \in cancelable : k \in cancelled \/ <<k, k>> \in resumes
      <4>1. OwnAnswer /\ ToSet(finalizers) = {}
        BY <2>1, <3>2 DEF OwnAnswerIfOnce, TurnExit, ToSet
      <4> QED
        BY <2>1, <4>1 DEF CancelersArmed
    <3> QED
      BY <3>1, <3>2 DEF AnsweredOrCancelled
  <2> QED
    BY <2>1, <2>2, <2>3 DEF AnswersMatch
<1> QED
  BY <1>1, IInvInductive, PTL

-----------------------------------------------------------------------------
(* The fiber keeps the contract *)

\* The parts of a step that the contract speaks of: the joiners, or what becomes of the exit.
ExitStep ==
  \/ UNCHANGED <<interrupted, closing, result, waiting, told>>
  \/ /\ UNCHANGED <<interrupted, result, waiting, told>> /\ closing = None
     /\ closing' \in Exits /\ (closing' = Success => ~interrupted)
  \/ /\ ~interrupted /\ interrupted' = TRUE /\ result = None
     /\ closing' = closing \/ (closing = None /\ closing' = Die)
     /\ UNCHANGED <<result, waiting, told>>
  \/ /\ closing # None /\ result = None /\ result' = closing
     /\ UNCHANGED <<interrupted, closing, waiting, told>>
  \/ \E j \in Joiners : JoinCall(j) \/ NotifyJoiner(j)

LEMMA ExitSteps == ASSUME IInv, [Next]_vars PROVE ExitStep
<1>1. TurnExit /\ \A e \in Exits : e # None
  BY NoneAssumption DEF IInv
<1>2. Die \in Exits /\ Die # Success
  BY DEF Die, Exits, Success
<1>3. CASE \E j \in Joiners : JoinCall(j) \/ NotifyJoiner(j)
  BY <1>3 DEF ExitStep
<1>4. CASE QuietStep
  BY <1>1, <1>4 DEF QuietStep, Moves, TurnExit, ExitStep
<1>5. CASE BeginEffect
  BY <1>1, <1>5 DEF BeginEffect, BeginOver, BeginUnwinds, BeginEval, Fails, ExitStep
<1>6. CASE YieldEffect
  BY <1>1, <1>2, <1>6 DEF YieldEffect, ScheduleEffect, ExitStep
<1>7. CASE SelfEffect
  BY <1>1, <1>2, <1>7 DEF SelfEffect, InterruptEffect, ScheduleEffect, ExitStep
<1>8. CASE AsyncEffect
  BY <1>1, <1>8 DEF AsyncEffect, AsyncAnswered, AsyncSuspends, Moves, TurnExit, ExitStep
<1>9. ASSUME NEW k \in Nodes, AnswerEffect(k) PROVE ExitStep
  <2>1. CASE AnswerTaken
    BY <1>9, <2>1 DEF AnswerEffect, AnswerTaken, Fails, ExitStep
  <2>2. CASE ~AnswerTaken
    BY <1>9, <2>2 DEF AnswerEffect, ExitStep
  <2> QED
    BY <2>1, <2>2
<1>10. CASE CallEffect
  BY <1>1, <1>2, <1>10 DEF CallEffect, InterruptEffect, ScheduleEffect, ExitStep
<1>11. CASE FinalizerEffect
  BY <1>1, <1>2, <1>11 DEF FinalizerEffect, InterruptEffect, ScheduleEffect, ExitStep
<1>12. CASE PublishEffect
  BY <1>1, <1>12 DEF PublishEffect, TurnExit, ExitStep
<1>13. CASE EndEffect
  BY <1>13 DEF EndEffect, ExitStep
<1>14. CASE JoinersOnly /\ UNCHANGED <<waiting, told>>
  BY <1>14 DEF JoinersOnly, ExitStep
<1> QED
  BY <1>3, <1>4, <1>5, <1>6, <1>7, <1>8, <1>9, <1>10, <1>11, <1>12, <1>13, <1>14, StepDoes,
     JoinersKeep DEF StepEffect

\* The initial states of the fiber are initial states of the contract.
LEMMA ContractInit == Init => Contract!Init
BY DEF Init, Contract!Init

\* Every step of the fiber is a step of the contract, or leaves it alone.
LEMMA ContractNext == IInv /\ [Next]_vars => [Contract!Next]_Contract!vars
<1> SUFFICES ASSUME IInv, [Next]_vars PROVE [Contract!Next]_Contract!vars
  OBVIOUS
<1>1. ExitStep /\ TurnExit /\ interrupted \in BOOLEAN
  BY ExitSteps DEF IInv, TypeOK
<1>2. Contract!Exits = Exits /\ Contract!Success = Success /\ Die = {"die"}
  BY DEF Contract!Exits, Contract!Success, Exits, Success, Die
<1>3. CASE UNCHANGED <<interrupted, closing, result, waiting, told>>
  BY <1>3 DEF Contract!vars
<1>4. CASE /\ UNCHANGED <<interrupted, result, waiting, told>> /\ closing = None
           /\ closing' \in Exits /\ (closing' = Success => ~interrupted)
  BY <1>2, <1>4 DEF Contract!Next, Contract!Commit
<1>5. CASE /\ ~interrupted /\ interrupted' = TRUE /\ result = None
           /\ closing' = closing \/ (closing = None /\ closing' = Die)
           /\ UNCHANGED <<result, waiting, told>>
  BY <1>2, <1>5 DEF Contract!Next, Contract!Request
<1>6. CASE /\ closing # None /\ result = None /\ result' = closing
           /\ UNCHANGED <<interrupted, closing, waiting, told>>
  BY <1>6 DEF Contract!Next, Contract!Publish
<1>7. ASSUME NEW j \in Joiners, JoinCall(j) PROVE Contract!Next
  BY <1>7 DEF JoinCall, Contract!Next, Contract!Join
<1>8. ASSUME NEW j \in Joiners, NotifyJoiner(j) PROVE Contract!Next
  BY <1>1, <1>8 DEF NotifyJoiner, TurnExit, Contract!Next, Contract!Tell
<1> QED
  BY <1>1, <1>3, <1>4, <1>5, <1>6, <1>7, <1>8 DEF ExitStep

\* A RuntimeFiber keeps what the type Fiber promises to the code that holds it: it ends at
\* most once, an interrupt requested before the end rules out a success, and every joiner is
\* told the one published exit, once (fiber.ts: notify, interrupt, join).
THEOREM Refinement == Spec => ImplementsContract
BY ContractInit, ContractNext, IInvInductive, PTL DEF Spec, ImplementsContract, Contract!Spec
=============================================================================
