--------------------------- MODULE SchedulerProofs ---------------------------
(***************************************************************************)
(* Machine-checked proofs about Scheduler: for every set of lanes, every   *)
(* budget, capacity and threshold, both lane modes, any number of tasks;   *)
(* and about WasmEngine, whose drains a scheduler runs: for every set of   *)
(* fibers, capacity and budget, any number of requests.                    *)
(***************************************************************************)
EXTENDS Scheduler, WasmEngine, QueueLemmas

LEMMA InitIInv == Init => IInv
<1> SUFFICES ASSUME Init PROVE IInv
  OBVIOUS
<1>1. /\ \A l \in Lanes : queues[l] = <<>> /\ ToSet(queues[l]) = {}
      /\ queues \in [Lanes -> Seq(Tasks)] /\ Overflow \in Lanes
  BY DEF Init, ToSet, Lanes
<1>2. laneOrder \in Seq(Lanes) /\ Len(laneOrder) <= 1
      /\ (laneMode = "single" => Created(Single) /\ Created(Overflow))
  BY <1>1 DEF Init, Created, Single, ToSet
<1>3. TypeOK
  <2>1. Len(laneOrder) \in Nat /\ Len(laneOrder) <= MaxLanes + 1
    BY <1>2, SchedulerAssumption
  <2>2. /\ 0 \in 0..MaxTasks /\ 0 \in 0..(LaneBudget - 1) /\ 0 \in 0..FlushBudget
    BY SchedulerAssumption
  <2>3. /\ lastRun \in [Lanes -> 0..MaxTasks] /\ overtaken \in [Lanes -> Nat]
    BY <2>2 DEF Init
  <2> QED
    BY <1>1, <1>2, <2>1, <2>2, <2>3 DEF Init, TypeOK
<1>4. LanesCapped
  BY <1>2, SchedulerAssumption DEF LanesCapped
<1>5. QueuedOnce
  BY <1>1 DEF QueuedOnce, IsInjective
<1>6. Queued = {}
  BY <1>1 DEF Queued
<1>7. LengthIsExact
  BY <1>6, FS_EmptySet DEF Init, LengthIsExact
<1>8. OneFlush /\ FlushFlags
  BY SchedulerAssumption DEF Init, OneFlush, FlushFlags
<1> QED
  BY <1>3, <1>4, <1>5, <1>7, <1>8 DEF IInv

\* Queued is a finite set: its cardinality grows and shrinks by one.
LEMMA QueuedFinite == ASSUME IInv PROVE IsFiniteSet(Queued)
<1>1. IsFiniteSet(Tasks)
  BY FS_Interval, SchedulerAssumption DEF Tasks
<1> QED
  BY <1>1, FS_Subset DEF Queued

\* What appending a new task to a lane does to the set of queued tasks.
LEMMA QueuedGrows ==
  ASSUME IInv, NEW lane \in Lanes, enqueued < MaxTasks, enqueued' = enqueued + 1,
         queues' = [queues EXCEPT ![lane] = Append(@, enqueued + 1)],
         \A l \in Lanes : Created(l) => Created(l)', Created(lane)'
  PROVE  /\ queues' \in [Lanes -> Seq(Tasks)] /\ QueuedOnce'
         /\ Queued' = Queued \union {enqueued + 1}
         /\ Cardinality(Queued)' = Cardinality(Queued) + 1
<1> DEFINE t == enqueued + 1
<1>1. /\ queues \in [Lanes -> Seq(Tasks)] /\ enqueued \in 0..MaxTasks /\ MaxTasks \in Nat
      /\ t \in Tasks /\ QueuedOnce
  BY SchedulerAssumption DEF IInv, TypeOK, Tasks
<1>2. \A l \in Lanes : /\ queues[l] \in Seq(Tasks) /\ ToSet(queues[l]) \subseteq Tasks
                       /\ t \notin ToSet(queues[l])
  <2> SUFFICES ASSUME NEW l \in Lanes
               PROVE  /\ queues[l] \in Seq(Tasks) /\ ToSet(queues[l]) \subseteq Tasks
                      /\ t \notin ToSet(queues[l])
    OBVIOUS
  <2>1. queues[l] \in Seq(Tasks) /\ ToSet(queues[l]) \subseteq Tasks
    BY <1>1 DEF ToSet
  <2>2. ~(t <= enqueued)
    BY <1>1
  <2> QED
    BY <1>1, <2>1, <2>2 DEF QueuedOnce
<1> HIDE DEF t
<1>3. /\ queues'[lane] \in Seq(Tasks) /\ ToSet(queues'[lane]) = ToSet(queues[lane]) \union {t}
      /\ IsInjective(queues'[lane])
  BY <1>1, <1>2, AppendNode DEF QueuedOnce, t
<1>4. \A l \in Lanes \ {lane} : queues'[l] = queues[l]
  BY <1>1
<1>5. queues' \in [Lanes -> Seq(Tasks)]
  BY <1>1, <1>3, <1>4
<1>6. \A l \in Lanes : \A u \in ToSet(queues'[l]) : u <= enqueued'
  <2> SUFFICES ASSUME NEW l \in Lanes, NEW u \in ToSet(queues'[l]) PROVE u <= enqueued'
    OBVIOUS
  <2>1. u = t \/ u \in ToSet(queues[l])
    BY <1>3, <1>4
  <2>2. u \in Tasks /\ enqueued \in Nat
    BY <2>1, <1>1, <1>2
  <2> QED
    BY <2>1, <2>2, <1>1 DEF QueuedOnce, Tasks, t
<1>7. QueuedOnce'
  BY <1>1, <1>2, <1>3, <1>4, <1>6 DEF QueuedOnce
<1>8. Queued' = Queued \union {t} /\ t \notin Queued
  BY <1>1, <1>2, <1>3, <1>4 DEF Queued
<1>9. Cardinality(Queued)' = Cardinality(Queued) + 1
  BY <1>8, QueuedFinite, FS_AddElement
<1> QED
  BY <1>5, <1>7, <1>8, <1>9 DEF t

\* What taking the oldest task of a lane does to the set of queued tasks.
LEMMA QueuedShrinks ==
  ASSUME IInv, NEW lane \in Lanes, queues[lane] # <<>>,
         queues' = [queues EXCEPT ![lane] = Tail(@)], UNCHANGED <<enqueued, laneOrder>>
  PROVE  /\ queues' \in [Lanes -> Seq(Tasks)] /\ QueuedOnce'
         /\ Head(queues[lane]) \in Queued /\ Queued' = Queued \ {Head(queues[lane])}
         /\ Cardinality(Queued) \in Nat \ {0}
         /\ Cardinality(Queued)' = Cardinality(Queued) - 1
<1> DEFINE t == Head(queues[lane])
<1>1. /\ queues \in [Lanes -> Seq(Tasks)] /\ QueuedOnce
      /\ IsInjective(queues[lane]) /\ queues[lane] \in Seq(Tasks)
  BY DEF IInv, TypeOK, QueuedOnce
<1> HIDE DEF t
<1>2. /\ t \in Tasks /\ t \in ToSet(queues[lane])
      /\ queues'[lane] \in Seq(Tasks) /\ IsInjective(queues'[lane])
      /\ ToSet(queues'[lane]) = ToSet(queues[lane]) \ {t}
  BY <1>1, TailNode DEF t
<1>3. \A l \in Lanes \ {lane} : queues'[l] = queues[l] /\ t \notin ToSet(queues[l])
  BY <1>1, <1>2 DEF QueuedOnce
<1>4. queues' \in [Lanes -> Seq(Tasks)]
  BY <1>1, <1>2, <1>3
<1>5. \A l \in Lanes : Created(l)' = Created(l)
  BY DEF Created
<1>6. Created(lane)
  BY <1>1 DEF QueuedOnce
<1>7. QueuedOnce'
  BY <1>1, <1>2, <1>3, <1>5, <1>6 DEF QueuedOnce
<1>8. Queued' = Queued \ {t} /\ t \in Queued
  BY <1>2, <1>3 DEF Queued
<1>9. /\ Cardinality(Queued)' = Cardinality(Queued) - 1
      /\ Cardinality(Queued) \in Nat \ {0}
  <2>1. IsFiniteSet(Queued) /\ IsFiniteSet(Queued \ {t})
    BY QueuedFinite, FS_Subset
  <2>2. Cardinality(Queued \ {t}) = Cardinality(Queued) - 1
        /\ Cardinality(Queued \ {t}) \in Nat /\ Cardinality(Queued) \in Nat
    BY <1>8, <2>1, FS_RemoveElement, FS_CardinalityType
  <2> QED
    BY <1>8, <2>2
<1> QED
  BY <1>4, <1>7, <1>8, <1>9 DEF t

\* The lane of a key, and what scheduling does to the list of lanes.
LEMMA LanesGrow ==
  ASSUME IInv, laneMode' = laneMode, NEW key \in Keys, NEW lane, lane = LaneFor(key),
         laneOrder' = IF Created(lane) THEN laneOrder ELSE Append(laneOrder, lane)
  PROVE  /\ lane \in Lanes /\ Created(lane)'
         /\ \A l \in Lanes : Created(l) => Created(l)'
         /\ laneOrder' \in Seq(Lanes) /\ Len(laneOrder') <= MaxLanes + 1 /\ LanesCapped'
<1>1. /\ lane \in Lanes /\ Overflow \in Lanes /\ laneOrder \in Seq(Lanes)
      /\ Len(laneOrder) \in Nat /\ Len(laneOrder) <= MaxLanes + 1 /\ LanesCapped
      /\ MaxLanes \in Nat
  BY SchedulerAssumption DEF LaneFor, Lanes, Single, IInv, TypeOK
<1>2. CASE Created(lane)
  BY <1>1, <1>2 DEF Created, LanesCapped, Single
<1>3. CASE ~Created(lane)
  <2>1. /\ laneOrder' \in Seq(Lanes) /\ Len(laneOrder') = Len(laneOrder) + 1
        /\ ToSet(laneOrder') = ToSet(laneOrder) \union {lane}
    BY <1>1, <1>3, AppendNode
  <2>2. /\ Created(lane)' /\ \A l \in Lanes : Created(l) => Created(l)'
    BY <2>1 DEF Created
  <2>3. laneMode # "single" /\ (lane = Overflow \/ Len(laneOrder) < MaxLanes)
    BY <1>1, <1>3 DEF LaneFor, LanesCapped, Single
  <2>4. Len(laneOrder) <= MaxLanes
    BY <1>1, <1>3, <2>3 DEF LanesCapped
  <2>5. Len(laneOrder') <= MaxLanes + 1
    BY <1>1, <2>1, <2>4
  <2>6. LanesCapped'
    BY <1>1, <2>1, <2>2, <2>3 DEF LanesCapped
  <2> QED
    BY <1>1, <2>1, <2>2, <2>5, <2>6
<1> QED
  BY <1>2, <1>3

LEMMA ScheduleIInv ==
  ASSUME IInv, laneMode' = laneMode, NEW key \in Keys, Schedule(key)
  PROVE  IInv'
<1> DEFINE task == enqueued + 1
<1>l. PICK lane : lane = LaneFor(key)
  OBVIOUS
<1>0. /\ TypeOK /\ QueuedOnce /\ LengthIsExact /\ OneFlush /\ FlushFlags
      /\ totalLength \in Nat /\ micro \in Nat /\ macro \in Nat /\ enqueued \in Nat
      /\ MaxTasks \in Nat /\ FlushBudget \in Nat /\ enqueued < MaxTasks
      /\ sinceYield \in Nat /\ scheduled \in BOOLEAN /\ flushing \in BOOLEAN
  BY SchedulerAssumption DEF IInv, TypeOK, Schedule
<1>1. /\ lane \in Lanes /\ Created(lane)' /\ \A l \in Lanes : Created(l) => Created(l)'
      /\ laneOrder' \in Seq(Lanes) /\ Len(laneOrder') <= MaxLanes + 1 /\ LanesCapped'
  <2>1. laneOrder' = IF Created(lane) THEN laneOrder ELSE Append(laneOrder, lane)
    BY <1>l DEF Schedule
  <2> QED
    BY <1>l, <2>1, LanesGrow
<1>2. /\ enqueued' = enqueued + 1 /\ task \in Tasks
      /\ UNCHANGED <<flushing, ran, running, executed, rrIndex, rrRemaining, lastRun, overtaken>>
      /\ sinceYield' = IF flushing \/ scheduled THEN sinceYield ELSE 0
      /\ Push(lane, task) /\ Wake(totalLength')
  BY <1>0, <1>l DEF Schedule, Tasks, turnVars, history
<1> HIDE DEF task
<1>3. /\ queues' \in [Lanes -> Seq(Tasks)] /\ QueuedOnce' /\ LengthIsExact'
      /\ accepted' \subseteq Tasks /\ totalLength' \in {totalLength, totalLength + 1}
  <2>1. CASE UNCHANGED <<queues, totalLength, accepted>>
    <3>1. Queued' = Queued
      BY <2>1 DEF Queued
    <3>2. QueuedOnce'
      <4> SUFFICES ASSUME NEW l \in Lanes
                   PROVE  /\ IsInjective(queues[l])
                          /\ \A u \in ToSet(queues[l]) : u <= enqueued'
                          /\ ~Created(l)' => queues[l] = <<>>
                          /\ \A m \in Lanes \ {l} : ToSet(queues[l]) \cap ToSet(queues[m]) = {}
        BY <2>1 DEF QueuedOnce
      <4>1. ToSet(queues[l]) \subseteq Nat
        BY <1>0 DEF TypeOK, ToSet, Tasks
      <4>2. \A u \in ToSet(queues[l]) : u \in Nat /\ u <= enqueued
        BY <1>0, <4>1 DEF QueuedOnce
      <4>3. \A u \in ToSet(queues[l]) : u <= enqueued'
        BY <1>0, <1>2, <4>2
      <4> QED
        BY <1>0, <1>1, <4>3 DEF QueuedOnce
    <3> QED
      BY <1>0, <2>1, <3>1, <3>2 DEF TypeOK, LengthIsExact
  <2>2. CASE /\ queues' = [queues EXCEPT ![lane] = Append(@, task)]
             /\ totalLength' = totalLength + 1
             /\ accepted' = accepted \union {task}
    <3>1. /\ queues' \in [Lanes -> Seq(Tasks)] /\ QueuedOnce'
          /\ Cardinality(Queued)' = Cardinality(Queued) + 1
      <4>1. queues' = [queues EXCEPT ![lane] = Append(@, enqueued + 1)]
        BY <2>2 DEF task
      <4> QED
        BY <1>0, <1>1, <1>2, <4>1, QueuedGrows
    <3> QED
      BY <1>0, <1>2, <2>2, <3>1 DEF TypeOK, LengthIsExact
  <2> QED
    BY <1>2, <2>1, <2>2 DEF Push
<1>4. IsFiniteSet(Queued') /\ Cardinality(Queued') <= MaxTasks
  <2>1. IsFiniteSet(1..MaxTasks) /\ Cardinality(1..MaxTasks) = MaxTasks
    BY <1>0, FS_Interval
  <2> QED
    BY <2>1, FS_Subset DEF Queued, Tasks
<1>5. totalLength' \in 0..MaxTasks
  BY <1>0, <1>3, <1>4 DEF LengthIsExact
<1>6. /\ micro' \in Nat /\ macro' \in Nat /\ scheduled' \in BOOLEAN /\ OneFlush' /\ FlushFlags'
  <2>1. CASE ~flushing /\ ~scheduled /\ totalLength' > 0
    BY <1>0, <1>2, <1>5, <2>1 DEF Wake, RequestFlush, OneFlush, FlushFlags
  <2>2. CASE ~(~flushing /\ ~scheduled /\ totalLength' > 0)
    BY <1>0, <1>2, <1>5, <2>2 DEF Wake, hostVars, OneFlush, FlushFlags
  <2> QED
    BY <2>1, <2>2
<1>7. TypeOK'
  <2>1. enqueued' \in 0..MaxTasks /\ sinceYield' \in Nat
    BY <1>0, <1>2
  <2> QED
    BY <1>0, <1>1, <1>2, <1>3, <1>5, <1>6, <2>1 DEF TypeOK
<1> QED
  BY <1>1, <1>3, <1>6, <1>7 DEF IInv

\* Nothing about the queues changes: what is left is types and flags.
LEMMA SameQueues ==
  ASSUME IInv, laneMode' = laneMode, UNCHANGED <<laneVars, enqueued>>
  PROVE  LanesCapped' /\ QueuedOnce' /\ LengthIsExact'
<1>1. Queued' = Queued /\ \A l \in Lanes \union {Overflow} : Created(l)' = Created(l)
  BY DEF laneVars, Queued, Created
<1> QED
  BY <1>1 DEF IInv, laneVars, LanesCapped, QueuedOnce, LengthIsExact, Created

LEMMA BeginFlushIInv ==
  ASSUME IInv, laneMode' = laneMode, NEW fromMicro \in BOOLEAN, BeginFlush(fromMicro)
  PROVE  IInv'
<1>1. LanesCapped' /\ QueuedOnce' /\ LengthIsExact'
  BY SameQueues DEF BeginFlush, callVars
<1>2. /\ OneFlush /\ FlushFlags /\ micro \in Nat /\ macro \in Nat /\ scheduled \in BOOLEAN
      /\ FlushBudget \in Nat /\ totalLength \in Nat
  BY SchedulerAssumption DEF IInv, TypeOK
<1>3. /\ micro' \in Nat /\ macro' \in Nat /\ OneFlush' /\ FlushFlags'
      /\ sinceYield' \in Nat /\ ran' \in 0..FlushBudget
  BY <1>2 DEF BeginFlush, OneFlush, FlushFlags, laneVars
<1>4. TypeOK'
  BY <1>3 DEF IInv, TypeOK, BeginFlush, laneVars, turnVars, callVars, history
<1> QED
  BY <1>1, <1>3, <1>4 DEF IInv

LEMMA TakeIInv ==
  ASSUME IInv, laneMode' = laneMode, InFlush, ran < FlushBudget, NEW lane \in Lanes, ~IdleLane(lane), TakeFrom(lane),
         rrIndex' \in Nat, rrRemaining' \in 0..(LaneBudget - 1)
  PROVE  IInv'
<1>1. /\ queues' = [queues EXCEPT ![lane] = Tail(@)] /\ queues[lane] # <<>>
      /\ UNCHANGED <<enqueued, laneOrder>> /\ totalLength' = totalLength - 1
      /\ running' = Head(queues[lane]) /\ ran' = ran + 1 /\ sinceYield' = sinceYield + 1
      /\ UNCHANGED <<micro, macro, scheduled, accepted, flushing, executed>>
  BY DEF TakeFrom, Shift, IdleLane, hostVars, callVars
<1>2. /\ queues' \in [Lanes -> Seq(Tasks)] /\ QueuedOnce' /\ running' \in Tasks
      /\ Cardinality(Queued) \in Nat \ {0}
      /\ Cardinality(Queued)' = Cardinality(Queued) - 1
  BY <1>1, QueuedShrinks DEF Queued
<1>3. LengthIsExact' /\ totalLength' \in 0..MaxTasks
  BY <1>1, <1>2, SchedulerAssumption DEF IInv, TypeOK, LengthIsExact
<1>4. LanesCapped'
  BY <1>1 DEF IInv, LanesCapped, Created
<1>5. OneFlush' /\ FlushFlags' /\ ran' \in 0..FlushBudget /\ sinceYield' \in Nat
  BY <1>1, <1>3, SchedulerAssumption
     DEF IInv, TypeOK, InFlush, OneFlush, FlushFlags
<1>6. running' \in 0..MaxTasks
  BY <1>2, SchedulerAssumption DEF Tasks
<1>7. lastRun' \in [Lanes -> 0..MaxTasks] /\ overtaken' \in [Lanes -> Nat]
  BY <1>6 DEF IInv, TypeOK, TakeFrom
<1>8. TypeOK'
  BY <1>1, <1>2, <1>3, <1>5, <1>6, <1>7 DEF IInv, TypeOK
<1> QED
  BY <1>2, <1>3, <1>4, <1>5, <1>8 DEF IInv

\* The lanes the rotation looks at exist.
LEMMA LaneAtInLanes ==
  ASSUME IInv, laneOrder # <<>>, NEW s \in Nat
  PROVE  LaneAt(s) \in Lanes /\ Len(laneOrder) \in Nat \ {0} /\ rrIndex \in Nat
<1>1. /\ laneOrder \in Seq(Lanes) /\ Len(laneOrder) \in Nat \ {0} /\ rrIndex \in Nat
  BY DEF IInv, TypeOK
<1>2. ((rrIndex + s) % Len(laneOrder)) + 1 \in 1..Len(laneOrder)
  BY <1>1
<1> QED
  BY <1>1, <1>2 DEF LaneAt

LEMMA ContinueSliceIInv == ASSUME IInv, laneMode' = laneMode, ContinueSlice PROVE IInv'
<1>1. Len(laneOrder) \in Nat \ {0}
  BY LaneAtInLanes DEF ContinueSlice
<1>2. PICK lane \in Lanes : lane = CurrentLane
  BY <1>1, LaneAtInLanes DEF ContinueSlice, CurrentLane
<1>3. /\ InFlush /\ ran < FlushBudget /\ ~IdleLane(lane) /\ TakeFrom(lane)
      /\ rrIndex' = rrIndex /\ rrRemaining' = rrRemaining - 1 /\ rrRemaining > 0
  BY <1>2 DEF ContinueSlice, SliceLeft
<1>4. rrIndex' \in Nat /\ rrRemaining' \in 0..(LaneBudget - 1)
  BY <1>3, SchedulerAssumption DEF IInv, TypeOK
<1> QED
  BY <1>3, <1>4, TakeIInv

LEMMA NextLaneIInv == ASSUME IInv, laneMode' = laneMode, NextLane PROVE IInv'
<1>1. PICK s \in 0..(Len(laneOrder) - 1) : FirstBusy(s) /\ TakeFrom(LaneAt(s)) /\ RotateTo(s)
  BY DEF NextLane
<1>2. /\ LaneAt(s) \in Lanes /\ Len(laneOrder) \in Nat \ {0} /\ rrIndex \in Nat
  BY <1>1, LaneAtInLanes DEF NextLane
<1>3. PICK lane \in Lanes : lane = LaneAt(s)
  BY <1>2
<1>4. /\ InFlush /\ ran < FlushBudget /\ ~IdleLane(lane) /\ TakeFrom(lane)
  BY <1>1, <1>3 DEF NextLane, FirstBusy
<1>5. rrIndex' \in Nat /\ rrRemaining' \in 0..(LaneBudget - 1)
  BY <1>1, <1>2, SchedulerAssumption DEF RotateTo
<1> QED
  BY <1>4, <1>5, TakeIInv

LEMMA TakeSingleIInv == ASSUME IInv, laneMode' = laneMode, TakeSingle PROVE IInv'
<1>1. Single \in Lanes /\ rrIndex' \in Nat /\ rrRemaining' \in 0..(LaneBudget - 1)
  BY DEF Single, Lanes, TakeSingle, turnVars, IInv, TypeOK
<1> QED
  BY <1>1, TakeIInv DEF TakeSingle

LEMMA TaskEndsIInv == ASSUME IInv, laneMode' = laneMode, TaskEnds PROVE IInv'
<1>1. LanesCapped' /\ QueuedOnce' /\ LengthIsExact'
  BY SameQueues DEF TaskEnds, callVars
<1>2. OneFlush' /\ FlushFlags'
  BY DEF IInv, TaskEnds, OneFlush, FlushFlags, laneVars, hostVars
<1>3. executed' \subseteq Tasks /\ running' \in 0..MaxTasks
  BY SchedulerAssumption DEF IInv, TypeOK, TaskEnds, Tasks
<1>4. TypeOK'
  BY <1>3 DEF IInv, TypeOK, TaskEnds, laneVars, turnVars, hostVars, callVars, history
<1> QED
  BY <1>1, <1>2, <1>4 DEF IInv

\* A flush that ends short of its budget has left nothing: the lanes it found
\* idle are all the lanes, and totalLength agrees.
LEMMA EndFlushIInv == ASSUME IInv, laneMode' = laneMode, EndFlush PROVE IInv'
<1>1. LanesCapped' /\ QueuedOnce' /\ LengthIsExact'
  BY SameQueues DEF EndFlush, callVars
<1>2. ASSUME ran < FlushBudget PROVE totalLength = 0
  <2>1. \A l \in Lanes : queues[l] = <<>>
    <3> SUFFICES ASSUME NEW l \in Lanes, Created(l) PROVE queues[l] = <<>>
      BY DEF IInv, QueuedOnce
    <3>1. laneOrder \in Seq(Lanes) /\ \A i \in 1..Len(laneOrder) : IdleLane(laneOrder[i])
      BY <1>2, SchedulerAssumption DEF EndFlush, IInv, TypeOK
    <3>2. PICK i \in 1..Len(laneOrder) : laneOrder[i] = l
      BY <3>1 DEF Created, ToSet
    <3> QED
      BY <3>1, <3>2 DEF IdleLane
  <2>2. Queued = {}
    BY <2>1 DEF Queued, ToSet
  <2> QED
    BY <2>2, FS_EmptySet DEF IInv, LengthIsExact
<1>3. /\ OneFlush /\ FlushFlags /\ micro \in Nat /\ macro \in Nat /\ scheduled \in BOOLEAN
      /\ FlushBudget \in Nat /\ totalLength \in 0..MaxTasks /\ ran \in 0..FlushBudget
      /\ MaxTasks \in Nat /\ sinceYield \in Nat /\ flushing /\ ~flushing' /\ running = 0
      /\ RequestRest /\ UNCHANGED <<totalLength, running, sinceYield, ran>>
  BY SchedulerAssumption DEF IInv, TypeOK, EndFlush, InFlush, laneVars
<1>4. /\ micro' \in Nat /\ macro' \in Nat /\ scheduled' \in BOOLEAN /\ OneFlush' /\ FlushFlags'
  <2>1. CASE totalLength > 0 /\ ~scheduled
    <3>1. ran >= FlushBudget
      BY <1>2, <1>3, <2>1
    <3> QED
      BY <1>3, <2>1, <3>1 DEF RequestRest, RequestFlush, OneFlush, FlushFlags
  <2>2. CASE ~(totalLength > 0 /\ ~scheduled)
    BY <1>3, <2>2 DEF RequestRest, hostVars, OneFlush, FlushFlags
  <2> QED
    BY <2>1, <2>2
<1>5. rrRemaining' \in 0..(LaneBudget - 1)
  BY SchedulerAssumption DEF EndFlush, IInv, TypeOK
<1>6. TypeOK'
  BY <1>4, <1>5 DEF IInv, TypeOK, EndFlush, laneVars, callVars, history
<1> QED
  BY <1>1, <1>4, <1>6 DEF IInv

LEMMA NextIInv == IInv /\ [Next]_vars => IInv'
<1> SUFFICES ASSUME IInv, [Next]_vars PROVE IInv'
  OBVIOUS
<1>1. ASSUME laneMode' = laneMode, NEW key \in Keys, Schedule(key) PROVE IInv'
  BY <1>1, ScheduleIInv
<1>2. ASSUME laneMode' = laneMode, NEW fromMicro \in BOOLEAN, BeginFlush(fromMicro) PROVE IInv'
  BY <1>2, BeginFlushIInv
<1>3. CASE laneMode' = laneMode /\ ContinueSlice
  BY <1>3, ContinueSliceIInv
<1>4. CASE laneMode' = laneMode /\ NextLane
  BY <1>4, NextLaneIInv
<1>5. CASE laneMode' = laneMode /\ TakeSingle
  BY <1>5, TakeSingleIInv
<1>6. CASE laneMode' = laneMode /\ TaskEnds
  BY <1>6, TaskEndsIInv
<1>7. CASE laneMode' = laneMode /\ EndFlush
  BY <1>7, EndFlushIInv
<1>8. CASE UNCHANGED vars
  <2>1. LanesCapped' /\ QueuedOnce' /\ LengthIsExact'
    BY <1>8, SameQueues DEF vars, callVars
  <2>2. TypeOK' /\ OneFlush' /\ FlushFlags'
    BY <1>8 DEF IInv, TypeOK, OneFlush, FlushFlags, vars, laneVars, turnVars, hostVars,
                callVars, history
  <2> QED
    BY <2>1, <2>2 DEF IInv
<1> QED
  BY <1>1, <1>2, <1>3, <1>4, <1>5, <1>6, <1>7, <1>8 DEF Next, Flush, Take, Stopped

LEMMA IInvInductive == Spec => []IInv
BY InitIInv, NextIInv, PTL DEF Spec

-----------------------------------------------------------------------------
(* The fairness of the lanes, from FairInv *)

\* Arithmetic of the rotation: positions wrap, and a slice is worth one lane.
LEMMA WrapsOnce ==
  ASSUME NEW n \in Nat \ {0}, NEW x \in 0..(2 * n - 1)
  PROVE  x % n = IF x < n THEN x ELSE x - n
<1>1. CASE x < n
  BY <1>1
<1>2. CASE ~(x < n)
  <2>1. PICK q \in Int, m \in 0..(n - 1) : x = n * q + m /\ x % n = m
    OBVIOUS
  <2>2. q = 1
    <3>1. q > 0
      BY <1>2, <2>1
    <3>2. q < 2
      BY <1>2, <2>1
    <3> QED
      BY <3>1, <3>2
  <2> QED
    BY <1>2, <2>1, <2>2
<1> QED
  BY <1>1, <1>2

LEMMA SliceGrows ==
  ASSUME NEW b \in Nat \ {0}, NEW d \in Nat, NEW e \in Nat, d <= e
  PROVE  b * d \in Nat /\ b * e \in Nat /\ b * d <= b * e
         /\ b * (d + 1) = b * d + b /\ b * (e - d) = b * e - b * d
<1>1. /\ b * (d + 1) = b * d + b /\ b * (e - d) = b * e - b * d
      /\ b * d \in Nat /\ b * e \in Nat /\ e - d \in Nat
  OBVIOUS
<1>2. b * (e - d) \in Nat
  BY <1>1
<1> QED
  BY <1>1, <1>2

\* One slice more for every lane: the three ways a turn moves a waiting lane.
LEMMA TurnArithmetic ==
  ASSUME NEW b \in Nat \ {0}, NEW n \in Nat \ {0}, NEW d \in 0..(n - 1), NEW s \in 0..(n - 1),
         NEW o \in Nat, NEW r \in Nat
  PROVE  /\ d > s /\ o + b * d + r <= b * (n - 1)
              => (o + 1) + b * (d - s - 1) + (b - 1) <= b * (n - 1)
         /\ d > s /\ d = n - 1 /\ o = 0
              => (o + 1) + b * (d - s - 1) + (b - 1) <= b * (n - 1)
         /\ d < s => b * (d + n - s - 1) + (b - 1) <= b * (n - 1)
<1>1. ASSUME NEW e \in Nat, NEW f \in Nat, e < f PROVE b * e + b <= b * f /\ b * e \in Nat /\ b * f \in Nat
  <2>1. e + 1 \in Nat /\ e + 1 <= f
    BY <1>1
  <2>2. b * (e + 1) <= b * f /\ b * e \in Nat /\ b * f \in Nat
    BY <2>1, SliceGrows
  <2>3. b * (e + 1) = b * e + b
    BY SliceGrows
  <2> QED
    BY <2>2, <2>3
<1>2. ASSUME d > s PROVE b * (d - s - 1) + b <= b * d /\ b * (d - s - 1) \in Nat /\ b * d \in Nat
  <2>1. d - s - 1 \in Nat /\ d - s - 1 < d
    BY <1>2
  <2> QED
    BY <2>1, <1>1
<1>3. ASSUME d < s PROVE b * (d + n - s - 1) + b <= b * (n - 1) /\ b * (d + n - s - 1) \in Nat
  <2>1. d + n - s - 1 \in Nat /\ d + n - s - 1 < n - 1 /\ n - 1 \in Nat
    BY <1>3
  <2> QED
    BY <2>1, <1>1
<1>4. b * (n - 1) \in Nat
  BY SliceGrows
<1>5. ASSUME d > s, o + b * d + r <= b * (n - 1)
      PROVE  (o + 1) + b * (d - s - 1) + (b - 1) <= b * (n - 1)
  <2> DEFINE x == b * (d - s - 1)  y == b * d  z == b * (n - 1)
  <2>1. x \in Nat /\ y \in Nat /\ z \in Nat /\ x + b <= y /\ o + y + r <= z
    BY <1>2, <1>4, <1>5
  <2> HIDE DEF x, y, z
  <2>2. (o + 1) + x + (b - 1) <= z
    BY <2>1
  <2> QED
    BY <2>2 DEF x, z
<1>6. ASSUME d > s, d = n - 1, o = 0
      PROVE  (o + 1) + b * (d - s - 1) + (b - 1) <= b * (n - 1)
  <2> DEFINE x == b * (d - s - 1)  z == b * (n - 1)
  <2>1. x \in Nat /\ z \in Nat /\ x + b <= z
    BY <1>2, <1>4, <1>6
  <2> HIDE DEF x, z
  <2>2. (o + 1) + x + (b - 1) <= z
    BY <2>1, <1>6
  <2> QED
    BY <2>2 DEF x, z
<1>7. ASSUME d < s PROVE b * (d + n - s - 1) + (b - 1) <= b * (n - 1)
  <2> DEFINE x == b * (d + n - s - 1)  z == b * (n - 1)
  <2>1. x \in Nat /\ z \in Nat /\ x + b <= z
    BY <1>3, <1>4, <1>7
  <2> HIDE DEF x, z
  <2>2. x + (b - 1) <= z
    BY <2>1
  <2> QED
    BY <2>2 DEF x, z
<1> QED
  BY <1>5, <1>6, <1>7

\* Where the rotation stands: every lane is looked at once, at its own time.
LEMMA TurnsTaken ==
  ASSUME IInv, RotationFair, laneOrder # <<>>
  PROVE  /\ Len(laneOrder) \in Nat \ {0} /\ rrIndex \in 0..(Len(laneOrder) - 1)
         /\ \A i \in 1..Len(laneOrder) :
              /\ laneOrder[i] \in Lanes /\ overtaken[laneOrder[i]] \in Nat
              /\ TurnsBefore(i) \in 0..(Len(laneOrder) - 1)
              /\ LaneAt(TurnsBefore(i)) = laneOrder[i]
         /\ \A s \in 0..(Len(laneOrder) - 1) :
              \E i \in 1..Len(laneOrder) : TurnsBefore(i) = s /\ LaneAt(s) = laneOrder[i]
                 /\ rrIndex + s \in 0..(2 * Len(laneOrder) - 2)
         /\ \A i, j \in 1..Len(laneOrder) :
              i # j => TurnsBefore(i) # TurnsBefore(j) /\ laneOrder[i] # laneOrder[j]
<1> DEFINE n == Len(laneOrder)
<1>1. /\ laneOrder \in Seq(Lanes) /\ n \in Nat \ {0} /\ rrIndex \in 0..(n - 1)
      /\ \A i \in 1..n : laneOrder[i] \in Lanes /\ overtaken[laneOrder[i]] \in Nat
  <2>1. laneOrder \in Seq(Lanes) /\ overtaken \in [Lanes -> Nat] /\ rrIndex \in Nat
    BY DEF IInv, TypeOK
  <2>2. n \in Nat \ {0} /\ \A i \in 1..n : laneOrder[i] \in Lanes
    BY <2>1
  <2>3. rrIndex \in 0..(n - 1)
    BY <2>1, <2>2 DEF RotationFair
  <2> QED
    BY <2>1, <2>2, <2>3
<1> HIDE DEF n
<1>2. ASSUME NEW i \in 1..n
      PROVE  /\ TurnsBefore(i) \in 0..(n - 1)
             /\ rrIndex + TurnsBefore(i) \in 0..(2 * n - 1)
             /\ ((rrIndex + TurnsBefore(i)) % n) + 1 = i
  <2>1. /\ TurnsBefore(i) \in 0..(n - 1)
        /\ rrIndex + TurnsBefore(i) \in 0..(2 * n - 1)
        /\ rrIndex + TurnsBefore(i) = IF i > rrIndex THEN i - 1 ELSE i - 1 + n
    BY <1>1 DEF TurnsBefore, n
  <2>2. PICK x \in 0..(2 * n - 1) : x = rrIndex + TurnsBefore(i)
    BY <2>1
  <2>3. x % n = IF x < n THEN x ELSE x - n
    BY <1>1, WrapsOnce
  <2>4. (IF x < n THEN x ELSE x - n) = i - 1
    BY <1>1, <2>1, <2>2
  <2>5. (x % n) + 1 = i
    BY <2>3, <2>4
  <2> QED
    BY <2>1, <2>2, <2>5
<1>3. ASSUME NEW i \in 1..n PROVE LaneAt(TurnsBefore(i)) = laneOrder[i]
  BY <1>2 DEF LaneAt, n
<1>4. ASSUME NEW s \in 0..(n - 1)
      PROVE  \E i \in 1..n : TurnsBefore(i) = s /\ LaneAt(s) = laneOrder[i]
                /\ rrIndex + s \in 0..(2 * n - 2)
  <2>1. CASE rrIndex + s < n
    <3>1. rrIndex + s + 1 \in 1..n /\ TurnsBefore(rrIndex + s + 1) = s
      BY <1>1, <2>1 DEF TurnsBefore
    <3> QED
      BY <1>1, <1>3, <3>1
  <2>2. CASE ~(rrIndex + s < n)
    <3>1. rrIndex + s + 1 - n \in 1..n /\ TurnsBefore(rrIndex + s + 1 - n) = s
      BY <1>1, <2>2 DEF TurnsBefore, n
    <3> QED
      BY <1>1, <1>3, <3>1
  <2> QED
    BY <2>1, <2>2
<1>5. ASSUME NEW i \in 1..n, NEW j \in 1..n, i # j
      PROVE  TurnsBefore(i) # TurnsBefore(j) /\ laneOrder[i] # laneOrder[j]
  BY <1>1, <1>5 DEF TurnsBefore, n, RotationFair, IsInjective
<1> QED
  BY <1>1, <1>2, <1>3, <1>4, <1>5 DEF n

LEMMA SliceType == LaneBudget \in Nat \ {0} /\ LaneBudget - 1 \in Nat
BY SchedulerAssumption

\* A lane that is idle has waited for nothing, and the lane just served neither.
LEMMA OvertakenAfter ==
  ASSUME IInv, RotationFair, NEW lane \in Lanes, ~IdleLane(lane), TakeFrom(lane)
  PROVE  /\ overtaken'[lane] = 0 /\ laneOrder' = laneOrder
         /\ \A l \in Lanes : overtaken[l] \in Nat /\ (IdleLane(l) => overtaken'[l] = 0)
         /\ \A l \in Lanes \ {lane} : overtaken'[l] \in {0, overtaken[l] + 1}
         /\ \A l \in Lanes : IdleLane(l)' => overtaken'[l] = 0
<1>1. /\ overtaken' = [l \in Lanes |-> IF l = lane \/ IdleLane(l) THEN 0 ELSE overtaken[l] + 1]
      /\ laneOrder' = laneOrder /\ queues' = [queues EXCEPT ![lane] = Tail(@)]
      /\ queues \in [Lanes -> Seq(Tasks)] /\ overtaken \in [Lanes -> Nat]
  BY DEF TakeFrom, Shift, IInv, TypeOK
<1>2. \A l \in Lanes \ {lane} : IdleLane(l)' = IdleLane(l)
  BY <1>1 DEF IdleLane
<1> QED
  BY <1>1, <1>2

\* The turn passes to a lane: those after it have moved up, those before it,
\* all idle, wait for a whole round.
LEMMA NextLaneFair ==
  ASSUME IInv, RotationFair, laneMode' = laneMode, NextLane
  PROVE  RotationFair'
<1> DEFINE n == Len(laneOrder)
<1>1. PICK s \in 0..(n - 1) : FirstBusy(s) /\ TakeFrom(LaneAt(s)) /\ RotateTo(s)
  BY DEF NextLane
<1>2. laneOrder # <<>> /\ laneMode = "fair"
  BY DEF NextLane
<1>3. /\ n \in Nat \ {0} /\ rrIndex \in 0..(n - 1)
      /\ \A i \in 1..n : /\ laneOrder[i] \in Lanes /\ overtaken[laneOrder[i]] \in Nat
                         /\ TurnsBefore(i) \in 0..(n - 1)
                         /\ LaneAt(TurnsBefore(i)) = laneOrder[i]
      /\ \A i, j \in 1..n :
           i # j => TurnsBefore(i) # TurnsBefore(j) /\ laneOrder[i] # laneOrder[j]
  BY <1>2, TurnsTaken
<1>4. PICK p \in 1..n : TurnsBefore(p) = s /\ LaneAt(s) = laneOrder[p]
                        /\ rrIndex + s \in 0..(2 * n - 2)
  BY <1>2, TurnsTaken
<1>5. PICK lane \in Lanes : lane = laneOrder[p] /\ lane = LaneAt(s)
  BY <1>3, <1>4
<1>6. /\ overtaken'[lane] = 0 /\ laneOrder' = laneOrder
      /\ \A l \in Lanes : overtaken[l] \in Nat /\ (IdleLane(l) => overtaken'[l] = 0)
      /\ \A l \in Lanes \ {lane} : overtaken'[l] \in {0, overtaken[l] + 1}
      /\ \A l \in Lanes : IdleLane(l)' => overtaken'[l] = 0
  BY <1>1, <1>5, OvertakenAfter DEF FirstBusy
<1> HIDE DEF n
<1>7. rrIndex' = (IF rrIndex + s + 1 < n THEN rrIndex + s + 1 ELSE rrIndex + s + 1 - n)
      /\ rrIndex' \in 0..(n - 1)
  <2>1. rrIndex' = (rrIndex + s + 1) % n /\ rrIndex + s + 1 \in 0..(2 * n - 1)
    BY <1>1, <1>3, <1>4 DEF RotateTo, n
  <2>2. PICK x \in 0..(2 * n - 1) : x = rrIndex + s + 1
    BY <2>1
  <2>3. x % n = IF x < n THEN x ELSE x - n
    BY <1>3, WrapsOnce
  <2>4. rrIndex' = IF x < n THEN x ELSE x - n
    BY <2>1, <2>2, <2>3
  <2> QED
    BY <1>3, <2>2, <2>4
<1>8. \A i \in 1..n : TurnsBefore(i)' = IF TurnsBefore(i) > s THEN TurnsBefore(i) - s - 1
                                        ELSE TurnsBefore(i) + n - s - 1
  <2> SUFFICES ASSUME NEW i \in 1..n
               PROVE  TurnsBefore(i)' = IF TurnsBefore(i) > s THEN TurnsBefore(i) - s - 1
                                        ELSE TurnsBefore(i) + n - s - 1
    OBVIOUS
  <2>1. /\ TurnsBefore(i) = IF i > rrIndex THEN i - 1 - rrIndex ELSE i - 1 - rrIndex + n
        /\ TurnsBefore(i)' = IF i > rrIndex' THEN i - 1 - rrIndex' ELSE i - 1 - rrIndex' + n
    BY <1>6 DEF TurnsBefore, n
  <2>2. CASE rrIndex + s + 1 < n
    BY <1>3, <1>7, <2>1, <2>2
  <2>3. CASE ~(rrIndex + s + 1 < n)
    BY <1>3, <1>4, <1>7, <2>1, <2>3
  <2> QED
    BY <2>2, <2>3
<1>9. rrRemaining' = LaneBudget - 1 /\ n' = n /\ rrRemaining \in Nat
  BY <1>1, <1>6, SliceType DEF RotateTo, n, IInv, TypeOK
<1>10. ASSUME NEW i \in 1..n PROVE WaitIsBounded(i)'
  <2>1. PICK d \in 0..(n - 1), o \in Nat, o2 \in Nat, b \in Nat \ {0} :
          /\ d = TurnsBefore(i) /\ o = overtaken[laneOrder[i]]
          /\ o2 = overtaken'[laneOrder[i]] /\ b = LaneBudget
    <3>1. overtaken'[laneOrder[i]] \in Nat
      BY <1>3, <1>5, <1>6
    <3> QED
      BY <1>3, <3>1, SliceType
  <2>2. TurnsBefore(i)' = IF d > s THEN d - s - 1 ELSE d + n - s - 1
    BY <1>8, <2>1
  <2>3. IF d = n - 1 THEN o = 0 ELSE o + b * d + rrRemaining <= b * (n - 1)
    BY <2>1 DEF RotationFair, WaitIsBounded, n
  <2>4. WaitIsBounded(i)' = (IF TurnsBefore(i)' = n - 1 THEN o2 = 0
                             ELSE o2 + b * TurnsBefore(i)' + (b - 1) <= b * (n - 1))
    BY <1>6, <1>9, <2>1 DEF WaitIsBounded, n
  <2>5. CASE d = s
    <3>1. i = p
      BY <1>3, <1>4, <2>1, <2>5
    <3>2. TurnsBefore(i)' = n - 1
      BY <1>3, <2>2, <2>5
    <3>3. o2 = 0
      BY <1>5, <1>6, <2>1, <3>1
    <3> QED
      BY <2>4, <3>2, <3>3
  <2>6. CASE d > s
    <3>1. TurnsBefore(i)' = d - s - 1 /\ TurnsBefore(i)' # n - 1
      BY <1>3, <2>2, <2>6
    <3>2. laneOrder[i] # lane
      BY <1>3, <1>4, <1>5, <2>1, <2>6
    <3>3. o2 <= o + 1
      BY <1>3, <1>6, <2>1, <3>2
    <3>4. (o + 1) + b * (d - s - 1) + (b - 1) <= b * (n - 1)
      BY <1>3, <1>9, <2>3, <2>6, TurnArithmetic
    <3>5. b * (d - s - 1) \in Nat /\ b * (n - 1) \in Nat
      BY <1>3, <2>6, SliceGrows
    <3>6. o2 + b * (d - s - 1) + (b - 1) <= b * (n - 1)
      <4> DEFINE x == b * (d - s - 1)  z == b * (n - 1)
      <4>1. x \in Nat /\ z \in Nat /\ (o + 1) + x + (b - 1) <= z
        BY <3>4, <3>5
      <4> HIDE DEF x, z
      <4>2. o2 + x + (b - 1) <= z
        BY <4>1, <3>3
      <4> QED
        BY <4>2 DEF x, z
    <3> QED
      BY <2>4, <3>1, <3>6
  <2>7. CASE d < s
    <3>1. TurnsBefore(i)' = d + n - s - 1 /\ TurnsBefore(i)' # n - 1
      BY <1>3, <2>2, <2>7
    <3>2. IdleLane(LaneAt(d))
      BY <1>1, <2>7 DEF FirstBusy
    <3>3. o2 = 0
      BY <1>3, <1>6, <2>1, <3>2
    <3>4. b * (d + n - s - 1) + (b - 1) <= b * (n - 1)
      BY <1>3, <1>9, <2>7, TurnArithmetic
    <3>5. o2 + b * (d + n - s - 1) + (b - 1) <= b * (n - 1)
      <4>1. b * (d + n - s - 1) \in Nat
        BY <1>3, <2>7, SliceGrows
      <4> QED
        BY <3>3, <3>4, <4>1
    <3> QED
      BY <2>4, <3>1, <3>5
  <2> QED
    BY <2>5, <2>6, <2>7
<1> QED
  BY <1>2, <1>6, <1>7, <1>9, <1>10 DEF RotationFair, n

\* The current lane goes on: what the others have seen grows by one, what is left
\* of the slice shrinks by one.
LEMMA ContinueSliceFair ==
  ASSUME IInv, RotationFair, laneMode' = laneMode, ContinueSlice
  PROVE  RotationFair'
<1> DEFINE n == Len(laneOrder)
<1>1. /\ laneOrder # <<>> /\ laneMode = "fair" /\ rrRemaining > 0 /\ rrRemaining' = rrRemaining - 1
      /\ rrIndex' = rrIndex /\ ~IdleLane(LaneAt(n - 1)) /\ TakeFrom(LaneAt(n - 1))
  BY DEF ContinueSlice, SliceLeft, CurrentLane
<1>2. /\ n \in Nat \ {0} /\ n - 1 \in 0..(n - 1)
      /\ \A i \in 1..n : /\ laneOrder[i] \in Lanes /\ overtaken[laneOrder[i]] \in Nat
                         /\ TurnsBefore(i) \in 0..(n - 1)
      /\ \A i, j \in 1..n :
           i # j => TurnsBefore(i) # TurnsBefore(j) /\ laneOrder[i] # laneOrder[j]
  BY <1>1, TurnsTaken
<1>3. PICK p \in 1..n : TurnsBefore(p) = n - 1 /\ LaneAt(n - 1) = laneOrder[p]
  BY <1>1, <1>2, TurnsTaken
<1>4. PICK lane \in Lanes : lane = laneOrder[p] /\ lane = LaneAt(n - 1)
  BY <1>2, <1>3
<1>5. /\ overtaken'[lane] = 0 /\ laneOrder' = laneOrder
      /\ \A l \in Lanes : overtaken[l] \in Nat /\ (IdleLane(l) => overtaken'[l] = 0)
      /\ \A l \in Lanes \ {lane} : overtaken'[l] \in {0, overtaken[l] + 1}
      /\ \A l \in Lanes : IdleLane(l)' => overtaken'[l] = 0
  BY <1>1, <1>4, OvertakenAfter
<1> HIDE DEF n
<1>6. ASSUME NEW i \in 1..n PROVE WaitIsBounded(i)'
  <2>1. PICK d \in 0..(n - 1), o \in Nat, o2 \in Nat, b \in Nat \ {0} :
          /\ d = TurnsBefore(i) /\ o = overtaken[laneOrder[i]]
          /\ o2 = overtaken'[laneOrder[i]] /\ b = LaneBudget
    <3>1. overtaken'[laneOrder[i]] \in Nat
      BY <1>2, <1>4, <1>5
    <3> QED
      BY <1>2, <3>1, SliceType
  <2>2. TurnsBefore(i)' = d
    BY <1>1, <1>5, <2>1 DEF TurnsBefore
  <2>3. WaitIsBounded(i)' = (IF d = n - 1 THEN o2 = 0
                             ELSE o2 + b * d + rrRemaining' <= b * (n - 1))
    BY <1>5, <2>1, <2>2 DEF WaitIsBounded, n
  <2>4. CASE i = p
    BY <1>3, <1>4, <1>5, <2>1, <2>3, <2>4
  <2>5. CASE i # p
    <3>1. d # n - 1 /\ o2 <= o + 1
      BY <1>2, <1>3, <1>4, <1>5, <2>1, <2>5
    <3>2. o + b * d + rrRemaining <= b * (n - 1)
      BY <2>1, <3>1 DEF RotationFair, WaitIsBounded, n
    <3>3. b * d \in Nat /\ b * (n - 1) \in Nat /\ rrRemaining \in Nat
      BY <1>2, SliceGrows, SliceType DEF IInv, TypeOK
    <3>4. o2 + b * d + rrRemaining' <= b * (n - 1)
      <4> DEFINE x == b * d  z == b * (n - 1)
      <4>1. x \in Nat /\ z \in Nat /\ o + x + rrRemaining <= z
        BY <3>2, <3>3
      <4> HIDE DEF x, z
      <4>2. o2 + x + rrRemaining' <= z
        BY <1>1, <4>1, <3>1, <3>3
      <4> QED
        BY <4>2 DEF x, z
    <3> QED
      BY <2>3, <3>1, <3>4
  <2> QED
    BY <2>4, <2>5
<1> QED
  BY <1>1, <1>5, <1>6 DEF RotationFair, n

\* One queue: nobody waits for another.
LEMMA TakeSingleFair ==
  ASSUME IInv, RotationFair, laneMode' = laneMode, TakeSingle
  PROVE  RotationFair'
<1>1. /\ laneMode = "single" /\ laneOrder = <<Single>> /\ Single \in Lanes
      /\ ~IdleLane(Single) /\ TakeFrom(Single) /\ rrIndex' = rrIndex
  BY DEF TakeSingle, turnVars, RotationFair, Single, Lanes
<1>2. /\ overtaken'[Single] = 0 /\ laneOrder' = laneOrder
      /\ \A l \in Lanes : IdleLane(l)' => overtaken'[l] = 0
  BY <1>1, OvertakenAfter
<1>3. Len(laneOrder) = 1 /\ laneOrder[1] = Single /\ (rrIndex = 0 \/ rrIndex < 1) /\ rrIndex \in Nat
  BY <1>1 DEF RotationFair, IInv, TypeOK
<1>4. ASSUME NEW i \in 1..Len(laneOrder) PROVE WaitIsBounded(i)'
  <2>1. i = 1 /\ TurnsBefore(i)' = 0
    BY <1>1, <1>2, <1>3 DEF TurnsBefore
  <2> QED
    BY <1>2, <1>3, <2>1 DEF WaitIsBounded
<1> QED
  BY <1>1, <1>2, <1>3, <1>4 DEF RotationFair

\* What a lane made behind the others adds: a slice to what each may wait for.
LEMMA NewLaneArithmetic ==
  ASSUME NEW b \in Nat \ {0}, NEW n \in Nat, NEW d \in Nat, NEW o \in Nat, NEW r \in 0..(b - 1)
  PROVE  /\ o + b * d + r <= b * (n - 1)
              => o + b * d + r <= b * n /\ o + b * (d + 1) + r <= b * n
         /\ d < n => b * d + r <= b * n
<1>1. b * (n - 1) = b * n - b /\ b * n \in Nat /\ b * d \in Nat /\ b * (d + 1) = b * d + b
  OBVIOUS
<1>2. ASSUME d < n PROVE b * (d + 1) <= b * n
  BY <1>2, SliceGrows
<1> DEFINE x == b * d  z == b * n
<1>3. x \in Nat /\ z \in Nat /\ b * (n - 1) = z - b /\ b * (d + 1) = x + b
  BY <1>1
<1>4. d < n => x + b <= z
  BY <1>2, <1>3
<1> HIDE DEF x, z
<1>5. o + x + r <= z - b => o + x + r <= z /\ o + (x + b) + r <= z
  BY <1>3
<1>6. d < n => x + r <= z
  BY <1>3, <1>4
<1> QED
  BY <1>3, <1>5, <1>6 DEF x, z

\* A new lane is made behind the lane list, wherever the rotation stands.
LEMMA NewLaneFair ==
  ASSUME IInv, RotationFair, NEW lane \in Lanes, ~Created(lane),
         laneOrder' = Append(laneOrder, lane), UNCHANGED <<turnVars, overtaken>>,
         NEW i \in 1..Len(laneOrder')
  PROVE  WaitIsBounded(i)'
<1> DEFINE n == Len(laneOrder)
<1>1. /\ laneOrder \in Seq(Lanes) /\ n \in Nat /\ Len(laneOrder') = n + 1
      /\ laneOrder'[n + 1] = lane /\ \A j \in 1..n : laneOrder'[j] = laneOrder[j]
      /\ rrIndex \in Nat /\ (rrIndex = 0 \/ rrIndex < n) /\ rrIndex' = rrIndex
      /\ rrRemaining \in 0..(LaneBudget - 1) /\ rrRemaining' = rrRemaining
      /\ overtaken' = overtaken /\ overtaken \in [Lanes -> Nat] /\ LaneBudget \in Nat \ {0}
  BY SliceType DEF IInv, TypeOK, RotationFair, turnVars
<1>2. overtaken[lane] = 0
  BY DEF IInv, QueuedOnce, RotationFair, IdleLane
<1>3. WaitIsBounded(i)' = (IF TurnsBefore(i)' = n THEN overtaken[laneOrder'[i]] = 0
         ELSE overtaken[laneOrder'[i]] + LaneBudget * TurnsBefore(i)' + rrRemaining <= LaneBudget * n)
  BY <1>1 DEF WaitIsBounded
<1> HIDE DEF n
<1>4. CASE i = n + 1
  <2>1. TurnsBefore(i)' = n - rrIndex /\ laneOrder'[i] = lane
    BY <1>1, <1>4 DEF TurnsBefore
  <2>2. CASE rrIndex = 0
    <3>1. TurnsBefore(i)' = n
      BY <1>1, <2>1, <2>2
    <3> QED
      BY <1>1, <1>2, <1>3, <2>1, <3>1
  <2>3. CASE rrIndex # 0
    <3>1. n - rrIndex \in Nat /\ n - rrIndex < n
      BY <1>1, <2>3
    <3>2. LaneBudget * (n - rrIndex) + rrRemaining <= LaneBudget * n
      BY <1>1, <3>1, NewLaneArithmetic
    <3>3. 0 + LaneBudget * (n - rrIndex) + rrRemaining <= LaneBudget * n
      <4>1. LaneBudget * (n - rrIndex) \in Nat
        BY <1>1, <3>1, SliceGrows
      <4> QED
        BY <3>2, <4>1
    <3> QED
      BY <1>2, <1>3, <2>1, <3>1, <3>3
  <2> QED
    BY <2>2, <2>3
<1>5. CASE i # n + 1
  <2>1. i \in 1..n /\ laneOrder'[i] = laneOrder[i] /\ overtaken[laneOrder[i]] \in Nat
    BY <1>1, <1>5
  <2>2. IF TurnsBefore(i) = n - 1 THEN overtaken[laneOrder[i]] = 0
        ELSE overtaken[laneOrder[i]] + LaneBudget * TurnsBefore(i) + rrRemaining <= LaneBudget * (n - 1)
    BY <2>1 DEF RotationFair, WaitIsBounded, n
  <2>3. /\ TurnsBefore(i) \in 0..(n - 1)
        /\ TurnsBefore(i)' = IF i > rrIndex THEN TurnsBefore(i) ELSE TurnsBefore(i) + 1
    <3>1. /\ TurnsBefore(i) = IF i > rrIndex THEN i - 1 - rrIndex ELSE i - 1 - rrIndex + n
          /\ TurnsBefore(i)' = IF i > rrIndex THEN i - 1 - rrIndex ELSE i - 1 - rrIndex + (n + 1)
      BY <1>1 DEF TurnsBefore, n
    <3>2. i \in Nat /\ i >= 1 /\ i <= n
      BY <1>1, <2>1
    <3>3. CASE i > rrIndex
      BY <1>1, <3>1, <3>2, <3>3
    <3>4. CASE ~(i > rrIndex)
      BY <1>1, <3>1, <3>2, <3>4
    <3> QED
      BY <3>3, <3>4
  <2>4. PICK d \in 0..(n - 1), o \in Nat : d = TurnsBefore(i) /\ o = overtaken[laneOrder[i]]
    BY <2>1, <2>3
  <2>5. CASE d = n - 1
    <3>1. o = 0
      BY <2>2, <2>4, <2>5
    <3>2. LaneBudget * d + rrRemaining <= LaneBudget * n /\ LaneBudget * d \in Nat
      BY <1>1, <2>5, NewLaneArithmetic, SliceGrows
    <3>3. o + LaneBudget * d + rrRemaining <= LaneBudget * n
      BY <3>1, <3>2
    <3>4. CASE i > rrIndex
      <4>1. TurnsBefore(i)' = d /\ d # n
        BY <1>1, <2>3, <2>4, <3>4
      <4> QED
        BY <1>3, <2>1, <2>4, <3>3, <4>1
    <3>5. CASE ~(i > rrIndex)
      <4>1. TurnsBefore(i)' = n
        BY <1>1, <2>3, <2>4, <2>5, <3>5
      <4> QED
        BY <1>3, <2>1, <2>4, <3>1, <4>1
    <3> QED
      BY <3>4, <3>5
  <2>6. CASE d # n - 1
    <3>1. o + LaneBudget * d + rrRemaining <= LaneBudget * (n - 1)
      BY <2>2, <2>4, <2>6
    <3>2. /\ o + LaneBudget * d + rrRemaining <= LaneBudget * n
          /\ o + LaneBudget * (d + 1) + rrRemaining <= LaneBudget * n
      <4>1. d \in Nat /\ n \in Nat /\ LaneBudget \in Nat \ {0} /\ rrRemaining \in 0..(LaneBudget - 1)
        BY <1>1
      <4> QED
        BY <3>1, <4>1, NewLaneArithmetic
    <3>3. TurnsBefore(i)' \in {d, d + 1} /\ TurnsBefore(i)' # n
      <4>1. TurnsBefore(i)' = d \/ TurnsBefore(i)' = d + 1
        BY <2>3, <2>4
      <4>2. d # n /\ d + 1 # n
        BY <1>1, <2>6
      <4> QED
        BY <4>1, <4>2
    <3> QED
      BY <1>3, <2>1, <2>4, <3>2, <3>3
  <2> QED
    BY <2>5, <2>6
<1> QED
  BY <1>4, <1>5

LEMMA ScheduleFair ==
  ASSUME IInv, RotationFair, laneMode' = laneMode, NEW key \in Keys, Schedule(key)
  PROVE  RotationFair'
<1>1. PICK lane : lane = LaneFor(key)
  OBVIOUS
<1>2. /\ laneOrder' = IF Created(lane) THEN laneOrder ELSE Append(laneOrder, lane)
      /\ UNCHANGED <<turnVars, overtaken>> /\ Push(lane, enqueued + 1)
  BY <1>1 DEF Schedule, history
<1>3. /\ lane \in Lanes /\ laneOrder \in Seq(Lanes) /\ queues \in [Lanes -> Seq(Tasks)]
      /\ rrIndex' = rrIndex /\ rrRemaining' = rrRemaining /\ overtaken' = overtaken
  BY <1>1, <1>2, LanesGrow DEF IInv, TypeOK, turnVars
<1>4. \A l \in Lanes : IdleLane(l)' => IdleLane(l)
  <2>1. CASE UNCHANGED queues
    BY <2>1 DEF IdleLane
  <2>2. CASE queues' = [queues EXCEPT ![lane] = Append(@, enqueued + 1)]
    <3>1. queues'[lane] # <<>>
      <4>1. queues[lane] \in Seq(Tasks) /\ queues'[lane] = Append(queues[lane], enqueued + 1)
        BY <1>3, <2>2
      <4>2. Len(queues[lane]) \in Nat /\ Len(queues'[lane]) = Len(queues[lane]) + 1
        BY <4>1
      <4> QED
        BY <4>2
    <3> QED
      BY <1>3, <2>2, <3>1 DEF IdleLane
  <2> QED
    BY <1>2, <2>1, <2>2 DEF Push
<1>5. CASE Created(lane)
  <2>1. laneOrder' = laneOrder
    BY <1>2, <1>5
  <2>2. \A i \in 1..Len(laneOrder) : WaitIsBounded(i)' = WaitIsBounded(i)
    BY <1>3, <2>1 DEF WaitIsBounded, TurnsBefore
  <2> QED
    BY <1>3, <1>4, <2>1, <2>2 DEF RotationFair
<1>6. CASE ~Created(lane)
  <2>1. laneOrder' = Append(laneOrder, lane)
    BY <1>2, <1>6
  <2>2. /\ IsInjective(laneOrder') /\ Len(laneOrder') = Len(laneOrder) + 1
    BY <1>3, <1>6, <2>1, AppendNode DEF Created, RotationFair
  <2>3. laneMode # "single"
    BY <1>1, <1>6 DEF LaneFor, IInv, LanesCapped
  <2>4. \A i \in 1..Len(laneOrder') : WaitIsBounded(i)'
    BY <1>2, <1>3, <1>6, <2>1, NewLaneFair
  <2>5. rrIndex' = 0 \/ rrIndex' < Len(laneOrder')
    BY <1>3, <2>2 DEF RotationFair, IInv, TypeOK
  <2> QED
    BY <1>3, <1>4, <2>2, <2>3, <2>4, <2>5 DEF RotationFair
<1> QED
  BY <1>5, <1>6

LEMMA LessLeft ==
  ASSUME NEW o \in Nat, NEW x \in Nat, NEW z \in Nat, NEW e \in Nat, NEW f \in Nat, f <= e,
         o + x + e <= z
  PROVE  o + x + f <= z
OBVIOUS

\* Steps that take no task and make no lane.
LEMMA SameTurnsFair ==
  ASSUME IInv, RotationFair, laneMode' = laneMode,
         UNCHANGED <<queues, laneOrder, rrIndex, overtaken>>,
         rrRemaining' \in Nat, rrRemaining' <= rrRemaining
  PROVE  RotationFair'
<1>1. ASSUME NEW i \in 1..Len(laneOrder) PROVE WaitIsBounded(i)'
  <2>1. /\ Len(laneOrder) \in Nat \ {0} /\ TurnsBefore(i) \in 0..(Len(laneOrder) - 1)
        /\ overtaken[laneOrder[i]] \in Nat /\ LaneBudget \in Nat \ {0} /\ rrRemaining \in Nat
    <3>1. laneOrder # <<>> /\ rrRemaining \in Nat
      BY SliceType DEF IInv, TypeOK
    <3> QED
      BY <3>1, TurnsTaken, SliceType
  <2>2. PICK x \in Nat, z \in Nat, o \in Nat :
          /\ x = LaneBudget * TurnsBefore(i) /\ z = LaneBudget * (Len(laneOrder) - 1)
          /\ o = overtaken[laneOrder[i]]
    <3>1. LaneBudget * TurnsBefore(i) \in Nat /\ LaneBudget * (Len(laneOrder) - 1) \in Nat
      BY <2>1
    <3> QED
      BY <2>1, <3>1
  <2>3. IF TurnsBefore(i) = Len(laneOrder) - 1 THEN o = 0 ELSE o + x + rrRemaining <= z
    BY <2>2 DEF RotationFair, WaitIsBounded
  <2>4. WaitIsBounded(i)' = (IF TurnsBefore(i) = Len(laneOrder) - 1 THEN o = 0
                             ELSE o + x + rrRemaining' <= z)
    BY <2>2 DEF WaitIsBounded, TurnsBefore
  <2>5. o + x + rrRemaining <= z => o + x + rrRemaining' <= z
    <3>1. rrRemaining \in Nat /\ rrRemaining' \in Nat /\ rrRemaining' <= rrRemaining
      BY <2>1
    <3> QED
      BY <3>1, LessLeft
  <2> QED
    BY <2>3, <2>4, <2>5
<1> QED
  BY <1>1 DEF RotationFair, IdleLane

LEMMA InitFairInv == Init => FairInv
<1> SUFFICES ASSUME Init PROVE FairInv
  OBVIOUS
<1>1. \A l \in Lanes : queues[l] = <<>> /\ ToSet(queues[l]) = {} /\ Len(queues[l]) = 0
  BY DEF Init, ToSet
<1>2. Queued = {} /\ accepted = {} /\ executed = {} /\ running = 0 /\ enqueued = 0
  BY <1>1 DEF Init, Queued
<1>3. AcceptedOnce
  BY <1>2 DEF AcceptedOnce
<1>4. LaneOrder
  BY <1>1 DEF LaneOrder
<1>5. TasksNumbered
  BY <1>2 DEF Init, TasksNumbered
<1>6. RotationFair
  <2>1. rrIndex = 0 /\ rrRemaining = 0 /\ overtaken = [l \in Lanes |-> 0] /\ Single \in Lanes
        /\ (laneOrder = <<Single>> \/ laneOrder = <<>>)
        /\ (laneMode = "single" => laneOrder = <<Single>>)
    BY DEF Init, Single, Lanes
  <2>2. IsInjective(laneOrder)
    BY <2>1 DEF IsInjective
  <2>3. \A i \in 1..Len(laneOrder) : WaitIsBounded(i)
    <3> SUFFICES ASSUME NEW i \in 1..Len(laneOrder) PROVE WaitIsBounded(i)
      OBVIOUS
    <3>1. laneOrder = <<Single>> /\ i = 1 /\ Len(laneOrder) = 1 /\ laneOrder[i] = Single
      BY <2>1
    <3>2. TurnsBefore(i) = 0 /\ overtaken[Single] = 0
      BY <2>1, <3>1 DEF TurnsBefore
    <3> QED
      BY <3>1, <3>2 DEF WaitIsBounded
  <2> QED
    BY <2>1, <2>2, <2>3 DEF RotationFair
<1> QED
  BY <1>3, <1>4, <1>5, <1>6 DEF FairInv

\* The tasks of a lane stand in the order of their numbers, all of them later
\* than the last one taken; the new task has the highest number of all.
LEMMA ScheduleTasks ==
  ASSUME IInv, FairInv, laneMode' = laneMode, NEW key \in Keys, Schedule(key)
  PROVE  AcceptedOnce' /\ LaneOrder' /\ TasksNumbered'
<1>l. PICK lane : lane = LaneFor(key)
  OBVIOUS
<1>t. PICK t : t = enqueued + 1
  OBVIOUS
<1>1. /\ enqueued' = t /\ enqueued < MaxTasks /\ Push(lane, t)
      /\ running' = running /\ executed' = executed /\ lastRun' = lastRun
      /\ laneOrder' = IF Created(lane) THEN laneOrder ELSE Append(laneOrder, lane)
  BY <1>l, <1>t DEF Schedule, history
<1>2. /\ queues \in [Lanes -> Seq(Tasks)] /\ enqueued \in Nat /\ running \in Nat
      /\ lastRun \in [Lanes -> 0..MaxTasks] /\ MaxTasks \in Nat /\ QueuedOnce
      /\ AcceptedOnce /\ LaneOrder /\ TasksNumbered
  BY SchedulerAssumption DEF IInv, TypeOK, FairInv
<1>3. lane \in Lanes /\ Created(lane)' /\ \A l \in Lanes : Created(l) => Created(l)'
  BY <1>l, <1>1, LanesGrow
<1>4. TasksNumbered'
  <2>1. 1..enqueued \subseteq 1..enqueued' /\ running <= enqueued'
    BY <1>t, <1>1, <1>2 DEF TasksNumbered
  <2>2. \A l \in Lanes : lastRun[l] <= enqueued'
    <3> SUFFICES ASSUME NEW l \in Lanes PROVE lastRun[l] <= enqueued'
      OBVIOUS
    <3>1. lastRun[l] \in Nat /\ lastRun[l] <= enqueued
      BY <1>2 DEF TasksNumbered
    <3> QED
      BY <3>1, <1>t, <1>1, <1>2
  <2> QED
    BY <1>1, <1>2, <2>1, <2>2 DEF TasksNumbered
<1>5. CASE UNCHANGED <<queues, totalLength, accepted>>
  <2>1. Queued' = Queued
    BY <1>5 DEF Queued
  <2> QED
    BY <1>1, <1>2, <1>4, <1>5, <2>1 DEF AcceptedOnce, LaneOrder
<1>6. CASE /\ queues' = [queues EXCEPT ![lane] = Append(@, t)]
           /\ accepted' = accepted \union {t}
  <2>1. Queued' = Queued \union {t}
    BY <1>t, <1>1, <1>3, <1>6, QueuedGrows
  <2>2. t \notin executed /\ t # running /\ t # 0
    BY <1>t, <1>2 DEF TasksNumbered
  <2>3. AcceptedOnce'
    BY <1>1, <1>2, <1>6, <2>1, <2>2 DEF AcceptedOnce
  <2>4. LaneOrder'
    <3> SUFFICES ASSUME NEW l \in Lanes, NEW i \in 1..Len(queues'[l])
                 PROVE  /\ queues'[l][i] > lastRun[l]
                        /\ \A j \in 1..(i - 1) : queues'[l][j] < queues'[l][i]
      BY <1>1 DEF LaneOrder
    <3>1. CASE l # lane
      BY <1>2, <1>6, <3>1 DEF LaneOrder
    <3>2. CASE l = lane
      <4>1. /\ queues[lane] \in Seq(Tasks) /\ Len(queues[lane]) \in Nat
            /\ queues'[lane] = Append(queues[lane], t)
        BY <1>2, <1>3, <1>6
      <4>2. /\ Len(queues'[lane]) = Len(queues[lane]) + 1
            /\ queues'[lane][Len(queues[lane]) + 1] = t
            /\ \A j \in 1..Len(queues[lane]) :
                 queues'[lane][j] = queues[lane][j] /\ queues[lane][j] \in ToSet(queues[lane])
        BY <4>1 DEF ToSet
      <4>3. \A j \in 1..Len(queues[lane]) : queues[lane][j] \in Nat /\ queues[lane][j] <= enqueued
        <5> SUFFICES ASSUME NEW j \in 1..Len(queues[lane])
                     PROVE  queues[lane][j] \in Nat /\ queues[lane][j] <= enqueued
          OBVIOUS
        <5>1. queues[lane][j] \in Tasks
          BY <4>1
        <5> QED
          BY <1>2, <1>3, <4>2, <5>1 DEF QueuedOnce, Tasks
      <4>4. CASE i = Len(queues[lane]) + 1
        <5>1. lastRun[lane] \in Nat /\ lastRun[lane] <= enqueued
          BY <1>2, <1>3 DEF TasksNumbered
        <5>2. t > lastRun[lane] /\ \A j \in 1..Len(queues[lane]) : queues'[lane][j] < t
          <6>1. t > lastRun[lane]
            BY <1>t, <1>2, <5>1
          <6>2. ASSUME NEW j \in 1..Len(queues[lane]) PROVE queues'[lane][j] < t
            <7>1. /\ queues'[lane][j] = queues[lane][j]
                  /\ queues[lane][j] \in Nat /\ queues[lane][j] <= enqueued
              BY <4>2, <4>3
            <7> QED
              BY <1>t, <1>2, <7>1
          <6> QED
            BY <6>1, <6>2
        <5> QED
          BY <3>2, <4>1, <4>2, <4>4, <5>2
      <4>5. CASE i # Len(queues[lane]) + 1
        <5>1. i \in 1..Len(queues[lane])
          BY <3>2, <4>1, <4>2, <4>5
        <5>2. \A j \in 1..(i - 1) : j \in 1..Len(queues[lane])
          BY <4>1, <5>1
        <5> QED
          BY <1>2, <1>3, <3>2, <4>2, <5>1, <5>2 DEF LaneOrder
      <4> QED
        BY <4>4, <4>5
    <3> QED
      BY <3>1, <3>2
  <2> QED
    BY <1>4, <2>3, <2>4
<1> QED
  BY <1>1, <1>5, <1>6 DEF Push

\* The oldest task of a lane is the next of that lane: what stays is later.
LEMMA TakeTasks ==
  ASSUME IInv, FairInv, InFlush, NEW lane \in Lanes, ~IdleLane(lane), TakeFrom(lane)
  PROVE  AcceptedOnce' /\ LaneOrder' /\ TasksNumbered'
<1>t. PICK t : t = Head(queues[lane])
  OBVIOUS
<1>1. /\ queues' = [queues EXCEPT ![lane] = Tail(@)] /\ queues[lane] # <<>>
      /\ running' = t /\ lastRun' = [lastRun EXCEPT ![lane] = t] /\ running = 0
      /\ UNCHANGED <<enqueued, laneOrder, accepted, executed>>
  BY <1>t DEF TakeFrom, Shift, IdleLane, callVars, InFlush
<1>2. /\ queues \in [Lanes -> Seq(Tasks)] /\ enqueued \in Nat
      /\ lastRun \in [Lanes -> 0..MaxTasks] /\ QueuedOnce
      /\ AcceptedOnce /\ LaneOrder /\ TasksNumbered
  BY DEF IInv, TypeOK, FairInv
<1>3. t \in Queued /\ Queued' = Queued \ {t} /\ t \in Tasks
  BY <1>t, <1>1, QueuedShrinks DEF Queued
<1>4. /\ queues[lane] \in Seq(Tasks) /\ Len(queues[lane]) \in Nat \ {0} /\ t = queues[lane][1]
      /\ queues'[lane] = Tail(queues[lane])
  BY <1>t, <1>1, <1>2
<1>5. t <= enqueued
  BY <1>2, <1>4 DEF QueuedOnce, ToSet
<1>6. AcceptedOnce'
  <2>1. t # 0
    BY <1>3 DEF Tasks
  <2> QED
    BY <1>1, <1>2, <1>3, <2>1 DEF AcceptedOnce
<1>7. TasksNumbered'
  BY <1>1, <1>2, <1>5 DEF TasksNumbered
<1>8. LaneOrder'
  <2> SUFFICES ASSUME NEW l \in Lanes, NEW i \in 1..Len(queues'[l])
               PROVE  /\ queues'[l][i] > lastRun'[l]
                      /\ \A j \in 1..(i - 1) : queues'[l][j] < queues'[l][i]
    BY DEF LaneOrder
  <2>1. CASE l # lane
    BY <1>1, <1>2, <2>1 DEF LaneOrder
  <2>2. CASE l = lane
    <3>1. /\ Len(queues'[lane]) = Len(queues[lane]) - 1 /\ lastRun'[lane] = t
          /\ \A j \in 1..(Len(queues[lane]) - 1) : queues'[lane][j] = queues[lane][j + 1]
      BY <1>1, <1>2, <1>4
    <3>2. i + 1 \in 1..Len(queues[lane]) /\ 1 \in 1..((i + 1) - 1)
          /\ \A j \in 1..(i - 1) : j + 1 \in 1..((i + 1) - 1) /\ j \in 1..(Len(queues[lane]) - 1)
          /\ i \in 1..(Len(queues[lane]) - 1)
      <4>1. PICK n \in Nat \ {0} : n = Len(queues[lane])
        BY <1>4
      <4>2. i \in 1..(n - 1)
        BY <2>2, <3>1, <4>1
      <4>3. i + 1 \in 1..n /\ 1 \in 1..((i + 1) - 1)
        BY <4>1, <4>2
      <4>4. \A j \in 1..(i - 1) : j + 1 \in 1..((i + 1) - 1) /\ j \in 1..(n - 1)
        BY <4>1, <4>2
      <4> QED
        BY <4>1, <4>2, <4>3, <4>4
    <3>3. \A j \in 1..((i + 1) - 1) : queues[lane][j] < queues[lane][i + 1]
      BY <1>2, <3>2 DEF LaneOrder
    <3>4. t < queues[lane][i + 1] /\ t \in Nat /\ queues[lane][i + 1] \in Nat
      <4>1. t < queues[lane][i + 1]
        BY <1>4, <3>2, <3>3
      <4>2. queues[lane][i + 1] \in Tasks
        BY <1>4, <3>2
      <4> QED
        BY <1>3, <4>1, <4>2 DEF Tasks
    <3>5. \A j \in 1..(i - 1) : queues[lane][j + 1] < queues[lane][i + 1]
      BY <3>2, <3>3
    <3> QED
      BY <2>2, <3>1, <3>2, <3>4, <3>5
  <2> QED
    BY <2>1, <2>2
<1> QED
  BY <1>6, <1>7, <1>8

\* Steps that leave the queues, the answers and the history alone.
LEMMA SameTasks ==
  ASSUME FairInv, UNCHANGED <<queues, enqueued, accepted, lastRun, running, executed>>
  PROVE  AcceptedOnce' /\ LaneOrder' /\ TasksNumbered'
<1>1. Queued' = Queued
  BY DEF Queued
<1> QED
  BY <1>1 DEF FairInv, AcceptedOnce, LaneOrder, TasksNumbered

LEMMA TaskEndsFair ==
  ASSUME IInv, FairInv, laneMode' = laneMode, TaskEnds
  PROVE  FairInv'
<1>1. /\ executed' = executed \union {running} /\ running' = 0 /\ running # 0
      /\ UNCHANGED <<queues, laneOrder, enqueued, accepted, lastRun, overtaken, rrIndex, rrRemaining>>
  BY DEF TaskEnds, laneVars, turnVars, callVars, history
<1>2. Queued' = Queued /\ 0 \notin Queued
  BY <1>1 DEF Queued, Tasks
<1>3. AcceptedOnce /\ LaneOrder /\ TasksNumbered /\ RotationFair
      /\ running \in Nat /\ enqueued \in Nat /\ executed \subseteq Tasks /\ rrRemaining \in Nat
  BY SliceType, SchedulerAssumption DEF FairInv, IInv, TypeOK
<1>4. AcceptedOnce'
  <2>1. 0 \notin executed'
    BY <1>1, <1>3 DEF Tasks
  <2> QED
    BY <1>1, <1>2, <1>3, <2>1 DEF AcceptedOnce
<1>5. LaneOrder' /\ TasksNumbered'
  BY <1>1, <1>3 DEF LaneOrder, TasksNumbered
<1>6. RotationFair'
  BY <1>1, <1>3, SameTurnsFair
<1> QED
  BY <1>4, <1>5, <1>6 DEF FairInv

LEMMA NextFairInv == IInv /\ FairInv /\ [Next]_vars => FairInv'
<1> SUFFICES ASSUME IInv, FairInv, [Next]_vars PROVE FairInv'
  OBVIOUS
<1>0. RotationFair /\ rrRemaining \in Nat
  BY SliceType DEF FairInv, IInv, TypeOK
<1>1. ASSUME laneMode' = laneMode, NEW key \in Keys, Schedule(key) PROVE FairInv'
  BY <1>0, <1>1, ScheduleTasks, ScheduleFair DEF FairInv
<1>2. ASSUME laneMode' = laneMode, NEW fromMicro \in BOOLEAN, BeginFlush(fromMicro) PROVE FairInv'
  <2>1. UNCHANGED <<queues, laneOrder, rrIndex, rrRemaining, overtaken, enqueued, accepted,
                    lastRun, running, executed>>
    BY <1>2 DEF BeginFlush, laneVars, turnVars, callVars, history
  <2> QED
    BY <1>0, <1>2, <2>1, SameTasks, SameTurnsFair DEF FairInv
<1>3. CASE laneMode' = laneMode /\ ContinueSlice
  <2>1. PICK lane \in Lanes : lane = CurrentLane
    <3>1. Len(laneOrder) \in Nat \ {0}
      BY <1>3, LaneAtInLanes DEF ContinueSlice
    <3> QED
      BY <1>3, <3>1, LaneAtInLanes DEF ContinueSlice, CurrentLane
  <2>2. InFlush /\ ~IdleLane(lane) /\ TakeFrom(lane)
    BY <1>3, <2>1 DEF ContinueSlice, SliceLeft
  <2> QED
    BY <1>0, <1>3, <2>2, TakeTasks, ContinueSliceFair DEF FairInv
<1>4. CASE laneMode' = laneMode /\ NextLane
  <2>1. PICK s \in 0..(Len(laneOrder) - 1) : FirstBusy(s) /\ TakeFrom(LaneAt(s))
    BY <1>4 DEF NextLane
  <2>2. PICK lane \in Lanes : lane = LaneAt(s)
    BY <1>4, LaneAtInLanes DEF NextLane
  <2>3. InFlush /\ ~IdleLane(lane) /\ TakeFrom(lane)
    BY <1>4, <2>1, <2>2 DEF NextLane, FirstBusy
  <2> QED
    BY <1>0, <1>4, <2>3, TakeTasks, NextLaneFair DEF FairInv
<1>5. CASE laneMode' = laneMode /\ TakeSingle
  <2>1. Single \in Lanes /\ InFlush /\ ~IdleLane(Single) /\ TakeFrom(Single)
    BY <1>5 DEF TakeSingle, Single, Lanes
  <2> QED
    BY <1>0, <1>5, <2>1, TakeTasks, TakeSingleFair DEF FairInv
<1>6. CASE laneMode' = laneMode /\ TaskEnds
  BY <1>6, TaskEndsFair
<1>7. CASE laneMode' = laneMode /\ EndFlush
  <2>1. /\ UNCHANGED <<queues, laneOrder, rrIndex, overtaken, enqueued, accepted,
                       lastRun, running, executed>>
        /\ rrRemaining' \in Nat /\ rrRemaining' <= rrRemaining
    BY <1>0, <1>7 DEF EndFlush, laneVars, callVars, history
  <2> QED
    BY <1>0, <1>7, <2>1, SameTasks, SameTurnsFair DEF FairInv
<1>8. CASE UNCHANGED vars
  <2>1. UNCHANGED <<queues, laneOrder, rrIndex, rrRemaining, overtaken, enqueued, accepted,
                    lastRun, running, executed, laneMode>>
    BY <1>8 DEF vars, laneVars, turnVars, callVars, history
  <2> QED
    BY <1>0, <2>1, SameTasks, SameTurnsFair DEF FairInv
<1> QED
  BY <1>1, <1>2, <1>3, <1>4, <1>5, <1>6, <1>7, <1>8 DEF Next, Flush, Take, Stopped

LEMMA FairInvInductive == Spec => []FairInv
BY IInvInductive, InitFairInv, NextFairInv, PTL DEF Spec

-----------------------------------------------------------------------------
(* Theorems *)

\* The state of scheduler.ts keeps its types: a slice is shorter than LaneBudget,
\* a flush runs at most FlushBudget tasks, and lanes past MaxLanes are one.
THEOREM TypeCorrect == Spec => []TypeOK
<1>1. IInv => TypeOK
  BY DEF IInv
<1> QED
  BY <1>1, IInvInductive, PTL

\* The scheduler's own count is the number of queued tasks, whatever the mix of
\* accepted, dropped, nested and late schedule() calls.
THEOREM LengthIsExactTheorem == Spec => []LengthIsExact
<1>1. IInv => LengthIsExact
  BY DEF IInv
<1> QED
  BY <1>1, IInvInductive, PTL

\* No queued task is forgotten, and the host never holds two flushes.
THEOREM FlushWhenNeededTheorem == Spec => []FlushWhenNeeded
<1>1. IInv => FlushWhenNeeded
  <2> SUFFICES ASSUME IInv, Queued # {} PROVE flushing \/ micro + macro > 0
    BY DEF IInv, FlushWhenNeeded, NoLostFlush
  <2>1. Cardinality(Queued) # 0 /\ totalLength \in Nat
    BY QueuedFinite, FS_EmptySet DEF IInv, TypeOK
  <2> QED
    BY <2>1 DEF IInv, LengthIsExact, FlushFlags, OneFlush
<1> QED
  BY <1>1, IInvInductive, PTL

\* The host gets its turn after at most FlushBudget tasks.
THEOREM YieldsToHostTheorem == Spec => []YieldsToHost
<1>1. IInv => YieldsToHost
  BY DEF IInv, FlushFlags, YieldsToHost
<1> QED
  BY <1>1, IInvInductive, PTL

\* The lanes are fair and lose nothing: an accepted task is queued, running or
\* done and only one of these, tasks of a lane run in the order schedule() took
\* them, and a waiting lane sees at most LaneBudget tasks of each other lane go.
THEOREM LanesFairTheorem == Spec => []LanesFair
<1>1. IInv /\ FairInv => LanesFair
  <2> SUFFICES ASSUME IInv, FairInv, NEW l \in Lanes, Created(l)
               PROVE  overtaken[l] <= LaneBudget * (Len(laneOrder) - 1)
    BY DEF FairInv, LanesFair, BoundedOvertaking
  <2>1. laneOrder # <<>> /\ RotationFair /\ rrRemaining \in Nat /\ LaneBudget \in Nat \ {0}
    BY SliceType DEF Created, ToSet, FairInv, IInv, TypeOK
  <2>2. PICK i \in 1..Len(laneOrder) : laneOrder[i] = l
    BY DEF Created, ToSet, IInv, TypeOK
  <2>3. /\ Len(laneOrder) - 1 \in Nat /\ TurnsBefore(i) \in Nat
        /\ overtaken[laneOrder[i]] \in Nat
    BY <2>1, TurnsTaken
  <2>4. PICK x \in Nat, z \in Nat, o \in Nat :
          /\ x = LaneBudget * TurnsBefore(i) /\ z = LaneBudget * (Len(laneOrder) - 1)
          /\ o = overtaken[laneOrder[i]]
    <3>1. LaneBudget * TurnsBefore(i) \in Nat /\ LaneBudget * (Len(laneOrder) - 1) \in Nat
      BY <2>1, <2>3
    <3> QED
      BY <2>3, <3>1
  <2>5. o = 0 \/ o + x + rrRemaining <= z
    BY <2>1, <2>4 DEF RotationFair, WaitIsBounded
  <2>6. o <= z
    <3>1. ASSUME NEW e \in Nat, o + x + e <= z PROVE o <= z
      BY <3>1
    <3> QED
      BY <2>1, <2>5, <3>1
  <2> QED
    BY <2>2, <2>4, <2>6
<1> QED
  BY <1>1, IInvInductive, FairInvInductive, PTL

-----------------------------------------------------------------------------
(***************************************************************************)
(* The WebAssembly engine.                                                 *)
(***************************************************************************)

\* What is under way for fiber f is what f waits for.
OwnOK(e, f) ==
  LET r == e.fiber[f]
  IN /\ \A c \in e.callbacks : c.fiber = f => r.wants = "async" /\ r.step = c.step
     /\ \A t \in e.timers : t.fiber = f => r.wants = "action" /\ r.deadline = t.token
     /\ \A c \in e.calls : c.fiber = f =>
          /\ c.token <= r.token /\ r.status # "unborn"
          /\ Live(e, f) /\ c.token = r.token => r.wants = "action" /\ c.step = r.step
     /\ \A c, d \in e.calls : c.fiber = f /\ d.fiber = f /\ c.token = d.token => c = d

\* The two states differ in fiber f and in what is under way for it.
Others(set, f) == {x \in set : x.fiber # f}
Elsewhere(e, e2, f) ==
  /\ \A g \in Fibers \ {f} : e2.fiber[g] = e.fiber[g] /\ (InReady(e2, g) <=> InReady(e, g))
  /\ Others(e2.callbacks, f) = Others(e.callbacks, f)
  /\ Others(e2.calls, f) = Others(e.calls, f)
  /\ Others(e2.timers, f) = Others(e.timers, f)

Waits(e, f) == IF e.fiber[f].status = "suspended" THEN 1 ELSE 0

\* The number of suspended fibers changes with the one that changes.
LEMMA SuspendedCount ==
  ASSUME NEW e \in EngineStates, NEW e2 \in EngineStates, NEW f \in Fibers,
         \A g \in Fibers \ {f} : e2.fiber[g] = e.fiber[g]
  PROVE  /\ Cardinality(Suspended(e)) \in Nat /\ Cardinality(Suspended(e2)) \in Nat
         /\ Cardinality(Suspended(e2)) + Waits(e, f) = Cardinality(Suspended(e)) + Waits(e2, f)
<1>1. IsFiniteSet(Suspended(e)) /\ IsFiniteSet(Suspended(e2))
  BY EngineAssumption, FS_Subset DEF Suspended
<1> DEFINE rest == Suspended(e) \ {f}
<1>2. IsFiniteSet(rest) /\ f \notin rest /\ rest = Suspended(e2) \ {f}
  BY <1>1, FS_Subset DEF Suspended
<1>3. /\ Suspended(e) = IF Waits(e, f) = 1 THEN rest \union {f} ELSE rest
      /\ Suspended(e2) = IF Waits(e2, f) = 1 THEN rest \union {f} ELSE rest
  BY DEF Suspended, Waits
<1> HIDE DEF rest
<1>4. Cardinality(rest) \in Nat /\ Cardinality(rest \union {f}) = Cardinality(rest) + 1
  BY <1>2, FS_AddElement, FS_CardinalityType
<1> QED
  BY <1>3, <1>4 DEF Waits

LEMMA Balance ==
  ASSUME NEW a \in Nat, NEW b \in Nat, NEW a2 \in Nat, NEW b2 \in Nat, NEW n \in Nat,
         NEW n2 \in Nat, NEW w \in Nat, NEW w2 \in Nat,
         a2 + b + w = b2 + a + w2, n2 + w = n + w2, a = b + n
  PROVE  a2 = b2 + n2
OBVIOUS

\* A step that disturbs one fiber keeps the invariant when it keeps that fiber's.
LEMMA OneFiber ==
  ASSUME NEW e, NEW e2 \in EngineStates, NEW X, NEW Y, NEW f \in Fibers,
         EngineOK(e, X), Elsewhere(e, e2, f), \A g \in Fibers \ {f} : g \in X <=> g \in Y,
         FiberOK(e2, f, Y), OwnOK(e2, f), IsInjective(e2.ready),
         e2.effects + e.lost + Waits(e, f) = e2.lost + e.effects + Waits(e2, f)
  PROVE  EngineOK(e2, Y)
<1>1. e \in EngineStates
  BY DEF EngineOK
<1>2. /\ \A c \in e.callbacks : c.fiber \in Fibers
      /\ \A c \in e.calls : c.fiber \in Fibers
      /\ \A c \in e.timers : c.fiber \in Fibers
      /\ \A c \in e2.callbacks : c.fiber \in Fibers
      /\ \A c \in e2.calls : c.fiber \in Fibers
      /\ \A c \in e2.timers : c.fiber \in Fibers
  BY <1>1 DEF EngineStates
<1>3. \A g \in Fibers : FiberOK(e2, g, Y)
  <2> SUFFICES ASSUME NEW g \in Fibers \ {f} PROVE FiberOK(e2, g, Y)
    OBVIOUS
  <2>1. /\ FiberOK(e, g, X) /\ e2.fiber[g] = e.fiber[g]
        /\ InReady(e2, g) <=> InReady(e, g)
        /\ g \in X <=> g \in Y
    BY DEF EngineOK, Elsewhere
  <2>2. \A n : [fiber |-> g, step |-> n] \in e.callbacks
               => [fiber |-> g, step |-> n] \in e2.callbacks
    BY DEF Elsewhere, Others
  <2>3. \A c \in e.calls : c.fiber = g => c \in e2.calls
    BY DEF Elsewhere, Others
  <2> QED
    BY <2>1, <2>2, <2>3 DEF FiberOK
<1>4. CallbacksOK(e2)
  <2> SUFFICES ASSUME NEW c \in e2.callbacks, c.fiber # f
               PROVE  e2.fiber[c.fiber].wants = "async" /\ e2.fiber[c.fiber].step = c.step
    BY DEF CallbacksOK, OwnOK
  <2>1. c \in e.callbacks /\ e2.fiber[c.fiber] = e.fiber[c.fiber]
    BY <1>2 DEF Elsewhere, Others
  <2> QED
    BY <2>1 DEF EngineOK, CallbacksOK
<1>5. TimersOK(e2)
  <2> SUFFICES ASSUME NEW t \in e2.timers, t.fiber # f
               PROVE  e2.fiber[t.fiber].wants = "action" /\ e2.fiber[t.fiber].deadline = t.token
    BY DEF TimersOK, OwnOK
  <2>1. t \in e.timers /\ e2.fiber[t.fiber] = e.fiber[t.fiber]
    BY <1>2 DEF Elsewhere, Others
  <2> QED
    BY <2>1 DEF EngineOK, TimersOK
<1>6. CallsOK(e2)
  <2>1. ASSUME NEW c \in e2.calls, c.fiber # f
        PROVE  c \in e.calls /\ e2.fiber[c.fiber] = e.fiber[c.fiber]
    BY <2>1, <1>2 DEF Elsewhere, Others
  <2>2. ASSUME NEW c \in e2.calls
        PROVE  /\ c.token <= e2.fiber[c.fiber].token /\ e2.fiber[c.fiber].status # "unborn"
               /\ Live(e2, c.fiber) /\ c.token = e2.fiber[c.fiber].token
                    => e2.fiber[c.fiber].wants = "action" /\ c.step = e2.fiber[c.fiber].step
    <3>1. CASE c.fiber = f
      BY <3>1 DEF OwnOK
    <3>2. CASE c.fiber # f
      BY <3>2, <2>1 DEF EngineOK, CallsOK, Live
    <3> QED
      BY <3>1, <3>2
  <2>3. ASSUME NEW c \in e2.calls, NEW d \in e2.calls, c.fiber = d.fiber, c.token = d.token
        PROVE  c = d
    <3>1. CASE c.fiber = f
      BY <3>1, <2>3 DEF OwnOK
    <3>2. CASE c.fiber # f
      BY <3>2, <2>1, <2>3 DEF EngineOK, CallsOK
    <3> QED
      BY <3>1, <3>2
  <2> QED
    BY <2>2, <2>3 DEF CallsOK
<1>7. e2.effects = e2.lost + Cardinality(Suspended(e2))
  <2>1. \A g \in Fibers \ {f} : e2.fiber[g] = e.fiber[g]
    BY DEF Elsewhere
  <2>2. /\ Cardinality(Suspended(e)) \in Nat /\ Cardinality(Suspended(e2)) \in Nat
        /\ Cardinality(Suspended(e2)) + Waits(e, f) = Cardinality(Suspended(e)) + Waits(e2, f)
    BY <1>1, <2>1, SuspendedCount
  <2>3. e.effects = e.lost + Cardinality(Suspended(e))
    BY DEF EngineOK
  <2>4. /\ e.effects \in Nat /\ e.lost \in Nat /\ e2.effects \in Nat /\ e2.lost \in Nat
        /\ Waits(e, f) \in Nat /\ Waits(e2, f) \in Nat
    BY <1>1 DEF EngineStates, Waits
  <2> QED
    BY <2>2, <2>3, <2>4, Balance
<1> QED
  BY <1>3, <1>4, <1>5, <1>6, <1>7 DEF EngineOK

-----------------------------------------------------------------------------
Ends == {"done", "failed", "interrupted"}

\* complete*(): the fiber ends, and nothing of what it waited for is left, except
\* a host action that answers into the void.
LEMMA EndedFields ==
  ASSUME NEW e, e \in EngineStates, NEW fs \in SUBSET Fibers, NEW how \in Ends,
         NEW n \in Nat, n = Cardinality(Asyncs(e, fs)),
         NEW m \in Nat, m = Cardinality(Waiting(e, fs)),
         NEW e2, e2 = AllEnded(e, fs, how)
  PROVE  /\ e2 \in EngineStates
         /\ \A g \in Fibers : e2.fiber[g] = IF g \in fs THEN Closed(e.fiber[g], how)
                                            ELSE e.fiber[g]
         /\ e2.callbacks = e.callbacks \ Asyncs(e, fs)
         /\ e2.timers = e.timers \ Deadlines(e, fs)
         /\ e2.calls = e.calls
         /\ e2.ready = e.ready
         /\ e2.scheduled = e.scheduled /\ e2.draining = e.draining
         /\ e2.effects = Less(e.effects, n) /\ e2.lost = e.lost + m
<1> DEFINE fb == [g \in Fibers |-> IF g \in fs THEN Closed(e.fiber[g], how) ELSE e.fiber[g]]
           e3 == [e EXCEPT !.fiber = fb,
                           !.callbacks = @ \ Asyncs(e, fs),
                           !.timers = @ \ Deadlines(e, fs),
                           !.effects = Less(@, n),
                           !.lost = @ + m]
<1>1. e2 = e3
  BY DEF AllEnded
<1>2. \A g \in Fibers : e.fiber[g] \in FiberStates
  BY DEF EngineStates
<1>3. \A r \in FiberStates : Closed(r, how) \in FiberStates
  BY DEF FiberStates, Closed, Ends
<1>4. fb \in [Fibers -> FiberStates]
  BY <1>2, <1>3
<1>5. e.effects \in Nat /\ e.lost \in Nat /\ Less(e.effects, n) \in Nat /\ e.lost + m \in Nat
  BY DEF EngineStates, Less
<1>6. /\ e.callbacks \ Asyncs(e, fs) \in SUBSET [fiber : Fibers, step : Nat]
      /\ e.timers \ Deadlines(e, fs) \in SUBSET [fiber : Fibers, token : Nat]
  BY DEF EngineStates
<1> HIDE DEF fb
<1>7. e3 \in EngineStates
  BY <1>4, <1>5, <1>6 DEF EngineStates
<1>8. /\ e3.fiber = fb /\ e3.callbacks = e.callbacks \ Asyncs(e, fs)
      /\ e3.timers = e.timers \ Deadlines(e, fs) /\ e3.calls = e.calls /\ e3.ready = e.ready
      /\ e3.scheduled = e.scheduled /\ e3.draining = e.draining
      /\ e3.effects = Less(e.effects, n) /\ e3.lost = e.lost + m
  BY DEF EngineStates
<1>9. \A g \in Fibers : fb[g] = IF g \in fs THEN Closed(e.fiber[g], how) ELSE e.fiber[g]
  BY DEF fb
<1> HIDE DEF e3
<1> QED
  BY <1>1, <1>7, <1>8, <1>9

LEMMA EndedOK ==
  ASSUME NEW e, NEW X, EngineOK(e, X), NEW f \in Fibers, Live(e, f), NEW how \in Ends
  PROVE  /\ EngineOK(Ended(e, f, how), X \ {f})
         /\ Ended(e, f, how).ready = e.ready
         /\ Ended(e, f, how).scheduled = e.scheduled
         /\ Ended(e, f, how).draining = e.draining
<1> DEFINE r == e.fiber[f]  fs == {f}
           n == IF r.wants = "async" THEN 1 ELSE 0
           m == IF r.wants = "action" THEN 1 ELSE 0
<1>1. e \in EngineStates /\ r \in FiberStates /\ FiberOK(e, f, X)
  BY DEF EngineOK, EngineStates
<1>2. \A c \in e.callbacks : c = [fiber |-> c.fiber, step |-> c.step]
  BY <1>1 DEF EngineStates
<1>3. \A c \in e.callbacks : c.fiber = f => r.wants = "async" /\ r.step = c.step
  BY DEF EngineOK, CallbacksOK
<1>4. r.wants # "none" => r.status = "suspended"
  BY <1>1 DEF FiberOK
<1>5. Asyncs(e, fs) = IF n = 1 THEN {[fiber |-> f, step |-> r.step]} ELSE {}
  <2>1. CASE r.wants = "async"
    <3>1. [fiber |-> f, step |-> r.step] \in e.callbacks
      BY <1>1, <1>4, <2>1 DEF FiberOK
    <3> QED
      BY <2>1, <3>1, <1>2, <1>3 DEF Asyncs
  <2>2. CASE r.wants # "async"
    BY <2>2, <1>3 DEF Asyncs
  <2> QED
    BY <2>1, <2>2
<1>6. n \in Nat /\ n = Cardinality(Asyncs(e, fs))
  BY <1>5, FS_Singleton, FS_EmptySet
<1>7. m \in Nat /\ m = Cardinality(Waiting(e, fs))
  <2>1. Waiting(e, fs) = IF m = 1 THEN {f} ELSE {}
    BY DEF Waiting
  <2> QED
    BY <2>1, FS_Singleton, FS_EmptySet
<1>8. PICK e2 : e2 = Ended(e, f, how)
  OBVIOUS
<1>9. /\ e2 \in EngineStates
      /\ \A g \in Fibers : e2.fiber[g] = IF g \in fs THEN Closed(e.fiber[g], how)
                                         ELSE e.fiber[g]
      /\ e2.callbacks = e.callbacks \ Asyncs(e, fs)
      /\ e2.timers = e.timers \ Deadlines(e, fs)
      /\ e2.calls = e.calls
      /\ e2.ready = e.ready
      /\ e2.scheduled = e.scheduled /\ e2.draining = e.draining
      /\ e2.effects = Less(e.effects, n) /\ e2.lost = e.lost + m
  <2> HIDE DEF n, m
  <2>0. e \in EngineStates
    BY <1>1
  <2>1. fs \in SUBSET Fibers
    OBVIOUS
  <2>2. e2 = AllEnded(e, fs, how)
    BY <1>8 DEF Ended
  <2> QED
    <3> HIDE DEF fs, r
    <3> QED
      BY <2>0, <1>6, <1>7, <2>1, <2>2, EndedFields
<1>10. e2.fiber[f] = Closed(r, how)
  BY <1>9
<1>11. /\ e2.fiber[f].status = how /\ e2.fiber[f].wants = "none" /\ e2.fiber[f].resume = 0
       /\ e2.fiber[f].token = r.token
  BY <1>1, <1>10 DEF Closed, FiberStates
<1>12. Elsewhere(e, e2, f)
  BY <1>9 DEF Elsewhere, Others, Asyncs, Deadlines, InReady
<1>13. FiberOK(e2, f, X \ {f})
  BY <1>11 DEF FiberOK, Ends
<1>14. OwnOK(e2, f)
  <2>1. /\ \A c \in e2.callbacks : c.fiber # f
        /\ \A t \in e2.timers : t.fiber # f
    <3>1. \A t \in e.timers : t.fiber = f => t.token = r.deadline
      BY DEF EngineOK, TimersOK
    <3> QED
      BY <1>9, <3>1 DEF Asyncs, Deadlines
  <2>2. \A c \in e2.calls : c.fiber = f => c.token <= r.token
    BY <1>9 DEF EngineOK, CallsOK
  <2>3. \A c, d \in e2.calls : c.fiber = f /\ d.fiber = f /\ c.token = d.token => c = d
    BY <1>9 DEF EngineOK, CallsOK
  <2> QED
    BY <1>11, <2>1, <2>2, <2>3 DEF OwnOK, Live, Ends
<1>15. e2.effects + e.lost + Waits(e, f) = e2.lost + e.effects + Waits(e2, f)
  <2>1. Waits(e2, f) = 0
    BY <1>11 DEF Waits, Ends
  <2>2. Waits(e, f) = n + m
    BY <1>1, <1>4 DEF Waits, FiberOK, FiberStates
  <2>3. n + m <= e.effects
    <3>1. /\ Cardinality(Suspended(e)) \in Nat
          /\ r.status = "suspended" => Cardinality(Suspended(e)) # 0
      <4>1. IsFiniteSet(Suspended(e)) /\ (r.status = "suspended" => f \in Suspended(e))
        BY EngineAssumption, FS_Subset DEF Suspended
      <4> QED
        BY <4>1, FS_EmptySet, FS_CardinalityType
    <3>2. e.effects = e.lost + Cardinality(Suspended(e)) /\ e.lost \in Nat /\ e.effects \in Nat
      BY <1>1 DEF EngineOK, EngineStates
    <3> QED
      BY <3>1, <3>2, <1>4
  <2>4. e.effects \in Nat /\ e.lost \in Nat /\ n \in {0, 1} /\ m \in {0, 1}
    BY <1>1 DEF EngineStates
  <2>5. e2.effects = e.effects - n /\ e2.lost = e.lost + m
    BY <1>9, <2>3, <2>4 DEF Less
  <2> HIDE DEF n, m
  <2> QED
    BY <2>1, <2>2, <2>4, <2>5
<1>16. IsInjective(e2.ready) /\ (\A g \in Fibers \ {f} : g \in X <=> g \in X \ {f})
  BY <1>9 DEF EngineOK
<1>17. EngineOK(e2, X \ {f})
  BY <1>9, <1>12, <1>13, <1>14, <1>15, <1>16, OneFiber
<1> QED
  BY <1>8, <1>9, <1>17

-----------------------------------------------------------------------------
\* requestReadyDrain(): a scheduler that drops the drain ends everyone who waits
\* in the queue, and nobody else.
LEMMA DrainRefused ==
  ASSUME NEW e, EngineOK(e, {}), ~(e.scheduled \/ e.draining)
  PROVE  EngineOK(RequestDrain(e, FALSE), {}) /\ DrainComes(RequestDrain(e, FALSE))
<1> DEFINE e1 == [e EXCEPT !.ready = <<>>]
           fs == {f \in Fibers : InReady(e, f) /\ Live(e, f)}
<1>1. e \in EngineStates /\ fs \in SUBSET Fibers
  BY DEF EngineOK
<1>2. e1 \in EngineStates
  <2>1. <<>> \in Seq(Fibers) /\ e \in EngineStates
    BY <1>1
  <2> QED
    BY <2>1 DEF EngineStates
<1>3. /\ e1.fiber = e.fiber /\ e1.callbacks = e.callbacks /\ e1.calls = e.calls
      /\ e1.timers = e.timers /\ e1.effects = e.effects /\ e1.lost = e.lost
      /\ e1.ready = <<>> /\ e1.scheduled = e.scheduled /\ e1.draining = e.draining
  BY <1>1 DEF EngineStates
<1>4. \A f \in fs : e.fiber[f].status = "running" /\ e.fiber[f].wants = "none"
  BY DEF EngineOK, FiberOK, Live
<1>5. /\ \A c \in e.callbacks : c.fiber \notin fs
      /\ \A t \in e.timers : t.fiber \notin fs
  BY <1>4 DEF EngineOK, CallbacksOK, TimersOK
<1> HIDE DEF e1
<1>6. Asyncs(e1, fs) = {} /\ Deadlines(e1, fs) = {} /\ Waiting(e1, fs) = {}
  BY <1>3, <1>4, <1>5 DEF Asyncs, Deadlines, Waiting
<1>7. PICK e2 : e2 = AllEnded(e1, fs, "failed")
  OBVIOUS
<1>8. /\ e2 \in EngineStates
      /\ \A g \in Fibers : e2.fiber[g] = IF g \in fs THEN Closed(e.fiber[g], "failed")
                                         ELSE e.fiber[g]
      /\ e2.callbacks = e.callbacks /\ e2.timers = e.timers /\ e2.calls = e.calls
      /\ e2.ready = <<>>
      /\ e2.effects = e.effects /\ e2.lost = e.lost
  <2> HIDE DEF fs
  <2>1. 0 \in Nat /\ 0 = Cardinality(Asyncs(e1, fs)) /\ 0 = Cardinality(Waiting(e1, fs))
        /\ "failed" \in Ends
    BY <1>6, FS_EmptySet DEF Ends
  <2>2. /\ e2 \in EngineStates
        /\ \A g \in Fibers : e2.fiber[g] = IF g \in fs THEN Closed(e1.fiber[g], "failed")
                                           ELSE e1.fiber[g]
        /\ e2.callbacks = e1.callbacks \ Asyncs(e1, fs)
        /\ e2.timers = e1.timers \ Deadlines(e1, fs)
        /\ e2.calls = e1.calls
        /\ e2.ready = e1.ready
        /\ e2.effects = Less(e1.effects, 0) /\ e2.lost = e1.lost + 0
    BY <1>1, <1>2, <1>7, <2>1, EndedFields
  <2>3. e.effects \in Nat /\ e.lost \in Nat /\ Less(e.effects, 0) = e.effects
    BY <1>1 DEF EngineStates, Less
  <2>4. e.lost + 0 = e.lost
    BY <2>3
  <2> QED
    BY <2>2, <2>3, <2>4, <1>3, <1>6
<1>9. \A f \in fs : e2.fiber[f] = Closed(e.fiber[f], "failed")
  BY <1>1, <1>8
<1>10. \A f \in fs : /\ e2.fiber[f].status = "failed" /\ e2.fiber[f].wants = "none"
                     /\ e2.fiber[f].resume = 0 /\ e2.fiber[f].token = e.fiber[f].token
  <2>1. \A r \in FiberStates : /\ Closed(r, "failed").status = "failed"
                               /\ Closed(r, "failed").wants = "none"
                               /\ Closed(r, "failed").resume = 0
                               /\ Closed(r, "failed").token = r.token
    BY DEF FiberStates, Closed
  <2>2. \A f \in fs : e.fiber[f] \in FiberStates
    BY <1>1 DEF EngineStates
  <2> QED
    BY <1>9, <2>1, <2>2
<1>11. \A f \in Fibers \ fs : e2.fiber[f] = e.fiber[f]
  BY <1>8
<1>12. \A f \in Fibers : ~InReady(e2, f)
  BY <1>8 DEF InReady, ToSet
<1>13. \A f \in Fibers : FiberOK(e2, f, {})
  <2> SUFFICES ASSUME NEW f \in Fibers PROVE FiberOK(e2, f, {})
    OBVIOUS
  <2>1. CASE f \in fs
    BY <2>1, <1>10, <1>12 DEF FiberOK
  <2>2. CASE f \notin fs
    <3>1. FiberOK(e, f, {})
      BY DEF EngineOK
    <3>2. e.fiber[f].status # "running"
      BY <2>2, <3>1 DEF FiberOK, Live
    <3> QED
      BY <2>2, <3>1, <3>2, <1>8, <1>11, <1>12 DEF FiberOK
  <2> QED
    BY <2>1, <2>2
<1>14. CallbacksOK(e2) /\ TimersOK(e2)
  <2>1. /\ \A c \in e.callbacks : c.fiber \in Fibers \ fs
        /\ \A t \in e.timers : t.fiber \in Fibers \ fs
    BY <1>1, <1>5 DEF EngineStates
  <2> QED
    BY <1>8, <1>11, <2>1 DEF EngineOK, CallbacksOK, TimersOK
<1>15. CallsOK(e2)
  <2>1. ASSUME NEW c \in e2.calls
        PROVE  /\ c.token <= e2.fiber[c.fiber].token /\ e2.fiber[c.fiber].status # "unborn"
               /\ Live(e2, c.fiber) /\ c.token = e2.fiber[c.fiber].token
                    => e2.fiber[c.fiber].wants = "action" /\ c.step = e2.fiber[c.fiber].step
    <3>1. c \in e.calls /\ c.fiber \in Fibers
      BY <1>1, <1>8 DEF EngineStates
    <3>2. CASE c.fiber \in fs
      BY <3>1, <3>2, <1>10 DEF EngineOK, CallsOK, Live
    <3>3. CASE c.fiber \notin fs
      BY <3>1, <3>3, <1>11 DEF EngineOK, CallsOK, Live
    <3> QED
      BY <3>2, <3>3
  <2> QED
    BY <2>1, <1>8 DEF EngineOK, CallsOK
<1>16. Suspended(e2) = Suspended(e)
  BY <1>4, <1>10, <1>11 DEF Suspended
<1>17. IsInjective(e2.ready)
  BY <1>8 DEF IsInjective
<1>18. EngineOK(e2, {})
  BY <1>8, <1>13, <1>14, <1>15, <1>16, <1>17 DEF EngineOK
<1>19. RequestDrain(e, FALSE) = e2
  BY <1>7 DEF RequestDrain, e1
<1> QED
  BY <1>8, <1>18, <1>19 DEF DrainComes

\* A change of the flags alone disturbs nobody.
LEMMA OnlyFlags ==
  ASSUME NEW e, NEW X, EngineOK(e, X), NEW e2 \in EngineStates,
         e2.fiber = e.fiber, e2.ready = e.ready, e2.callbacks = e.callbacks,
         e2.calls = e.calls, e2.timers = e.timers, e2.effects = e.effects, e2.lost = e.lost
  PROVE  EngineOK(e2, X)
<1>1. Suspended(e2) = Suspended(e) /\ (\A f : InReady(e2, f) <=> InReady(e, f))
      /\ \A f : Live(e2, f) <=> Live(e, f)
  BY DEF Suspended, InReady, Live
<1>2. \A f \in Fibers : FiberOK(e2, f, X)
  BY <1>1 DEF EngineOK, FiberOK
<1>3. CallbacksOK(e2) /\ TimersOK(e2) /\ CallsOK(e2)
  BY <1>1 DEF EngineOK, CallbacksOK, TimersOK, CallsOK
<1> QED
  BY <1>1, <1>2, <1>3 DEF EngineOK

LEMMA RequestDrainOK ==
  ASSUME NEW e, EngineOK(e, {}), NEW taken \in BOOLEAN
  PROVE  EngineOK(RequestDrain(e, taken), {}) /\ DrainComes(RequestDrain(e, taken))
<1>1. CASE e.scheduled \/ e.draining
  BY <1>1 DEF RequestDrain, DrainComes
<1>2. CASE ~(e.scheduled \/ e.draining) /\ taken
  <2> DEFINE e2 == [e EXCEPT !.scheduled = TRUE]
  <2>1. e2 = RequestDrain(e, taken)
    BY <1>2 DEF RequestDrain
  <2>2. e \in EngineStates
    BY DEF EngineOK
  <2>3. /\ e2 \in EngineStates
        /\ e2.fiber = e.fiber /\ e2.ready = e.ready /\ e2.callbacks = e.callbacks
        /\ e2.calls = e.calls /\ e2.timers = e.timers
        /\ e2.effects = e.effects /\ e2.lost = e.lost
        /\ e2.scheduled = TRUE
    BY <2>2 DEF EngineStates
  <2> HIDE DEF e2
  <2>4. EngineOK(e2, {})
    BY <2>3, OnlyFlags
  <2> QED
    BY <2>1, <2>3, <2>4 DEF DrainComes
<1>3. CASE ~(e.scheduled \/ e.draining) /\ ~taken
  BY <1>3, DrainRefused
<1> QED
  BY <1>1, <1>2, <1>3

\* enqueueFiber(): the fiber in hand is in the queue, or dead.
LEMMA EnqueueOK ==
  ASSUME NEW e, NEW f \in Fibers, EngineOK(e, {f}), DrainComes(e), NEW taken \in BOOLEAN
  PROVE  EngineOK(Enqueue(e, f, taken), {}) /\ DrainComes(Enqueue(e, f, taken))
<1>1. e \in EngineStates /\ FiberOK(e, f, {f})
  BY DEF EngineOK
<1>2. e.fiber[f].status = "running" /\ ~InReady(e, f)
  BY <1>1 DEF FiberOK
<1>3. CASE Len(e.ready) >= Capacity
  <2>1. PICK e2 : e2 = Ended(e, f, "failed")
    OBVIOUS
  <2>2. EngineOK(e2, {f} \ {f}) /\ e2.ready = e.ready /\ e2.scheduled = e.scheduled
        /\ e2.draining = e.draining
    BY <1>2, <2>1, EndedOK DEF Live, Ends
  <2>3. {f} \ {f} = {}
    OBVIOUS
  <2> QED
    BY <1>3, <2>1, <2>2, <2>3 DEF Enqueue, DrainComes
<1>4. CASE ~(Len(e.ready) >= Capacity)
  <2> DEFINE e2 == [e EXCEPT !.ready = Append(@, f)]
  <2>1. /\ e.ready \in Seq(Fibers) /\ Append(e.ready, f) \in Seq(Fibers)
        /\ ToSet(Append(e.ready, f)) = ToSet(e.ready) \union {f}
        /\ IsInjective(Append(e.ready, f))
    <3>1. e.ready \in Seq(Fibers) /\ IsInjective(e.ready)
      BY <1>1 DEF EngineStates, EngineOK
    <3> QED
      BY <3>1, <1>2, AppendNode DEF InReady
  <2>2. /\ e2 \in EngineStates /\ e2.ready = Append(e.ready, f)
        /\ e2.fiber = e.fiber /\ e2.callbacks = e.callbacks
        /\ e2.calls = e.calls /\ e2.timers = e.timers
        /\ e2.effects = e.effects /\ e2.lost = e.lost
    BY <1>1, <2>1 DEF EngineStates
  <2> HIDE DEF e2
  <2>3. \A g : InReady(e2, g) <=> (InReady(e, g) \/ g = f)
    BY <2>1, <2>2 DEF InReady
  <2>4. Elsewhere(e, e2, f)
    BY <2>2, <2>3 DEF Elsewhere
  <2>5. FiberOK(e2, f, {})
    BY <1>1, <1>2, <2>2, <2>3 DEF FiberOK
  <2>6. OwnOK(e2, f)
    BY <2>2 DEF OwnOK, EngineOK, CallbacksOK, TimersOK, CallsOK, Live
  <2>7. e2.effects + e.lost + Waits(e, f) = e2.lost + e.effects + Waits(e2, f)
    <3>1. e.effects \in Nat /\ e.lost \in Nat
      BY <1>1 DEF EngineStates
    <3>2. Waits(e, f) = 0 /\ Waits(e2, f) = 0
      BY <1>2, <2>2 DEF Waits
    <3> QED
      BY <2>2, <3>1, <3>2
  <2>8. EngineOK(e2, {})
    <3>1. \A g \in Fibers \ {f} : g \in {f} <=> g \in {}
      OBVIOUS
    <3> QED
      BY <2>1, <2>2, <2>4, <2>5, <2>6, <2>7, <3>1, OneFiber
  <2>9. Enqueue(e, f, taken) = RequestDrain(e2, taken)
    BY <1>4 DEF Enqueue, e2
  <2> QED
    BY <2>8, <2>9, RequestDrainOK
<1> QED
  BY <1>3, <1>4

-----------------------------------------------------------------------------
\* What is left of e when the answer to f's request was taken.
Heard(e, e1, f) ==
  /\ \A g \in Fibers \ {f} : e1.fiber[g] = e.fiber[g]
  /\ e1.fiber[f].step = e.fiber[f].step /\ e1.fiber[f].token >= e.fiber[f].token
  /\ e1.ready = e.ready /\ e1.scheduled = e.scheduled /\ e1.draining = e.draining
  /\ e1.effects = e.effects /\ e1.lost = e.lost
  /\ e1.callbacks = Others(e.callbacks, f) /\ e1.timers = Others(e.timers, f)
  /\ e1.calls \subseteq e.calls /\ Others(e1.calls, f) = Others(e.calls, f)
  /\ \A c \in e1.calls : c.fiber = f => c.token # e1.fiber[f].token

\* resumeWithValue(), resumeWithError(): the suspended fiber goes on with the
\* answer to its own request.
LEMMA ResumeOK ==
  ASSUME NEW e, EngineOK(e, {}), DrainComes(e), NEW f \in Fibers,
         e.fiber[f].status = "suspended", NEW e1 \in EngineStates, Heard(e, e1, f),
         NEW n, n = e.fiber[f].step, NEW taken \in BOOLEAN
  PROVE  EngineOK(Resume(e1, f, n, taken), {}) /\ DrainComes(Resume(e1, f, n, taken))
<1> DEFINE r == [e1.fiber[f] EXCEPT !.status = "running", !.wants = "none", !.resume = n]
           e2 == [e1 EXCEPT !.fiber[f] = r, !.effects = Less(@, 1)]
<1>1. /\ e \in EngineStates /\ FiberOK(e, f, {})
      /\ e.fiber[f] \in FiberStates /\ e1.fiber[f] \in FiberStates
      /\ e1.fiber \in [Fibers -> FiberStates] /\ n \in Nat
  BY DEF EngineOK, EngineStates, FiberStates
<1>2. /\ r \in FiberStates /\ r.status = "running" /\ r.wants = "none" /\ r.resume = n
      /\ r.step = n /\ r.token = e1.fiber[f].token
  BY <1>1 DEF FiberStates, Heard
<1>3. Resume(e1, f, n, taken) = Enqueue(e2, f, taken)
  BY DEF Resume
<1>4. e1.effects \in Nat /\ Less(e1.effects, 1) \in Nat
  BY DEF EngineStates, Less
<1> HIDE DEF r
<1>5. /\ e2 \in EngineStates /\ e2.fiber = [e1.fiber EXCEPT ![f] = r]
      /\ e2.effects = Less(e1.effects, 1) /\ e2.lost = e1.lost /\ e2.ready = e1.ready
      /\ e2.callbacks = e1.callbacks /\ e2.timers = e1.timers /\ e2.calls = e1.calls
      /\ e2.scheduled = e1.scheduled /\ e2.draining = e1.draining
  BY <1>1, <1>2, <1>4 DEF EngineStates
<1> HIDE DEF e2
<1>6. e2.fiber[f] = r /\ \A g \in Fibers \ {f} : e2.fiber[g] = e.fiber[g]
  BY <1>1, <1>5 DEF Heard
<1>7. Elsewhere(e, e2, f)
  BY <1>5, <1>6 DEF Elsewhere, Heard, InReady, Others
<1>8. FiberOK(e2, f, {f})
  <2>1. ~InReady(e2, f)
    BY <1>1, <1>5 DEF Heard, InReady, FiberOK
  <2> QED
    BY <2>1, <1>2, <1>6 DEF FiberOK
<1>9. OwnOK(e2, f)
  <2>1. /\ \A c \in e2.callbacks : c.fiber # f
        /\ \A t \in e2.timers : t.fiber # f
    BY <1>5 DEF Heard, Others
  <2>2. \A c \in e2.calls : c.fiber = f => c.token # r.token
    BY <1>2, <1>5 DEF Heard
  <2>3. \A c \in e2.calls : c.fiber = f => c.token <= r.token
    <3>1. \A c \in e2.calls : c \in e.calls /\ c.token \in Nat
      BY <1>1, <1>5 DEF Heard, EngineStates
    <3>2. \A c \in e2.calls : c.fiber = f => c.token <= e.fiber[f].token
      BY <3>1 DEF EngineOK, CallsOK
    <3>3. e.fiber[f].token \in Nat /\ r.token \in Nat /\ r.token >= e.fiber[f].token
      BY <1>1, <1>2 DEF FiberStates, Heard
    <3> QED
      BY <3>1, <3>2, <3>3
  <2>4. \A c, d \in e2.calls : c.fiber = f /\ d.fiber = f /\ c.token = d.token => c = d
    BY <1>5 DEF EngineOK, CallsOK, Heard
  <2> QED
    BY <1>2, <1>6, <2>1, <2>2, <2>3, <2>4 DEF OwnOK
<1>10. e2.effects + e.lost + Waits(e, f) = e2.lost + e.effects + Waits(e2, f)
  <2>1. e.effects \in Nat /\ e.lost \in Nat /\ e.effects # 0
    <3>1. Cardinality(Suspended(e)) \in Nat /\ Cardinality(Suspended(e)) # 0
      <4>1. IsFiniteSet(Suspended(e)) /\ f \in Suspended(e)
        BY EngineAssumption, FS_Subset DEF Suspended
      <4> QED
        BY <4>1, FS_EmptySet, FS_CardinalityType
    <3> QED
      BY <1>1, <3>1 DEF EngineOK, EngineStates
  <2>2. e2.effects = e.effects - 1 /\ e2.lost = e.lost
    BY <1>5, <2>1 DEF Heard, Less
  <2>3. Waits(e, f) = 1 /\ Waits(e2, f) = 0
    BY <1>2, <1>6 DEF Waits
  <2> QED
    BY <2>1, <2>2, <2>3
<1>11. EngineOK(e2, {f})
  <2>1. \A g \in Fibers \ {f} : g \in {} <=> g \in {f}
    OBVIOUS
  <2>2. IsInjective(e2.ready)
    BY <1>5 DEF EngineOK, Heard
  <2> QED
    BY <1>5, <1>7, <1>8, <1>9, <1>10, <2>1, <2>2, OneFiber
<1>12. DrainComes(e2)
  BY <1>5 DEF DrainComes, Heard
<1> QED
  BY <1>3, <1>11, <1>12, EnqueueOK

\* The answer of an async: its callback is the only thing f waits for.
LEMMA AsyncHeard ==
  ASSUME NEW e, EngineOK(e, {}), DrainComes(e), NEW c \in e.callbacks
  PROVE  /\ c.fiber \in Fibers /\ e.fiber[c.fiber].status = "suspended"
         /\ c.step = e.fiber[c.fiber].step
         /\ [e EXCEPT !.callbacks = @ \ {c}] \in EngineStates
         /\ Heard(e, [e EXCEPT !.callbacks = @ \ {c}], c.fiber)
<1> DEFINE f == c.fiber
<1>1. e \in EngineStates
  BY DEF EngineOK
<1>2. f \in Fibers /\ e.fiber[f] \in FiberStates
  BY <1>1 DEF EngineStates
<1>3. e.fiber[f].wants = "async" /\ e.fiber[f].step = c.step
  BY DEF EngineOK, CallbacksOK
<1>4. e.fiber[f].status = "suspended"
  BY <1>2, <1>3 DEF EngineOK, FiberOK
<1>5. PICK e1 : e1 = [e EXCEPT !.callbacks = @ \ {c}]
  OBVIOUS
<1>6. /\ e1 \in EngineStates /\ e1.callbacks = e.callbacks \ {c}
      /\ e1.fiber = e.fiber /\ e1.timers = e.timers /\ e1.calls = e.calls
      /\ e1.ready = e.ready /\ e1.scheduled = e.scheduled /\ e1.draining = e.draining
      /\ e1.effects = e.effects /\ e1.lost = e.lost
  BY <1>1, <1>5 DEF EngineStates
<1>7. e1.callbacks = Others(e.callbacks, f)
  <2>1. \A d \in e.callbacks : d = [fiber |-> d.fiber, step |-> d.step]
    BY <1>1 DEF EngineStates
  <2>2. \A d \in e.callbacks : d.fiber = f => d.step = c.step
    BY <1>3 DEF EngineOK, CallbacksOK
  <2>3. \A d \in e.callbacks : d.fiber = f => d = c
    BY <2>1, <2>2
  <2> QED
    BY <1>6, <2>3 DEF Others
<1>8. e1.timers = Others(e.timers, f)
  BY <1>3, <1>6 DEF Others, EngineOK, TimersOK
<1>9. \A d \in e1.calls : d.fiber = f => d.token # e1.fiber[f].token
  BY <1>3, <1>4, <1>6 DEF EngineOK, CallsOK, Live
<1>10. e1.fiber[f].token >= e.fiber[f].token
  BY <1>2, <1>6 DEF FiberStates
<1>11. Heard(e, e1, f)
  BY <1>6, <1>7, <1>8, <1>9, <1>10 DEF Heard
<1> QED
  BY <1>2, <1>3, <1>4, <1>5, <1>6, <1>11

\* The record after the callback was called, and counted.
Called(e, c) == [e EXCEPT !.callbacks = @ \ {c}]
Counted(e) == [e EXCEPT !.effects = Less(@, 1)]

\* The exit of an async: the fiber ends as if it had been interrupted.
LEMMA AsyncExit ==
  ASSUME NEW e, EngineOK(e, {}), DrainComes(e), NEW c \in e.callbacks, NEW how \in Ends,
         NEW e1, e1 = Called(e, c), NEW e2, e2 = Counted(e1)
  PROVE  Ended(e2, c.fiber, how) = Ended(e, c.fiber, how)
<1> DEFINE f == c.fiber
<1>1. e \in EngineStates /\ f \in Fibers
  BY DEF EngineOK, EngineStates
<1>2. e.fiber[f].wants = "async" /\ e.fiber[f].step = c.step
  BY DEF EngineOK, CallbacksOK
<1>3. Asyncs(e, {f}) = {c}
  <2>1. \A d \in e.callbacks : d = [fiber |-> d.fiber, step |-> d.step]
    BY <1>1 DEF EngineStates
  <2>2. \A d \in e.callbacks : d.fiber = f => d.step = c.step
    BY <1>2 DEF EngineOK, CallbacksOK
  <2>3. \A d \in e.callbacks : d.fiber = f => d = c
    BY <2>1, <2>2
  <2> QED
    BY <2>3 DEF Asyncs
<1>4. /\ e2.callbacks = e.callbacks \ {c} /\ e2.effects = Less(e.effects, 1)
      /\ e2.fiber = e.fiber /\ e2.timers = e.timers /\ e2.lost = e.lost
  BY <1>1 DEF EngineStates, Called, Counted
<1>5. Asyncs(e2, {f}) = {} /\ Deadlines(e2, {f}) = Deadlines(e, {f})
      /\ Waiting(e2, {f}) = Waiting(e, {f})
  BY <1>3, <1>4 DEF Asyncs, Deadlines, Waiting
<1>6. /\ (e.callbacks \ {c}) \ {} = e.callbacks \ {c}
      /\ Less(Less(e.effects, 1), 0) = Less(e.effects, 1)
      /\ Cardinality({}) = 0 /\ Cardinality({c}) = 1
  <2>1. e.effects \in Nat
    BY <1>1 DEF EngineStates
  <2>2. Less(Less(e.effects, 1), 0) = Less(e.effects, 1)
    BY <2>1 DEF Less
  <2>3. (e.callbacks \ {c}) \ {} = e.callbacks \ {c}
    OBVIOUS
  <2> QED
    BY <2>2, <2>3, FS_EmptySet, FS_Singleton
<1> DEFINE fb == [g \in Fibers |-> IF g \in {f} THEN Closed(e.fiber[g], how) ELSE e.fiber[g]]
           ts == e.timers \ Deadlines(e, {f})
           n == e.lost + Cardinality(Waiting(e, {f}))
<1>7. Ended(e, f, how) = [e EXCEPT !.fiber = fb, !.callbacks = e.callbacks \ {c},
                            !.timers = ts, !.effects = Less(e.effects, 1), !.lost = n]
  BY <1>1, <1>3, <1>6 DEF Ended, AllEnded, EngineStates
<1>8. Ended(e2, f, how) = [e2 EXCEPT !.fiber = fb, !.callbacks = e.callbacks \ {c},
                             !.timers = ts, !.effects = Less(e.effects, 1), !.lost = n]
  BY <1>1, <1>4, <1>5, <1>6 DEF Ended, AllEnded, EngineStates
<1> HIDE DEF fb, ts, n
<1>9. [e2 EXCEPT !.fiber = fb, !.callbacks = e.callbacks \ {c},
                 !.timers = ts, !.effects = Less(e.effects, 1), !.lost = n]
      = [e EXCEPT !.fiber = fb, !.callbacks = e.callbacks \ {c},
                  !.timers = ts, !.effects = Less(e.effects, 1), !.lost = n]
  BY <1>1 DEF EngineStates, Called, Counted
<1> QED
  BY <1>7, <1>8, <1>9

LEMMA StepAsyncAnswers ==
  ASSUME EngineInv, NEW c \in engine.callbacks, AsyncAnswers(c)
  PROVE  EngineInv'
<1>1. PICK e : e = engine
  OBVIOUS
<1>2. PICK e2 : e2 = engine'
  OBVIOUS
<1>3. EngineOK(e, {}) /\ DrainComes(e) /\ c \in e.callbacks
  BY <1>1 DEF EngineInv
<1>4. PICK e1 : e1 = [e EXCEPT !.callbacks = @ \ {c}]
  OBVIOUS
<1>5. /\ c.fiber \in Fibers /\ e.fiber[c.fiber].status = "suspended"
      /\ c.step = e.fiber[c.fiber].step /\ e1 \in EngineStates /\ Heard(e, e1, c.fiber)
  BY <1>3, <1>4, AsyncHeard
<1>6. \/ \E taken \in Accepts : e2 = Resume(e1, c.fiber, c.step, taken)
      \/ \E how \in {"interrupted", "failed"} :
           e2 = Ended([e1 EXCEPT !.effects = Less(@, 1)], c.fiber, how)
  BY <1>1, <1>2, <1>4 DEF AsyncAnswers
<1>7. ASSUME NEW taken \in Accepts, e2 = Resume(e1, c.fiber, c.step, taken)
      PROVE  EngineOK(e2, {}) /\ DrainComes(e2)
  <2>1. taken \in BOOLEAN
    BY <1>7, EngineAssumption DEF Accepts
  <2> QED
    BY <1>3, <1>5, <1>7, <2>1, ResumeOK
<1>8. ASSUME NEW how \in {"interrupted", "failed"},
             e2 = Ended([e1 EXCEPT !.effects = Less(@, 1)], c.fiber, how)
      PROVE  EngineOK(e2, {}) /\ DrainComes(e2)
  <2>1. how \in Ends
    BY DEF Ends
  <2>2. e2 = Ended(e, c.fiber, how)
    <3>1. PICK e3 : e3 = Counted(e1)
      OBVIOUS
    <3>2. e1 = Called(e, c)
      BY <1>4 DEF Called
    <3>3. Ended(e3, c.fiber, how) = Ended(e, c.fiber, how)
      BY <1>3, <2>1, <3>1, <3>2, AsyncExit
    <3> QED
      BY <1>8, <3>1, <3>3 DEF Counted
  <2>3. /\ EngineOK(e2, {} \ {c.fiber}) /\ e2.ready = e.ready
        /\ e2.scheduled = e.scheduled /\ e2.draining = e.draining
    BY <1>3, <1>5, <2>1, <2>2, EndedOK DEF Live
  <2>4. {} \ {c.fiber} = {}
    OBVIOUS
  <2> QED
    BY <1>3, <2>3, <2>4 DEF DrainComes
<1>9. EngineOK(e2, {}) /\ DrainComes(e2)
  BY <1>6, <1>7, <1>8
<1> QED
  BY <1>2, <1>9 DEF EngineInv

\* A change of the calls under way that leaves one out disturbs nobody, when it
\* belongs to a fiber that does not wait for it.
LEMMA CallForgotten ==
  ASSUME NEW e, EngineOK(e, {}), NEW c \in e.calls,
         ~Live(e, c.fiber) \/ e.fiber[c.fiber].token # c.token
  PROVE  EngineOK([e EXCEPT !.calls = @ \ {c}], {})
         /\ (DrainComes(e) => DrainComes([e EXCEPT !.calls = @ \ {c}]))
<1> DEFINE f == c.fiber
<1>1. e \in EngineStates /\ f \in Fibers /\ FiberOK(e, f, {})
  BY DEF EngineOK, EngineStates
<1>2. PICK e2 : e2 = [e EXCEPT !.calls = @ \ {c}]
  OBVIOUS
<1>3. /\ e2 \in EngineStates /\ e2.calls = e.calls \ {c}
      /\ e2.fiber = e.fiber /\ e2.timers = e.timers /\ e2.callbacks = e.callbacks
      /\ e2.ready = e.ready /\ e2.scheduled = e.scheduled /\ e2.draining = e.draining
      /\ e2.effects = e.effects /\ e2.lost = e.lost
  BY <1>1, <1>2 DEF EngineStates
<1>4. Elsewhere(e, e2, f)
  BY <1>3 DEF Elsewhere, Others, InReady
<1>5. FiberOK(e2, f, {})
  <2>1. InReady(e2, f) <=> InReady(e, f)
    BY <1>3 DEF InReady
  <2> QED
    BY <1>1, <1>3, <2>1 DEF FiberOK, Live
<1>6. OwnOK(e2, f)
  BY <1>3 DEF OwnOK, EngineOK, CallbacksOK, TimersOK, CallsOK, Live
<1>7. e2.effects + e.lost + Waits(e, f) = e2.lost + e.effects + Waits(e2, f)
  <2>1. e.effects \in Nat /\ e.lost \in Nat /\ Waits(e2, f) = Waits(e, f) /\ Waits(e, f) \in Nat
    BY <1>1, <1>3 DEF EngineStates, Waits
  <2> QED
    BY <1>3, <2>1
<1>8. EngineOK(e2, {})
  <2>1. IsInjective(e2.ready)
    BY <1>3 DEF EngineOK
  <2> QED
    BY <1>1, <1>3, <1>4, <1>5, <1>6, <1>7, <2>1, OneFiber
<1> QED
  BY <1>2, <1>3, <1>8 DEF DrainComes

CallbackSets == SUBSET [fiber : Fibers, step : Nat]
CallSets == SUBSET [fiber : Fibers, token : Nat, step : Nat]
TimerSets == SUBSET [fiber : Fibers, token : Nat]

\* A state with the record of one fiber and what is under way replaced.
Build(e, f, r, cs, ks, ts, n) ==
  [e EXCEPT !.fiber[f] = r, !.callbacks = cs, !.calls = ks, !.timers = ts, !.effects = n]

LEMMA BuildFields ==
  ASSUME NEW e \in EngineStates, NEW f \in Fibers, NEW r \in FiberStates,
         NEW cs \in CallbackSets,
         NEW ks \in CallSets,
         NEW ts \in TimerSets, NEW n \in Nat,
         NEW e1, e1 = Build(e, f, r, cs, ks, ts, n)
  PROVE  /\ e1 \in EngineStates /\ e1.fiber[f] = r
         /\ \A g \in Fibers \ {f} : e1.fiber[g] = e.fiber[g]
         /\ e1.callbacks = cs /\ e1.calls = ks /\ e1.timers = ts /\ e1.effects = n
         /\ e1.ready = e.ready /\ e1.scheduled = e.scheduled /\ e1.draining = e.draining
         /\ e1.lost = e.lost
<1> DEFINE fb == [e.fiber EXCEPT ![f] = r]
<1>1. e1 = [e EXCEPT !.fiber = fb, !.callbacks = cs, !.calls = ks, !.timers = ts, !.effects = n]
  BY DEF Build
<1>2. e.fiber \in [Fibers -> FiberStates]
  BY DEF EngineStates
<1>3. /\ fb \in [Fibers -> FiberStates] /\ fb[f] = r
      /\ \A g \in Fibers \ {f} : fb[g] = e.fiber[g]
  BY <1>2
<1> HIDE DEF fb
<1>4. /\ e1 \in EngineStates /\ e1.fiber = fb
      /\ e1.callbacks = cs /\ e1.calls = ks /\ e1.timers = ts /\ e1.effects = n
      /\ e1.ready = e.ready /\ e1.scheduled = e.scheduled /\ e1.draining = e.draining
      /\ e1.lost = e.lost
  BY <1>1, <1>3 DEF EngineStates, CallbackSets, CallSets, TimerSets
<1> QED
  BY <1>3, <1>4

KeptTimers(e, f) == {t \in e.timers : ~(t.fiber = f /\ t.token = e.fiber[f].deadline)}
CallTaken(e, c, ts) ==
  [e EXCEPT !.calls = @ \ {c}, !.timers = ts, !.fiber[c.fiber].deadline = 0]
DeadlineTaken(e, t) ==
  [e EXCEPT !.timers = @ \ {t}, !.fiber[t.fiber].deadline = 0, !.fiber[t.fiber].token = @ + 1]

\* The answer of a host action that is in time; its deadline is taken from the wheel.
LEMMA CallHeard ==
  ASSUME NEW e, EngineOK(e, {}), NEW c \in e.calls, Live(e, c.fiber),
         e.fiber[c.fiber].token = c.token,
         NEW ts, ts = KeptTimers(e, c.fiber),
         NEW e1, e1 = CallTaken(e, c, ts)
  PROVE  /\ e.fiber[c.fiber].status = "suspended" /\ c.step = e.fiber[c.fiber].step
         /\ e1 \in EngineStates /\ Heard(e, e1, c.fiber)
<1> DEFINE f == c.fiber
           r == [e.fiber[f] EXCEPT !.deadline = 0]
<1>1. e \in EngineStates /\ f \in Fibers /\ FiberOK(e, f, {})
  BY DEF EngineOK, EngineStates
<1>2. e.fiber \in [Fibers -> FiberStates] /\ e.fiber[f] \in FiberStates
  BY <1>1 DEF EngineStates
<1>3. e.fiber[f].wants = "action" /\ c.step = e.fiber[f].step
  BY DEF EngineOK, CallsOK
<1>4. e.fiber[f].status = "suspended"
  BY <1>1, <1>3 DEF FiberOK
<1>5. r \in FiberStates /\ r.step = e.fiber[f].step /\ r.token = e.fiber[f].token
  BY <1>2 DEF FiberStates
<1>6. e1 = Build(e, f, r, e.callbacks, e.calls \ {c}, ts, e.effects)
  BY <1>1 DEF CallTaken, Build, EngineStates
<1> HIDE DEF r
<1>7. /\ e.callbacks \in CallbackSets
      /\ e.calls \ {c} \in CallSets
      /\ ts \in TimerSets /\ e.effects \in Nat
  BY <1>1 DEF EngineStates, CallbackSets, CallSets, TimerSets, KeptTimers
<1>8. /\ e1 \in EngineStates /\ e1.fiber[f] = r
      /\ \A g \in Fibers \ {f} : e1.fiber[g] = e.fiber[g]
      /\ e1.callbacks = e.callbacks /\ e1.calls = e.calls \ {c} /\ e1.timers = ts
      /\ e1.ready = e.ready /\ e1.scheduled = e.scheduled /\ e1.draining = e.draining
      /\ e1.effects = e.effects /\ e1.lost = e.lost
  <2>1. PICK cs, ks, ts1, n : cs = e.callbacks /\ ks = e.calls \ {c} /\ ts1 = ts /\ n = e.effects
    OBVIOUS
  <2>2. cs \in CallbackSets /\ ks \in CallSets /\ ts1 \in TimerSets /\ n \in Nat
    BY <1>7, <2>1
  <2>3. e1 = Build(e, f, r, cs, ks, ts1, n)
    BY <1>6, <2>1
  <2> HIDE DEF f
  <2>4. e \in EngineStates /\ f \in Fibers /\ r \in FiberStates
    BY <1>1, <1>5
  <2>5. /\ e1 \in EngineStates /\ e1.fiber[f] = r
        /\ \A g \in Fibers \ {f} : e1.fiber[g] = e.fiber[g]
        /\ e1.callbacks = cs /\ e1.calls = ks /\ e1.timers = ts1
        /\ e1.ready = e.ready /\ e1.scheduled = e.scheduled /\ e1.draining = e.draining
        /\ e1.effects = n /\ e1.lost = e.lost
    BY <2>2, <2>3, <2>4, BuildFields
  <2> QED
    BY <2>1, <2>5
<1>9. e1.timers = Others(e.timers, f)
  <2>1. \A t \in e.timers : t.fiber = f => t.token = e.fiber[f].deadline
    BY DEF EngineOK, TimersOK
  <2> QED
    BY <1>8, <2>1 DEF Others, KeptTimers
<1>10. e1.callbacks = Others(e.callbacks, f)
  BY <1>3, <1>8 DEF EngineOK, CallbacksOK, Others
<1>11. \A d \in e1.calls : d.fiber = f => d.token # r.token
  <2>1. \A d \in e1.calls : d \in e.calls /\ d # c /\ (d.fiber = f => d.token # c.token)
    BY <1>8 DEF EngineOK, CallsOK
  <2> QED
    BY <1>5, <2>1
<1>12. Others(e1.calls, f) = Others(e.calls, f)
  BY <1>8 DEF Others
<1>13. r.token >= e.fiber[f].token
  BY <1>2, <1>5 DEF FiberStates
<1>14. Heard(e, e1, f)
  BY <1>5, <1>8, <1>9, <1>10, <1>11, <1>12, <1>13 DEF Heard
<1> QED
  BY <1>3, <1>4, <1>8, <1>14

LEMMA StepHostAnswers ==
  ASSUME EngineInv, NEW c \in engine.calls, HostAnswers(c)
  PROVE  EngineInv'
<1>1. PICK e : e = engine
  OBVIOUS
<1>2. PICK e2 : e2 = engine'
  OBVIOUS
<1>3. EngineOK(e, {}) /\ DrainComes(e) /\ c \in e.calls
  BY <1>1 DEF EngineInv
<1>4. c.fiber \in Fibers
  BY <1>3 DEF EngineOK, EngineStates
<1> DEFINE ts == KeptTimers(e, c.fiber)
<1>5. PICK e1 : e1 = CallTaken(e, c, ts)
  OBVIOUS
<1>6. CASE ~Live(e, c.fiber) \/ e.fiber[c.fiber].token # c.token
  <2>1. e2 = [e EXCEPT !.calls = @ \ {c}]
    BY <1>1, <1>2, <1>6 DEF HostAnswers
  <2> QED
    BY <1>2, <1>3, <1>6, <2>1, CallForgotten DEF EngineInv
<1>7. CASE ~(~Live(e, c.fiber) \/ e.fiber[c.fiber].token # c.token)
  <2>1. /\ e.fiber[c.fiber].status = "suspended" /\ c.step = e.fiber[c.fiber].step
        /\ e1 \in EngineStates /\ Heard(e, e1, c.fiber)
    BY <1>3, <1>5, <1>7, CallHeard
  <2>2. PICK taken \in Accepts : e2 = Resume(e1, c.fiber, c.step, taken)
    <3>1. [[e EXCEPT !.calls = @ \ {c}] EXCEPT !.timers = ts, !.fiber[c.fiber].deadline = 0] = e1
      BY <1>3, <1>5 DEF CallTaken, EngineOK, EngineStates
    <3>2. [e EXCEPT !.calls = @ \ {c}].timers = e.timers
      BY <1>3 DEF EngineOK, EngineStates
    <3> QED
      BY <1>1, <1>2, <1>7, <3>1, <3>2 DEF HostAnswers, KeptTimers
  <2>3. taken \in BOOLEAN
    BY EngineAssumption DEF Accepts
  <2>4. EngineOK(e2, {}) /\ DrainComes(e2)
    BY <1>3, <1>4, <2>1, <2>2, <2>3, ResumeOK
  <2> QED
    BY <1>2, <2>4 DEF EngineInv
<1> QED
  BY <1>6, <1>7

\* A deadline passes: the fiber stops waiting, and the token moves on.
LEMMA DeadlineHeard ==
  ASSUME NEW e, EngineOK(e, {}), NEW t \in e.timers,
         NEW e1, e1 = DeadlineTaken(e, t)
  PROVE  /\ t.fiber \in Fibers /\ e.fiber[t.fiber].status = "suspended"
         /\ e.fiber[t.fiber].deadline = t.token
         /\ e1 \in EngineStates /\ Heard(e, e1, t.fiber)
<1> DEFINE f == t.fiber
           r == [e.fiber[f] EXCEPT !.deadline = 0, !.token = @ + 1]
<1>1. e \in EngineStates /\ f \in Fibers /\ FiberOK(e, f, {})
  BY DEF EngineOK, EngineStates
<1>2. e.fiber \in [Fibers -> FiberStates] /\ e.fiber[f] \in FiberStates
  BY <1>1 DEF EngineStates
<1>3. e.fiber[f].wants = "action" /\ e.fiber[f].deadline = t.token
  BY DEF EngineOK, TimersOK
<1>4. e.fiber[f].status = "suspended"
  BY <1>1, <1>3 DEF FiberOK
<1>5. r \in FiberStates /\ r.step = e.fiber[f].step /\ r.token = e.fiber[f].token + 1
  <2>1. e.fiber[f].token + 1 \in Nat
    BY <1>2 DEF FiberStates
  <2> QED
    BY <1>2, <2>1 DEF FiberStates
<1>6. e1 = Build(e, f, r, e.callbacks, e.calls, e.timers \ {t}, e.effects)
  BY <1>1, <1>2 DEF DeadlineTaken, Build, EngineStates, FiberStates
<1> HIDE DEF r
<1>7. /\ e.callbacks \in CallbackSets
      /\ e.calls \in CallSets
      /\ e.timers \ {t} \in TimerSets /\ e.effects \in Nat
  BY <1>1 DEF EngineStates, CallbackSets, CallSets, TimerSets
<1>8. /\ e1 \in EngineStates /\ e1.fiber[f] = r
      /\ \A g \in Fibers \ {f} : e1.fiber[g] = e.fiber[g]
      /\ e1.callbacks = e.callbacks /\ e1.calls = e.calls /\ e1.timers = e.timers \ {t}
      /\ e1.ready = e.ready /\ e1.scheduled = e.scheduled /\ e1.draining = e.draining
      /\ e1.effects = e.effects /\ e1.lost = e.lost
  <2>1. PICK cs, ks, ts1, n : cs = e.callbacks /\ ks = e.calls /\ ts1 = e.timers \ {t} /\ n = e.effects
    OBVIOUS
  <2>2. cs \in CallbackSets /\ ks \in CallSets /\ ts1 \in TimerSets /\ n \in Nat
    BY <1>7, <2>1
  <2>3. e1 = Build(e, f, r, cs, ks, ts1, n)
    BY <1>6, <2>1
  <2> HIDE DEF f
  <2>4. e \in EngineStates /\ f \in Fibers /\ r \in FiberStates
    BY <1>1, <1>5
  <2>5. /\ e1 \in EngineStates /\ e1.fiber[f] = r
        /\ \A g \in Fibers \ {f} : e1.fiber[g] = e.fiber[g]
        /\ e1.callbacks = cs /\ e1.calls = ks /\ e1.timers = ts1
        /\ e1.ready = e.ready /\ e1.scheduled = e.scheduled /\ e1.draining = e.draining
        /\ e1.effects = n /\ e1.lost = e.lost
    BY <2>2, <2>3, <2>4, BuildFields
  <2> QED
    BY <2>1, <2>5
<1>9. e1.timers = Others(e.timers, f)
  <2>1. \A d \in e.timers : d.fiber = f => d.token = t.token
    BY <1>3 DEF EngineOK, TimersOK
  <2>2. \A d \in e.timers : d = [fiber |-> d.fiber, token |-> d.token]
    BY <1>1 DEF EngineStates
  <2>3. \A d \in e.timers : d.fiber = f => d = t
    BY <2>1, <2>2
  <2> QED
    BY <1>8, <2>3 DEF Others
<1>10. e1.callbacks = Others(e.callbacks, f)
  BY <1>3, <1>8 DEF EngineOK, CallbacksOK, Others
<1>11. e.fiber[f].token \in Nat /\ \A c \in e.calls : c.token \in Nat
  BY <1>1, <1>2 DEF EngineStates, FiberStates
<1>12. \A c \in e1.calls : c.fiber = f => c.token # r.token
  <2>1. \A c \in e.calls : c.fiber = f => c.token <= e.fiber[f].token
    BY DEF EngineOK, CallsOK
  <2> QED
    BY <1>5, <1>8, <1>11, <2>1
<1>13. r.token >= e.fiber[f].token
  BY <1>5, <1>11
<1>14. Heard(e, e1, f)
  BY <1>5, <1>8, <1>9, <1>10, <1>12, <1>13 DEF Heard
<1> QED
  BY <1>1, <1>3, <1>4, <1>8, <1>14

LEMMA StepDeadlinePasses ==
  ASSUME EngineInv, NEW t \in engine.timers, DeadlinePasses(t)
  PROVE  EngineInv'
<1>1. PICK e : e = engine
  OBVIOUS
<1>2. PICK e2 : e2 = engine'
  OBVIOUS
<1>3. EngineOK(e, {}) /\ DrainComes(e) /\ t \in e.timers
  BY <1>1 DEF EngineInv
<1>4. PICK e1 : e1 = DeadlineTaken(e, t)
  OBVIOUS
<1>5. /\ t.fiber \in Fibers /\ e.fiber[t.fiber].status = "suspended"
      /\ e.fiber[t.fiber].deadline = t.token
      /\ e1 \in EngineStates /\ Heard(e, e1, t.fiber)
  BY <1>3, <1>4, DeadlineHeard
<1>6. PICK taken \in Accepts :
        e2 = Resume(e1, t.fiber, e.fiber[t.fiber].step, taken)
  <2>1. Live(e, t.fiber)
    BY <1>5 DEF Live
  <2>2. [[e EXCEPT !.timers = @ \ {t}] EXCEPT !.fiber[t.fiber].deadline = 0,
                                              !.fiber[t.fiber].token = @ + 1] = e1
    BY <1>3, <1>4 DEF DeadlineTaken, EngineOK, EngineStates
  <2> QED
    BY <1>1, <1>2, <1>5, <2>1, <2>2 DEF DeadlinePasses
<1>7. taken \in BOOLEAN
  BY EngineAssumption DEF Accepts
<1>8. EngineOK(e2, {}) /\ DrainComes(e2)
  BY <1>3, <1>5, <1>6, <1>7, ResumeOK
<1> QED
  BY <1>2, <1>8 DEF EngineInv

-----------------------------------------------------------------------------
\* The fiber in hand asks for something and waits.
LEMMA SuspendOK ==
  ASSUME NEW e, NEW f \in Fibers, EngineOK(e, {f}), NEW e1 \in EngineStates,
         Elsewhere(e, e1, f), e1.fiber[f].status = "suspended", e1.fiber[f].resume = 0,
         e1.ready = e.ready, e1.effects = e.effects + 1, e1.lost = e.lost, OwnOK(e1, f),
         \/ /\ e1.fiber[f].wants = "async"
            /\ [fiber |-> f, step |-> e1.fiber[f].step] \in e1.callbacks
         \/ /\ e1.fiber[f].wants = "action"
            /\ \E c \in e1.calls : c.fiber = f /\ c.token = e1.fiber[f].token
  PROVE  EngineOK(e1, {})
<1>1. e \in EngineStates /\ FiberOK(e, f, {f})
  BY DEF EngineOK
<1>2. e.fiber[f].status = "running" /\ ~InReady(e, f)
  BY <1>1 DEF FiberOK
<1>3. ~InReady(e1, f)
  BY <1>2 DEF InReady
<1>4. FiberOK(e1, f, {})
  BY <1>3 DEF FiberOK
<1>5. e1.effects + e.lost + Waits(e, f) = e1.lost + e.effects + Waits(e1, f)
  <2>1. e.effects \in Nat /\ e.lost \in Nat /\ Waits(e, f) = 0 /\ Waits(e1, f) = 1
    BY <1>1, <1>2 DEF EngineStates, Waits
  <2> QED
    BY <2>1
<1>6. IsInjective(e1.ready) /\ (\A g \in Fibers \ {f} : g \in {f} <=> g \in {})
  BY DEF EngineOK
<1> QED
  BY <1>4, <1>5, <1>6, OneFiber

\* Nothing is under way for the fiber in hand but host actions that are too late.
LEMMA InHand ==
  ASSUME NEW e, NEW f \in Fibers, EngineOK(e, {f})
  PROVE  /\ e \in EngineStates /\ e.fiber[f] \in FiberStates
         /\ e.fiber[f].status = "running" /\ e.fiber[f].wants = "none" /\ ~InReady(e, f)
         /\ \A c \in e.callbacks : c.fiber # f
         /\ \A t \in e.timers : t.fiber # f
         /\ \A c \in e.calls : c.fiber = f => c.token <= e.fiber[f].token
                                              /\ c.token # e.fiber[f].token
<1>1. e \in EngineStates /\ e.fiber[f] \in FiberStates /\ FiberOK(e, f, {f})
  BY DEF EngineOK, EngineStates
<1>2. e.fiber[f].status = "running" /\ e.fiber[f].wants = "none" /\ ~InReady(e, f)
  BY <1>1 DEF FiberOK
<1>3. (\A c \in e.callbacks : c.fiber # f) /\ (\A t \in e.timers : t.fiber # f)
  BY <1>2 DEF EngineOK, CallbacksOK, TimersOK
<1>4. \A c \in e.calls : c.fiber = f => c.token <= e.fiber[f].token
                                        /\ c.token # e.fiber[f].token
  BY <1>2 DEF EngineOK, CallsOK, Live
<1> QED
  BY <1>1, <1>2, <1>3, <1>4

AskedAsync(e, f) ==
  [Suspend(e, f, "async") EXCEPT
     !.callbacks = @ \cup {[fiber |-> f, step |-> Suspend(e, f, "async").fiber[f].step]}]

LEMMA AskedAsyncOK ==
  ASSUME NEW e, NEW f \in Fibers, EngineOK(e, {f}), NEW e1, e1 = AskedAsync(e, f),
         NEW c, c = [fiber |-> f, step |-> e.fiber[f].step + 1]
  PROVE  /\ EngineOK(e1, {}) /\ c \in e1.callbacks /\ c.step = e1.fiber[f].step
         /\ Suspend(e, f, "async").fiber[f].step = c.step
         /\ Suspend(e, f, "async") = [e1 EXCEPT !.callbacks = @ \ {c}]
         /\ e1.ready = e.ready /\ e1.scheduled = e.scheduled /\ e1.draining = e.draining
<1> DEFINE r == [e.fiber[f] EXCEPT !.status = "suspended", !.wants = "async",
                                   !.resume = 0, !.step = @ + 1]
           cs == e.callbacks \cup {c}
<1>1. /\ e \in EngineStates /\ e.fiber[f] \in FiberStates
      /\ e.fiber[f].status = "running" /\ e.fiber[f].wants = "none" /\ ~InReady(e, f)
      /\ \A d \in e.callbacks : d.fiber # f
      /\ \A t \in e.timers : t.fiber # f
      /\ \A d \in e.calls : d.fiber = f => d.token <= e.fiber[f].token
                                           /\ d.token # e.fiber[f].token
  BY InHand
<1>2. e.fiber[f].step + 1 \in Nat /\ c.fiber = f /\ c.step = e.fiber[f].step + 1
  BY <1>1 DEF FiberStates
<1>3. /\ r \in FiberStates /\ r.status = "suspended" /\ r.wants = "async" /\ r.resume = 0
      /\ r.step = c.step /\ r.token = e.fiber[f].token
  BY <1>1, <1>2 DEF FiberStates
<1>4. Suspend(e, f, "async") = [e EXCEPT !.fiber[f] = r, !.effects = e.effects + 1]
  BY DEF Suspend
<1>5. [e EXCEPT !.fiber[f] = r, !.effects = e.effects + 1].fiber[f] = r
      /\ [e EXCEPT !.fiber[f] = r, !.effects = e.effects + 1].callbacks = e.callbacks
  BY <1>1 DEF EngineStates
<1>6. Suspend(e, f, "async").fiber[f].step = c.step
      /\ Suspend(e, f, "async").callbacks = e.callbacks
  BY <1>3, <1>4, <1>5
<1>7. e1 = Build(e, f, r, cs, e.calls, e.timers, e.effects + 1)
  <2>1. [fiber |-> f, step |-> c.step] = c
    BY <1>2
  <2>2. e1 = [Suspend(e, f, "async") EXCEPT !.callbacks = cs]
    BY <1>6, <2>1 DEF AskedAsync
  <2>3. e1 = [[e EXCEPT !.fiber[f] = r, !.effects = e.effects + 1] EXCEPT !.callbacks = cs]
    BY <1>4, <2>2
  <2> HIDE DEF r, cs
  <2> QED
    BY <1>1, <2>3 DEF Build, EngineStates
<1>8. /\ cs \in CallbackSets /\ e.calls \in CallSets /\ e.timers \in TimerSets
      /\ e.effects + 1 \in Nat
  BY <1>1, <1>2 DEF EngineStates, CallbackSets, CallSets, TimerSets
<1>9. /\ e1 \in EngineStates /\ e1.fiber[f] = r
      /\ \A g \in Fibers \ {f} : e1.fiber[g] = e.fiber[g]
      /\ e1.callbacks = cs /\ e1.calls = e.calls /\ e1.timers = e.timers
      /\ e1.ready = e.ready /\ e1.scheduled = e.scheduled /\ e1.draining = e.draining
      /\ e1.effects = e.effects + 1 /\ e1.lost = e.lost
  <2> HIDE DEF r, cs
  <2>1. PICK ks, ts, n : ks = e.calls /\ ts = e.timers /\ n = e.effects + 1
    OBVIOUS
  <2>2. ks \in CallSets /\ ts \in TimerSets /\ n \in Nat /\ e1 = Build(e, f, r, cs, ks, ts, n)
    BY <1>7, <1>8, <2>1
  <2>3. e \in EngineStates /\ r \in FiberStates /\ cs \in CallbackSets
    BY <1>1, <1>3, <1>8
  <2>4. /\ e1 \in EngineStates /\ e1.fiber[f] = r
        /\ \A g \in Fibers \ {f} : e1.fiber[g] = e.fiber[g]
        /\ e1.callbacks = cs /\ e1.calls = ks /\ e1.timers = ts
        /\ e1.ready = e.ready /\ e1.scheduled = e.scheduled /\ e1.draining = e.draining
        /\ e1.effects = n /\ e1.lost = e.lost
    BY <2>2, <2>3, BuildFields
  <2> QED
    BY <2>1, <2>4
<1> HIDE DEF r
<1>10. Elsewhere(e, e1, f)
  BY <1>2, <1>9 DEF Elsewhere, Others, InReady
<1>11. OwnOK(e1, f)
  <2>1. \A d \in e1.callbacks : d.fiber = f => d.step = c.step
    BY <1>1, <1>9
  <2>2. \A d \in e1.calls : d.fiber = f => d.token <= r.token /\ d.token # r.token
    BY <1>1, <1>3, <1>9
  <2>3. \A d, d2 \in e1.calls : d.fiber = f /\ d2.fiber = f /\ d.token = d2.token => d = d2
    BY <1>9 DEF EngineOK, CallsOK
  <2>4. \A t \in e1.timers : t.fiber # f
    BY <1>1, <1>9
  <2> QED
    BY <1>3, <1>9, <2>1, <2>2, <2>3, <2>4 DEF OwnOK
<1>12. [fiber |-> f, step |-> e1.fiber[f].step] \in e1.callbacks
  BY <1>2, <1>3, <1>9
<1>13. EngineOK(e1, {})
  BY <1>3, <1>9, <1>10, <1>11, <1>12, SuspendOK
<1>14. Suspend(e, f, "async") = [e1 EXCEPT !.callbacks = @ \ {c}]
  <2>1. cs \ {c} = e.callbacks
    BY <1>1, <1>2
  <2>2. PICK n : n = e.effects + 1
    OBVIOUS
  <2>3. e1 = Build(e, f, r, cs, e.calls, e.timers, n)
    BY <1>7, <2>2
  <2>4. [e1 EXCEPT !.callbacks = cs \ {c}] = [e EXCEPT !.fiber[f] = r, !.effects = n]
    <3> HIDE DEF cs
    <3> QED
      BY <1>1, <2>1, <2>3 DEF Build, EngineStates
  <2> QED
    BY <1>4, <1>9, <2>2, <2>4
<1> QED
  BY <1>2, <1>3, <1>6, <1>9, <1>13, <1>14

LEMMA AsksAsyncOK ==
  ASSUME NEW e, NEW f \in Fibers, EngineOK(e, {f}), DrainComes(e), AsksAsync(e, f)
  PROVE  EngineInv'
<1>1. PICK e2 : e2 = engine'
  OBVIOUS
<1>2. PICK asked : asked = Suspend(e, f, "async")
  OBVIOUS
<1>3. PICK e1 : e1 = AskedAsync(e, f)
  OBVIOUS
<1>4. PICK c : c = [fiber |-> f, step |-> e.fiber[f].step + 1]
  OBVIOUS
<1>5. /\ EngineOK(e1, {}) /\ c \in e1.callbacks /\ c.step = e1.fiber[f].step
      /\ asked.fiber[f].step = c.step
      /\ asked = [e1 EXCEPT !.callbacks = @ \ {c}]
      /\ e1.ready = e.ready /\ e1.scheduled = e.scheduled /\ e1.draining = e.draining
  BY <1>2, <1>3, <1>4, AskedAsyncOK
<1>6. c.fiber = f /\ DrainComes(e1)
  BY <1>4, <1>5 DEF DrainComes
<1>7. \/ e2 = e1
      \/ e2 = Resume(asked, f, c.step, TRUE)
      \/ e2 = Ended(Counted(asked), f, "interrupted")
  BY <1>1, <1>2, <1>3, <1>5 DEF AsksAsync, AskedAsync, Counted
<1>8. ASSUME e2 = Resume(asked, f, c.step, TRUE)
      PROVE  EngineOK(e2, {}) /\ DrainComes(e2)
  <2>1. /\ e1.fiber[f].status = "suspended" /\ asked \in EngineStates /\ Heard(e1, asked, f)
    BY <1>5, <1>6, AsyncHeard
  <2> QED
    BY <1>5, <1>6, <1>8, <2>1, ResumeOK
<1>9. ASSUME e2 = Ended(Counted(asked), f, "interrupted")
      PROVE  EngineOK(e2, {}) /\ DrainComes(e2)
  <2>1. asked = Called(e1, c) /\ "interrupted" \in Ends
    BY <1>5 DEF Called, Ends
  <2>2. PICK e3 : e3 = Counted(asked)
    OBVIOUS
  <2>3. Ended(e3, c.fiber, "interrupted") = Ended(e1, c.fiber, "interrupted")
    BY <1>5, <1>6, <2>1, <2>2, AsyncExit
  <2>4. e2 = Ended(e1, f, "interrupted")
    BY <1>6, <1>9, <2>2, <2>3
  <2>5. Live(e1, f)
    BY <1>5, <1>6, AsyncHeard DEF Live
  <2>6. /\ EngineOK(e2, {} \ {f}) /\ e2.ready = e1.ready
        /\ e2.scheduled = e1.scheduled /\ e2.draining = e1.draining
    BY <1>5, <2>1, <2>4, <2>5, EndedOK
  <2>7. {} \ {f} = {}
    OBVIOUS
  <2> QED
    BY <1>6, <2>6, <2>7 DEF DrainComes
<1>10. EngineOK(e2, {}) /\ DrainComes(e2)
  BY <1>5, <1>6, <1>7, <1>8, <1>9
<1> QED
  BY <1>1, <1>10 DEF EngineInv

\* A host action, with or without a deadline.
AskedHost(e, f) == Suspend([e EXCEPT !.fiber[f].token = @ + 1], f, "action")

\* The record of the fiber that asks, and its call.
AskedRecord(e, f, deadline) ==
  LET r == e.fiber[f]
  IN [r EXCEPT !.status = "suspended", !.wants = "action", !.resume = 0,
               !.step = r.step + 1, !.token = r.token + 1, !.deadline = deadline]
AskedCall(e, f) ==
  [fiber |-> f, token |-> e.fiber[f].token + 1, step |-> e.fiber[f].step + 1]

\* What the request adds to the calls and to the deadlines.
AskedMore(e, f, cs, ks, n) ==
  cs = e.callbacks /\ ks = e.calls \cup {AskedCall(e, f)} /\ n = e.effects + 1
AskedTimers(e, f, ts, deadline) ==
  /\ ts \in TimerSets /\ Others(ts, f) = Others(e.timers, f)
  /\ \A t \in ts : t.fiber = f => t.token = deadline

LEMMA AskedHostOK ==
  ASSUME NEW e, NEW f \in Fibers, EngineOK(e, {f}), NEW e1 \in EngineStates,
         NEW r, e1.fiber[f] = r, \A g \in Fibers \ {f} : e1.fiber[g] = e.fiber[g],
         r.status = "suspended", r.wants = "action", r.resume = 0,
         r.token = e.fiber[f].token + 1, r.step = e.fiber[f].step + 1,
         AskedMore(e, f, e1.callbacks, e1.calls, e1.effects),
         AskedTimers(e, f, e1.timers, r.deadline), e1.ready = e.ready, e1.lost = e.lost
  PROVE  EngineOK(e1, {})
<1>1. PICK c : c = AskedCall(e, f)
  OBVIOUS
<1>2. /\ c.fiber = f /\ c.token = r.token /\ c.step = r.step
      /\ e1.callbacks = e.callbacks /\ e1.calls = e.calls \cup {c}
      /\ e1.effects = e.effects + 1
      /\ Others(e1.timers, f) = Others(e.timers, f)
      /\ \A t \in e1.timers : t.fiber = f => t.token = r.deadline
  BY <1>1 DEF AskedCall, AskedMore, AskedTimers
<1>3. /\ e \in EngineStates /\ e.fiber[f] \in FiberStates
      /\ \A d \in e.callbacks : d.fiber # f
      /\ \A d \in e.calls : d.fiber = f => d.token <= e.fiber[f].token
  BY InHand
<1>4. /\ e.fiber[f].token \in Nat /\ r.token \in Nat
  BY <1>3 DEF FiberStates
<1>5. \A d \in e.calls : d.fiber = f => d.token < r.token
  <2> SUFFICES ASSUME NEW d \in e.calls, d.fiber = f PROVE d.token < r.token
    OBVIOUS
  <2>1. d.token \in Nat /\ d.token <= e.fiber[f].token
    BY <1>3 DEF EngineStates
  <2> QED
    BY <1>4, <2>1
<1>6. \A d \in e1.calls : d = c \/ d \in e.calls
  BY <1>2
<1>7. Elsewhere(e, e1, f)
  <2>1. Others(e1.calls, f) = Others(e.calls, f)
    BY <1>2 DEF Others
  <2> QED
    BY <1>2, <2>1 DEF Elsewhere, InReady
<1>8. OwnOK(e1, f)
  <2>1. ASSUME NEW d \in e1.calls, d.fiber = f
        PROVE  d.token <= r.token /\ (d.token = r.token => d.step = r.step)
    <3>1. CASE d = c
      BY <1>4, <1>2, <3>1
    <3>2. CASE d \in e.calls
      <4>1. d.token < r.token /\ d.token \in Nat
        BY <1>3, <1>5, <2>1, <3>2 DEF EngineStates
      <4> QED
        BY <1>4, <4>1
    <3> QED
      BY <1>6, <3>1, <3>2
  <2>2. ASSUME NEW d \in e1.calls, NEW d2 \in e1.calls, d.fiber = f, d2.fiber = f,
               d.token = d2.token
        PROVE  d = d2
    <3>1. CASE d \in e.calls /\ d2 \in e.calls
      BY <2>2, <3>1 DEF EngineOK, CallsOK
    <3>2. ASSUME NEW x \in e.calls, x.fiber = f, x.token = c.token PROVE FALSE
      BY <1>3, <1>4, <1>5, <1>2, <3>2
    <3> QED
      BY <1>6, <1>2, <2>2, <3>1, <3>2
  <2>3. /\ \A d \in e1.callbacks : d.fiber # f
        /\ \A t \in e1.timers : t.fiber = f => t.token = r.deadline
    BY <1>3, <1>2
  <2>4. /\ \A d \in e1.calls : d.fiber = f =>
             d.token <= r.token /\ (d.token = r.token => d.step = r.step)
        /\ \A d, d2 \in e1.calls : d.fiber = f /\ d2.fiber = f /\ d.token = d2.token => d = d2
    BY <2>1, <2>2
  <2>5. e1.fiber[f] = r /\ r.wants = "action" /\ r.status = "suspended"
    OBVIOUS
  <2> QED
    BY <2>3, <2>4, <2>5 DEF OwnOK
<1>9. c \in e1.calls /\ c.fiber = f /\ c.token = e1.fiber[f].token
  BY <1>2
<1> QED
  BY <1>7, <1>8, <1>9, <1>2, SuspendOK

LEMMA AskedHostFields ==
  ASSUME NEW e \in EngineStates, NEW f \in Fibers
  PROVE  /\ AskedHost(e, f)
              = Build(e, f, AskedRecord(e, f, e.fiber[f].deadline),
                      e.callbacks, e.calls, e.timers, e.effects + 1)
         /\ AskedHost(e, f).fiber[f].token = e.fiber[f].token + 1
         /\ AskedHost(e, f).fiber[f].step = e.fiber[f].step + 1
<1> DEFINE r0 == e.fiber[f]
           r1 == [r0 EXCEPT !.token = @ + 1]
           r == AskedRecord(e, f, r0.deadline)
<1>1. r0 \in FiberStates /\ e.fiber \in [Fibers -> FiberStates]
  BY DEF EngineStates
<1>2. r = [r1 EXCEPT !.status = "suspended", !.wants = "action", !.resume = 0,
                     !.step = r1.step + 1]
  BY <1>1 DEF FiberStates, AskedRecord
<1>3. r.token = r0.token + 1 /\ r.step = r0.step + 1
  BY <1>1 DEF FiberStates, AskedRecord
<1>4. PICK e1 : e1 = [e EXCEPT !.fiber[f] = r1]
  OBVIOUS
<1>5. [e EXCEPT !.fiber[f].token = @ + 1] = e1
  BY <1>1, <1>4 DEF EngineStates
<1>6. /\ e1.fiber = [e.fiber EXCEPT ![f] = r1] /\ e1.effects = e.effects
  BY <1>4 DEF EngineStates
<1>7. e1.fiber[f] = r1
  BY <1>1, <1>6
<1>8. AskedHost(e, f) = [e1 EXCEPT !.fiber[f] = r, !.effects = e.effects + 1]
  BY <1>2, <1>5, <1>6, <1>7 DEF AskedHost, Suspend
<1> HIDE DEF r, r1
<1>9. AskedHost(e, f) = Build(e, f, r, e.callbacks, e.calls, e.timers, e.effects + 1)
  <2>1. [e1.fiber EXCEPT ![f] = r] = [e.fiber EXCEPT ![f] = r]
    BY <1>1, <1>6
  <2>2. PICK fb, n : fb = [e.fiber EXCEPT ![f] = r] /\ n = e.effects + 1
    OBVIOUS
  <2>3. AskedHost(e, f) = [e1 EXCEPT !.fiber = fb, !.effects = n]
    BY <1>8, <2>1, <2>2
  <2>4. AskedHost(e, f) = [e EXCEPT !.fiber = fb, !.effects = n]
    BY <1>4, <2>3 DEF EngineStates
  <2>5. Build(e, f, r, e.callbacks, e.calls, e.timers, e.effects + 1)
        = [e EXCEPT !.fiber = fb, !.effects = n]
    BY <2>2 DEF Build, EngineStates
  <2> QED
    BY <2>4, <2>5
<1>10. AskedHost(e, f).fiber = [e1.fiber EXCEPT ![f] = r]
  BY <1>4, <1>8 DEF EngineStates
<1>11. AskedHost(e, f).fiber[f] = r
  BY <1>1, <1>6, <1>10
<1> QED
  BY <1>3, <1>9, <1>11 DEF r

LEMMA AskedRecordFields ==
  ASSUME NEW e \in EngineStates, NEW f \in Fibers, NEW deadline \in Nat,
         NEW r, r = AskedRecord(e, f, deadline)
  PROVE  /\ r \in FiberStates /\ r.status = "suspended" /\ r.wants = "action" /\ r.resume = 0
         /\ r.token = e.fiber[f].token + 1 /\ r.step = e.fiber[f].step + 1
         /\ r.deadline = deadline
<1>1. e.fiber[f] \in FiberStates
  BY DEF EngineStates
<1>2. e.fiber[f].token + 1 \in Nat /\ e.fiber[f].step + 1 \in Nat
  BY <1>1 DEF FiberStates
<1> QED
  BY <1>1, <1>2 DEF AskedRecord, FiberStates

LEMMA AskedStateOK ==
  ASSUME NEW e, NEW f \in Fibers, EngineOK(e, {f}), DrainComes(e), NEW deadline \in Nat,
         NEW r, r = AskedRecord(e, f, deadline), NEW ts, AskedTimers(e, f, ts, deadline),
         NEW cs, NEW ks, NEW n, AskedMore(e, f, cs, ks, n),
         NEW e1, e1 = Build(e, f, r, cs, ks, ts, n)
  PROVE  EngineOK(e1, {}) /\ DrainComes(e1)
<1>1. e \in EngineStates
  BY DEF EngineOK
<1>2. /\ r \in FiberStates /\ r.status = "suspended" /\ r.wants = "action" /\ r.resume = 0
      /\ r.token = e.fiber[f].token + 1 /\ r.step = e.fiber[f].step + 1
      /\ r.deadline = deadline
  BY <1>1, AskedRecordFields
<1>3. r.token \in Nat /\ r.step \in Nat
  BY <1>2 DEF FiberStates
<1>4. PICK c : c = AskedCall(e, f)
  OBVIOUS
<1>5. /\ c \in [fiber : Fibers, token : Nat, step : Nat]
      /\ c.fiber = f /\ c.token = r.token /\ c.step = r.step
  BY <1>2, <1>3, <1>4 DEF AskedCall
<1>6. cs \in CallbackSets /\ ks \in CallSets /\ n \in Nat /\ ts \in TimerSets
  BY <1>1, <1>4, <1>5 DEF EngineStates, CallbackSets, CallSets, AskedMore, AskedTimers
<1>7. /\ e1 \in EngineStates /\ e1.fiber[f] = r
      /\ \A g \in Fibers \ {f} : e1.fiber[g] = e.fiber[g]
      /\ e1.callbacks = cs /\ e1.calls = ks /\ e1.timers = ts
      /\ e1.ready = e.ready /\ e1.scheduled = e.scheduled /\ e1.draining = e.draining
      /\ e1.effects = n /\ e1.lost = e.lost
  BY <1>1, <1>2, <1>6, BuildFields
<1>8. /\ AskedMore(e, f, e1.callbacks, e1.calls, e1.effects)
      /\ AskedTimers(e, f, e1.timers, r.deadline)
  BY <1>2, <1>7
<1>9. EngineOK(e1, {})
  BY <1>2, <1>7, <1>8, AskedHostOK
<1> QED
  BY <1>7, <1>9 DEF DrainComes

LEMMA AsksHostOK ==
  ASSUME NEW e, NEW f \in Fibers, EngineOK(e, {f}), DrainComes(e), AsksHost(e, f)
  PROVE  EngineInv'
<1>1. PICK e2 : e2 = engine'
  OBVIOUS
<1>2. PICK asked : asked = AskedHost(e, f)
  OBVIOUS
<1>3. PICK token, d0 : token = e.fiber[f].token + 1 /\ d0 = e.fiber[f].deadline
  OBVIOUS
<1>4. PICK c : c = AskedCall(e, f)
  OBVIOUS
<1>5. PICK t0 : t0 = [fiber |-> f, token |-> token]
  OBVIOUS
<1>6. PICK cs, ks, n : cs = e.callbacks /\ ks = e.calls \cup {c} /\ n = e.effects + 1
  OBVIOUS
<1>7. PICK ts : ts = e.timers \cup {t0}
  OBVIOUS
<1>8. PICK r0, r : r0 = AskedRecord(e, f, d0) /\ r = AskedRecord(e, f, token)
  OBVIOUS
<1>9. /\ e \in EngineStates /\ e.fiber[f] \in FiberStates
      /\ \A t \in e.timers : t.fiber # f
  BY InHand
<1>10. d0 \in Nat /\ token \in Nat
  BY <1>3, <1>9 DEF FiberStates
<1>11. /\ asked = Build(e, f, r0, cs, e.calls, e.timers, n)
       /\ asked.fiber[f].token = token /\ asked.fiber[f].step = e.fiber[f].step + 1
  BY <1>2, <1>3, <1>6, <1>8, <1>9, AskedHostFields
<1>12. c = [fiber |-> f, token |-> token, step |-> asked.fiber[f].step]
  BY <1>3, <1>4, <1>11 DEF AskedCall
<1>13. \/ e2 = [asked EXCEPT !.calls = @ \cup {c}]
       \/ e2 = [asked EXCEPT !.calls = @ \cup {c}, !.fiber[f].deadline = token,
                             !.timers = @ \cup {t0}]
  BY <1>1, <1>2, <1>5, <1>11, <1>12 DEF AsksHost, AskedHost
<1>14. /\ asked.calls = e.calls /\ asked.timers = e.timers
       /\ asked.fiber = [e.fiber EXCEPT ![f] = r0]
  BY <1>9, <1>11 DEF Build, EngineStates
<1>15. AskedMore(e, f, cs, ks, n)
  BY <1>4, <1>6 DEF AskedMore
<1>16. ASSUME e2 = [asked EXCEPT !.calls = @ \cup {c}]
       PROVE  EngineOK(e2, {}) /\ DrainComes(e2)
  <2>1. e2 = [asked EXCEPT !.calls = ks]
    BY <1>6, <1>14, <1>16
  <2>2. PICK ts0 : ts0 = e.timers
    OBVIOUS
  <2>3. e2 = Build(e, f, r0, cs, ks, ts0, n)
    BY <1>9, <1>11, <2>1, <2>2 DEF Build, EngineStates
  <2>4. /\ ts0 \in TimerSets /\ Others(ts0, f) = Others(e.timers, f)
        /\ \A t \in ts0 : t.fiber = f => t.token = d0
    BY <1>9, <2>2 DEF EngineStates, TimerSets
  <2> QED
    BY <1>6, <1>8, <1>10, <1>15, <2>3, <2>4, AskedStateOK DEF AskedTimers
<1>17. ASSUME e2 = [asked EXCEPT !.calls = @ \cup {c}, !.fiber[f].deadline = token,
                                 !.timers = @ \cup {t0}]
       PROVE  EngineOK(e2, {}) /\ DrainComes(e2)
  <2>1. [r0 EXCEPT !.deadline = token] = r
    BY <1>3, <1>8, <1>9 DEF AskedRecord, FiberStates
  <2>2. asked.fiber[f] = r0 /\ e.fiber \in [Fibers -> FiberStates]
    BY <1>9, <1>14 DEF EngineStates
  <2>3. e2 = [asked EXCEPT !.calls = ks, !.fiber[f] = r, !.timers = ts]
    BY <1>6, <1>7, <1>14, <1>17, <2>1, <2>2
  <2>4. PICK fb : fb = [e.fiber EXCEPT ![f] = r]
    OBVIOUS
  <2>5. [asked.fiber EXCEPT ![f] = r] = fb
    BY <1>14, <2>2, <2>4
  <2>6. e2 = [asked EXCEPT !.calls = ks, !.fiber = fb, !.timers = ts]
    BY <2>3, <2>5
  <2>7. PICK fb0 : fb0 = [e.fiber EXCEPT ![f] = r0]
    OBVIOUS
  <2>8. asked = [e EXCEPT !.fiber = fb0, !.callbacks = cs, !.calls = e.calls,
                          !.timers = e.timers, !.effects = n]
    BY <1>11, <2>7 DEF Build
  <2>9. e2 = [e EXCEPT !.fiber = fb, !.callbacks = cs, !.calls = ks,
                       !.timers = ts, !.effects = n]
    BY <1>9, <2>6, <2>8 DEF EngineStates
  <2>10. e2 = Build(e, f, r, cs, ks, ts, n)
    BY <2>4, <2>9 DEF Build
  <2>11. t0 \in [fiber : Fibers, token : Nat] /\ t0.fiber = f /\ t0.token = token
    BY <1>5, <1>10
  <2>12. /\ ts \in TimerSets /\ Others(ts, f) = Others(e.timers, f)
         /\ \A t \in ts : t.fiber = f => t.token = token
    BY <1>7, <1>9, <2>11 DEF EngineStates, TimerSets, Others
  <2> QED
    BY <1>6, <1>8, <1>10, <1>15, <2>10, <2>12, AskedStateOK DEF AskedTimers
<1>18. EngineOK(e2, {}) /\ DrainComes(e2)
  BY <1>13, <1>16, <1>17
<1> QED
  BY <1>1, <1>18 DEF EngineInv

-----------------------------------------------------------------------------
\* A fiber that starts, or goes on without having waited, is in hand.
LEMMA RunsOK ==
  ASSUME NEW e, NEW X, EngineOK(e, X), NEW f \in Fibers, ~InReady(e, f),
         e.fiber[f].status # "suspended", \A g \in Fibers \ {f} : g \notin X,
         \A c \in e.calls : c.fiber = f => c.token # e.fiber[f].token,
         NEW r \in FiberStates, r.status = "running", r.wants = "none",
         r.resume \in {0, r.step}, r.token = e.fiber[f].token,
         NEW e1, e1 = [e EXCEPT !.fiber[f] = r]
  PROVE  /\ EngineOK(e1, {f})
         /\ e1.ready = e.ready /\ e1.scheduled = e.scheduled /\ e1.draining = e.draining
<1>1. /\ e \in EngineStates /\ FiberOK(e, f, X)
      /\ e.fiber \in [Fibers -> FiberStates]
  BY DEF EngineOK, EngineStates
<1>2. e.fiber[f].wants = "none"
  BY <1>1 DEF FiberOK
<1>3. /\ e1 \in EngineStates /\ e1.fiber = [e.fiber EXCEPT ![f] = r]
      /\ e1.callbacks = e.callbacks /\ e1.calls = e.calls /\ e1.timers = e.timers
      /\ e1.ready = e.ready /\ e1.scheduled = e.scheduled /\ e1.draining = e.draining
      /\ e1.effects = e.effects /\ e1.lost = e.lost
  BY <1>1 DEF EngineStates
<1>4. e1.fiber[f] = r /\ \A g \in Fibers \ {f} : e1.fiber[g] = e.fiber[g]
  BY <1>1, <1>3
<1>5. Elsewhere(e, e1, f)
  BY <1>3, <1>4 DEF Elsewhere, InReady, Others
<1>6. FiberOK(e1, f, {f})
  <2>1. ~InReady(e1, f)
    BY <1>3 DEF InReady
  <2> QED
    BY <1>4, <2>1 DEF FiberOK
<1>7. OwnOK(e1, f)
  <2>1. /\ \A c \in e1.callbacks : c.fiber # f
        /\ \A t \in e1.timers : t.fiber # f
    BY <1>2, <1>3 DEF EngineOK, CallbacksOK, TimersOK
  <2>2. \A c \in e1.calls : c.fiber = f => c.token <= r.token /\ c.token # r.token
    BY <1>3 DEF EngineOK, CallsOK
  <2>3. \A c, d \in e1.calls : c.fiber = f /\ d.fiber = f /\ c.token = d.token => c = d
    BY <1>3 DEF EngineOK, CallsOK
  <2> QED
    BY <1>4, <2>1, <2>2, <2>3 DEF OwnOK
<1>8. e1.effects + e.lost + Waits(e, f) = e1.lost + e.effects + Waits(e1, f)
  <2>1. e.effects \in Nat /\ e.lost \in Nat /\ Waits(e, f) = 0 /\ Waits(e1, f) = 0
    BY <1>1, <1>4 DEF EngineStates, Waits
  <2> QED
    BY <1>3, <2>1
<1>9. IsInjective(e1.ready) /\ (\A g \in Fibers \ {f} : g \in X <=> g \in {f})
  BY <1>3 DEF EngineOK
<1>10. EngineOK(e1, {f})
  BY <1>1, <1>3, <1>5, <1>6, <1>7, <1>8, <1>9, OneFiber
<1> QED
  BY <1>3, <1>10

LEMMA YieldsOK ==
  ASSUME NEW e, NEW f \in Fibers, EngineOK(e, {f}), DrainComes(e), Yields(e, f)
  PROVE  EngineInv'
<1>1. PICK e2 : e2 = engine'
  OBVIOUS
<1>2. PICK r0, r : r0 = e.fiber[f] /\ r = [r0 EXCEPT !.resume = 0, !.step = r0.step + 1]
  OBVIOUS
<1>3. PICK e1 : e1 = [e EXCEPT !.fiber[f] = r]
  OBVIOUS
<1>4. e2 = Enqueue(e1, f, TRUE)
  BY <1>1, <1>2, <1>3 DEF Yields
<1>5. /\ e \in EngineStates /\ e.fiber[f] \in FiberStates
      /\ e.fiber[f].status = "running" /\ e.fiber[f].wants = "none" /\ ~InReady(e, f)
      /\ \A d \in e.calls : d.fiber = f => d.token # e.fiber[f].token
  BY InHand
<1>6. r0.step + 1 \in Nat
  BY <1>2, <1>5 DEF FiberStates
<1>7. /\ r \in FiberStates /\ r.status = "running" /\ r.wants = "none"
      /\ r.resume \in {0, r.step} /\ r.token = e.fiber[f].token
  BY <1>2, <1>5, <1>6 DEF FiberStates
<1>8. e.fiber[f].status # "suspended" /\ \A g \in Fibers \ {f} : g \notin {f}
  BY <1>5
<1>9. /\ EngineOK(e1, {f})
      /\ e1.ready = e.ready /\ e1.scheduled = e.scheduled /\ e1.draining = e.draining
  BY <1>3, <1>5, <1>7, <1>8, RunsOK
<1>10. EngineOK(e2, {}) /\ DrainComes(e2)
  BY <1>4, <1>9, EnqueueOK DEF DrainComes
<1> QED
  BY <1>1, <1>10 DEF EngineInv

LEMMA StepFork ==
  ASSUME EngineInv, NEW f \in Fibers, Fork(f)
  PROVE  EngineInv'
<1>1. PICK e : e = engine
  OBVIOUS
<1>2. PICK e2 : e2 = engine'
  OBVIOUS
<1>3. EngineOK(e, {}) /\ DrainComes(e)
  BY <1>1 DEF EngineInv
<1>4. PICK r : r = [e.fiber[f] EXCEPT !.status = "running"]
  OBVIOUS
<1>5. PICK e1 : e1 = [e EXCEPT !.fiber[f] = r]
  OBVIOUS
<1>6. /\ e \in EngineStates /\ FiberOK(e, f, {}) /\ e.fiber[f] \in FiberStates
      /\ e.fiber[f].status = "unborn"
  BY <1>1, <1>3 DEF EngineOK, EngineStates, Fork
<1>7. /\ e.fiber[f].wants = "none" /\ ~InReady(e, f)
      /\ e.fiber[f].resume \in {0, e.fiber[f].step}
  BY <1>6 DEF FiberOK
<1>8. /\ \A c \in e.calls : c.fiber = f => c.token # e.fiber[f].token
      /\ e.fiber[f].status # "suspended" /\ \A g \in Fibers \ {f} : g \notin {}
  BY <1>3, <1>6 DEF EngineOK, CallsOK
<1>9. /\ r \in FiberStates /\ r.status = "running" /\ r.wants = "none"
      /\ r.resume \in {0, r.step} /\ r.token = e.fiber[f].token
  BY <1>4, <1>6, <1>7 DEF FiberStates
<1>10. /\ EngineOK(e1, {f})
       /\ e1.ready = e.ready /\ e1.scheduled = e.scheduled /\ e1.draining = e.draining
  BY <1>3, <1>5, <1>7, <1>8, <1>9, RunsOK
<1>11. PICK taken \in Accepts : e2 = Enqueue(e1, f, taken)
  <2>1. [e EXCEPT !.fiber[f].status = "running"] = e1
    BY <1>4, <1>5
  <2> QED
    BY <1>1, <1>2, <2>1 DEF Fork
<1>12. taken \in BOOLEAN
  BY EngineAssumption DEF Accepts
<1>13. EngineOK(e2, {}) /\ DrainComes(e2)
  <2>1. DrainComes(e1)
    BY <1>3, <1>10 DEF DrainComes
  <2> QED
    BY <1>10, <1>11, <1>12, <2>1, EnqueueOK
<1> QED
  BY <1>2, <1>13 DEF EngineInv

LEMMA StepInterrupt ==
  ASSUME EngineInv, NEW f \in Fibers, Interrupt(f)
  PROVE  EngineInv'
<1>1. PICK e : e = engine
  OBVIOUS
<1>2. PICK e2 : e2 = Ended(e, f, "interrupted")
  OBVIOUS
<1>3. EngineOK(e, {}) /\ DrainComes(e) /\ Live(e, f) /\ "interrupted" \in Ends
  BY <1>1 DEF EngineInv, Interrupt, Ends
<1>4. /\ EngineOK(e2, {} \ {f}) /\ e2.ready = e.ready
      /\ e2.scheduled = e.scheduled /\ e2.draining = e.draining
  BY <1>2, <1>3, EndedOK
<1>5. {} \ {f} = {}
  OBVIOUS
<1>6. EngineOK(e2, {}) /\ DrainComes(e2) /\ e2 = engine'
  BY <1>1, <1>2, <1>3, <1>4, <1>5 DEF DrainComes, Interrupt
<1> QED
  BY <1>6 DEF EngineInv

-----------------------------------------------------------------------------
LEMMA StepBeginDrain ==
  ASSUME EngineInv, BeginDrain
  PROVE  EngineInv'
<1>1. PICK e : e = engine
  OBVIOUS
<1>2. PICK n : n = IF Len(e.ready) < DrainBudget THEN Len(e.ready) ELSE DrainBudget
  OBVIOUS
<1>3. PICK e2 : e2 = [e EXCEPT !.scheduled = FALSE, !.draining = TRUE, !.ran = 0, !.budget = n]
  OBVIOUS
<1>4. e2 = engine'
  BY <1>1, <1>2, <1>3 DEF BeginDrain
<1>5. EngineOK(e, {}) /\ e \in EngineStates
  BY <1>1 DEF EngineInv, EngineOK
<1>6. n \in Nat
  BY <1>2, <1>5, EngineAssumption DEF EngineStates
<1>7. /\ e2 \in EngineStates
      /\ e2.fiber = e.fiber /\ e2.ready = e.ready /\ e2.callbacks = e.callbacks
      /\ e2.calls = e.calls /\ e2.timers = e.timers
      /\ e2.effects = e.effects /\ e2.lost = e.lost /\ e2.draining = TRUE
  BY <1>3, <1>5, <1>6 DEF EngineStates
<1>8. EngineOK(e2, {}) /\ DrainComes(e2)
  BY <1>5, <1>7, OnlyFlags DEF DrainComes
<1> QED
  BY <1>4, <1>8 DEF EngineInv

LEMMA StepEndDrain ==
  ASSUME EngineInv, EndDrain
  PROVE  EngineInv'
<1>1. PICK e : e = engine
  OBVIOUS
<1>2. PICK e1 : e1 = [e EXCEPT !.draining = FALSE]
  OBVIOUS
<1>3. PICK e2 : e2 = engine'
  OBVIOUS
<1>4. EngineOK(e, {}) /\ e \in EngineStates
  BY <1>1 DEF EngineInv, EngineOK
<1>5. /\ e1 \in EngineStates
      /\ e1.fiber = e.fiber /\ e1.ready = e.ready /\ e1.callbacks = e.callbacks
      /\ e1.calls = e.calls /\ e1.timers = e.timers
      /\ e1.effects = e.effects /\ e1.lost = e.lost
  BY <1>2, <1>4 DEF EngineStates
<1>6. EngineOK(e1, {})
  BY <1>4, <1>5, OnlyFlags
<1>7. CASE e1.ready = <<>>
  <2>1. e2 = e1
    BY <1>1, <1>2, <1>3, <1>7 DEF EndDrain
  <2> QED
    BY <1>3, <1>6, <1>7, <2>1 DEF EngineInv, DrainComes
<1>8. CASE e1.ready # <<>>
  <2>1. PICK taken \in Accepts : e2 = RequestDrain(e1, taken)
    BY <1>1, <1>2, <1>3, <1>8 DEF EndDrain
  <2>2. taken \in BOOLEAN
    BY EngineAssumption DEF Accepts
  <2>3. EngineOK(e2, {}) /\ DrainComes(e2)
    BY <1>6, <2>1, <2>2, RequestDrainOK
  <2> QED
    BY <1>3, <2>3 DEF EngineInv
<1> QED
  BY <1>7, <1>8

\* The next fiber is taken out of the ready queue: it is in hand if it is alive.
LEMMA TakenOK ==
  ASSUME NEW e, EngineOK(e, {}), e.ready # <<>>, NEW f, f = Head(e.ready),
         NEW e1, e1 = [e EXCEPT !.ready = Tail(@), !.ran = @ + 1],
         NEW X, X = IF Live(e, f) THEN {f} ELSE {}
  PROVE  /\ EngineOK(e1, X) /\ f \in Fibers
         /\ e1.scheduled = e.scheduled /\ e1.draining = e.draining
<1>1. e \in EngineStates /\ e.ready \in Seq(Fibers) /\ IsInjective(e.ready) /\ e.ran + 1 \in Nat
  BY DEF EngineOK, EngineStates
<1>2. /\ f \in Fibers /\ f \in ToSet(e.ready) /\ Tail(e.ready) \in Seq(Fibers)
      /\ ToSet(Tail(e.ready)) = ToSet(e.ready) \ {f} /\ IsInjective(Tail(e.ready))
  BY <1>1, TailNode
<1>3. /\ e1 \in EngineStates /\ e1.ready = Tail(e.ready) /\ e1.fiber = e.fiber
      /\ e1.callbacks = e.callbacks /\ e1.calls = e.calls /\ e1.timers = e.timers
      /\ e1.scheduled = e.scheduled /\ e1.draining = e.draining
      /\ e1.effects = e.effects /\ e1.lost = e.lost
  BY <1>1, <1>2 DEF EngineStates
<1>4. /\ InReady(e, f) /\ ~InReady(e1, f)
      /\ \A g \in Fibers \ {f} : InReady(e1, g) <=> InReady(e, g)
  BY <1>2, <1>3 DEF InReady
<1>5. Elsewhere(e, e1, f)
  BY <1>3, <1>4 DEF Elsewhere
<1>6. FiberOK(e1, f, X)
  <2>1. FiberOK(e, f, {})
    BY <1>2 DEF EngineOK
  <2>2. e.fiber[f].status \notin {"unborn", "suspended"}
    BY <1>4, <2>1 DEF FiberOK
  <2>3. (f \in X <=> e.fiber[f].status = "running")
    BY <2>2 DEF Live
  <2> QED
    BY <1>3, <1>4, <2>1, <2>2, <2>3 DEF FiberOK
<1>7. OwnOK(e1, f)
  BY <1>3 DEF OwnOK, EngineOK, CallbacksOK, TimersOK, CallsOK, Live
<1>8. e1.effects + e.lost + Waits(e, f) = e1.lost + e.effects + Waits(e1, f)
  <2>1. e.effects \in Nat /\ e.lost \in Nat /\ Waits(e1, f) = Waits(e, f) /\ Waits(e, f) \in Nat
    BY <1>1, <1>3 DEF EngineStates, Waits
  <2> QED
    BY <1>3, <2>1
<1>9. IsInjective(e1.ready) /\ (\A g \in Fibers \ {f} : g \in {} <=> g \in X)
  BY <1>2, <1>3
<1>10. EngineOK(e1, X)
  BY <1>2, <1>3, <1>5, <1>6, <1>7, <1>8, <1>9, OneFiber
<1> QED
  BY <1>2, <1>3, <1>10

LEMMA StepDriveNext ==
  ASSUME EngineInv, DriveNext
  PROVE  EngineInv'
<1>1. PICK e : e = engine
  OBVIOUS
<1>2. PICK f : f = Head(e.ready)
  OBVIOUS
<1>3. PICK e1 : e1 = [e EXCEPT !.ready = Tail(@), !.ran = @ + 1]
  OBVIOUS
<1>4. PICK X : X = IF Live(e, f) THEN {f} ELSE {}
  OBVIOUS
<1>5. EngineOK(e, {}) /\ e.ready # <<>> /\ e.draining
  BY <1>1 DEF EngineInv, DriveNext
<1>6. /\ EngineOK(e1, X) /\ f \in Fibers
      /\ e1.scheduled = e.scheduled /\ e1.draining = e.draining
  BY <1>2, <1>3, <1>4, <1>5, TakenOK
<1>7. DrainComes(e1)
  BY <1>5, <1>6 DEF DrainComes
<1>8. CASE ~Live(e, f)
  <2>1. engine' = e1
    BY <1>1, <1>2, <1>3, <1>8 DEF DriveNext
  <2> QED
    BY <1>4, <1>6, <1>7, <1>8, <2>1 DEF EngineInv
<1>9. CASE Live(e, f)
  <2>1. EngineOK(e1, {f})
    BY <1>4, <1>6, <1>9
  <2>2. \/ Finishes(e1, f) \/ AsksAsync(e1, f) \/ AsksHost(e1, f) \/ Yields(e1, f)
    BY <1>1, <1>2, <1>3, <1>9 DEF DriveNext
  <2>3. ASSUME Finishes(e1, f) PROVE EngineInv'
    <3>1. PICK how \in {"done", "failed"} : engine' = Ended(e1, f, how)
      BY <2>3 DEF Finishes
    <3>2. PICK e2 : e2 = Ended(e1, f, how)
      OBVIOUS
    <3>3. Live(e1, f) /\ how \in Ends
      BY <1>6, <2>1, InHand DEF Live, Ends
    <3>4. /\ EngineOK(e2, {f} \ {f}) /\ e2.ready = e1.ready
          /\ e2.scheduled = e1.scheduled /\ e2.draining = e1.draining
      BY <1>6, <2>1, <3>2, <3>3, EndedOK
    <3>5. {f} \ {f} = {}
      OBVIOUS
    <3>6. EngineOK(e2, {}) /\ DrainComes(e2)
      BY <1>7, <3>4, <3>5 DEF DrainComes
    <3> QED
      BY <3>1, <3>2, <3>6 DEF EngineInv
  <2> QED
    BY <1>6, <1>7, <2>1, <2>2, <2>3, AsksAsyncOK, AsksHostOK, YieldsOK
<1> QED
  BY <1>8, <1>9

-----------------------------------------------------------------------------
LEMMA EngineInitInv == EngineInit => EngineInv
<1> SUFFICES ASSUME EngineInit PROVE EngineInv
  OBVIOUS
<1>1. PICK e : e = engine
  OBVIOUS
<1>2. /\ e.fiber = [f \in Fibers |-> Unborn] /\ e.ready = <<>> /\ e.effects = 0 /\ e.lost = 0
      /\ e.callbacks = {} /\ e.calls = {} /\ e.timers = {}
  BY <1>1 DEF EngineInit
<1>3. Unborn \in FiberStates /\ Unborn.status = "unborn" /\ Unborn.wants = "none"
      /\ Unborn.resume = 0
  BY DEF Unborn, FiberStates
<1>4. e \in EngineStates
  <2>1. [f \in Fibers |-> Unborn] \in [Fibers -> FiberStates] /\ <<>> \in Seq(Fibers)
    BY <1>3
  <2> HIDE DEF Unborn
  <2> QED
    BY <1>1, <2>1 DEF EngineInit, EngineStates
<1>5. \A f \in Fibers : e.fiber[f] = Unborn /\ ~InReady(e, f)
  BY <1>2 DEF InReady, ToSet
<1>6. \A f \in Fibers : FiberOK(e, f, {})
  BY <1>3, <1>5 DEF FiberOK
<1>7. CallbacksOK(e) /\ TimersOK(e) /\ CallsOK(e)
  BY <1>2 DEF CallbacksOK, TimersOK, CallsOK
<1>8. Suspended(e) = {}
  BY <1>3, <1>5 DEF Suspended
<1>9. e.effects = e.lost + Cardinality(Suspended(e))
  BY <1>2, <1>8, FS_EmptySet
<1>10. IsInjective(e.ready)
  BY <1>2 DEF IsInjective
<1>11. EngineOK(e, {}) /\ DrainComes(e)
  BY <1>2, <1>4, <1>6, <1>7, <1>9, <1>10 DEF EngineOK, DrainComes
<1> QED
  BY <1>1, <1>11 DEF EngineInv

LEMMA EngineNextInv == EngineInv /\ [EngineNext]_engine => EngineInv'
<1> SUFFICES ASSUME EngineInv, [EngineNext]_engine PROVE EngineInv'
  OBVIOUS
<1>1. CASE UNCHANGED engine
  BY <1>1 DEF EngineInv
<1>2. CASE EngineNext
  BY <1>2, StepFork, StepInterrupt, StepAsyncAnswers, StepHostAnswers, StepDeadlinePasses,
     StepBeginDrain, StepDriveNext, StepEndDrain DEF EngineNext
<1> QED
  BY <1>1, <1>2

\* A fiber has one place in the queue when it is there, and none when it is not.
LEMMA Places ==
  ASSUME NEW S, NEW q \in Seq(S), IsInjective(q), NEW x,
         NEW places, places = {i \in DOMAIN q : q[i] = x}
  PROVE  Cardinality(places) = IF x \in ToSet(q) THEN 1 ELSE 0
<1>1. CASE x \in ToSet(q)
  <2>1. PICK i \in DOMAIN q : q[i] = x
    BY <1>1 DEF ToSet
  <2>2. places = {i}
    BY <2>1 DEF IsInjective
  <2> QED
    BY <1>1, <2>2, FS_Singleton
<1>2. CASE x \notin ToSet(q)
  <2>1. places = {}
    BY <1>2 DEF ToSet
  <2> QED
    BY <1>2, <2>1, FS_EmptySet
<1> QED
  BY <1>1, <1>2

LEMMA EngineInvImplies == EngineInv => DrivenByItsHost
<1> SUFFICES ASSUME EngineInv PROVE DrivenByItsHost
  OBVIOUS
<1>1. PICK e : e = engine
  OBVIOUS
<1>2. EngineOK(e, {}) /\ DrainComes(e) /\ e \in EngineStates
  BY <1>1 DEF EngineInv, EngineOK
<1>3. ASSUME NEW f \in Fibers, Live(e, f)
      PROVE  Cardinality({i \in DOMAIN e.ready : e.ready[i] = f})
               = IF e.fiber[f].status = "running" THEN 1 ELSE 0
  <2>1. PICK places : places = {i \in DOMAIN e.ready : e.ready[i] = f}
    OBVIOUS
  <2>2. e.ready \in Seq(Fibers) /\ IsInjective(e.ready) /\ FiberOK(e, f, {})
    BY <1>2 DEF EngineStates, EngineOK
  <2>3. f \in ToSet(e.ready) <=> e.fiber[f].status = "running"
    BY <1>3, <2>2 DEF FiberOK, InReady, Live
  <2>4. Cardinality(places) = IF f \in ToSet(e.ready) THEN 1 ELSE 0
    BY <2>1, <2>2, Places
  <2> QED
    BY <2>1, <2>3, <2>4
<1>4. ReadyOnce
  BY <1>1, <1>3 DEF ReadyOnce
<1>5. OwnAnswer
  BY <1>1, <1>2 DEF OwnAnswer, EngineOK, FiberOK
<1>6. SomebodyAnswers
  <2>1. ASSUME NEW f \in Fibers, e.fiber[f].status = "suspended"
        PROVE  \/ e.fiber[f].wants = "async" /\ Of(e.callbacks, f) # {}
               \/ e.fiber[f].wants = "action"
                  /\ \E c \in Of(e.calls, f) : c.token = e.fiber[f].token
    <3>1. FiberOK(e, f, {})
      BY <1>2 DEF EngineOK
    <3>2. \A n : [fiber |-> f, step |-> n].fiber = f
      OBVIOUS
    <3> QED
      BY <2>1, <3>1, <3>2 DEF FiberOK, Of
  <2>2. \A t \in e.timers : /\ e.fiber[t.fiber].wants = "action"
                            /\ e.fiber[t.fiber].deadline = t.token
    BY <1>2 DEF EngineOK, TimersOK
  <2> QED
    BY <1>1, <1>2, <2>1, <2>2 DEF SomebodyAnswers, DrainComes
<1>7. EffectsCounted
  BY <1>1, <1>2 DEF EffectsCounted, EngineOK, Suspended
<1> QED
  BY <1>4, <1>5, <1>6, <1>7 DEF DrivenByItsHost, DrivenOnce, HostAccounted

\* A fiber of the engine is driven once per answer and with its own answer, whoever
\* waits has somebody who owes him one, and the count of pending host effects is that
\* of the fibers that wait and of the actions nobody waits for any more: for every
\* number of fibers and requests, every capacity and budget, and a scheduler that
\* may drop the drain.
THEOREM DrivenByItsHostTheorem == EngineSpec => []DrivenByItsHost
<1>1. EngineSpec => []EngineInv
  BY EngineInitInv, EngineNextInv, PTL DEF EngineSpec
<1> QED
  BY <1>1, EngineInvImplies, PTL
=============================================================================
