------------------------------ MODULE Scheduler ------------------------------
(***************************************************************************)
(* The cooperative task scheduler of core/runtime/scheduler.ts (engine     *)
(* "ts").  Every fiber step, and every wake-up of a suspended fiber, is a  *)
(* task handed to `schedule'.  Tasks wait in one bounded queue per lane; a *)
(* flush, running as a microtask or a macrotask of the host, takes them in *)
(* round-robin order, up to LaneBudget from one lane before the next and   *)
(* up to FlushBudget altogether.  A running task may schedule more tasks.  *)
(*                                                                         *)
(* With laneMode "single" there is one queue and no rotation.              *)
(*                                                                         *)
(* The number of schedule() calls is bounded by MaxTasks; tasks are named  *)
(* by the order of those calls.                                            *)
(***************************************************************************)
EXTENDS Integers, FiniteSets, SequencesExt

CONSTANTS Keys,            \* lane keys that tags of callers infer to
          Overflow,        \* the lane that takes callers past MaxLanes
          LaneModes,       \* the lane modes to start from: "fair", "single"
          LaneCapacity,    \* slots of a lane's ring buffer, a power of two
          LaneBudget, FlushBudget, MicroThreshold, MaxLanes,
          MaxTasks         \* bound of the model: calls to schedule()

ASSUME SchedulerAssumption ==
  /\ IsFiniteSet(Keys) /\ Overflow \notin Keys
  /\ LaneModes \subseteq {"fair", "single"}
  /\ LaneCapacity \in Nat \ {0} /\ LaneBudget \in Nat \ {0} /\ FlushBudget \in Nat \ {0}
  /\ MicroThreshold \in Nat /\ MaxLanes \in Nat \ {0} /\ MaxTasks \in Nat

VARIABLES
  laneMode,      \* an option of the constructor
  queues,        \* the ring buffer of each lane
  laneOrder,     \* the lanes created so far, in order
  rrIndex,       \* position in laneOrder the next rotation looks at first
  rrRemaining,   \* what is left of the slice of the lane before rrIndex
  totalLength,   \* the scheduler's own count of queued tasks
  flushing, scheduled,
  micro, macro,  \* flush callbacks the host holds, in either queue
  ran,           \* tasks taken by the flush in progress
  running,       \* the task that runs now, or 0
  enqueued,      \* calls to schedule() so far: the name of the last task
  accepted,      \* tasks whose schedule() answered "accepted"
  executed,      \* tasks that returned (or threw, which is caught)
  lastRun,       \* history: the last task taken from each lane
  overtaken,     \* history: tasks of other lanes taken while this lane waited
  sinceYield     \* history: tasks taken since the host could run something else

laneVars == <<queues, laneOrder, totalLength>>
turnVars == <<rrIndex, rrRemaining>>
hostVars == <<micro, macro, scheduled>>
callVars == <<enqueued, accepted>>
history == <<lastRun, overtaken>>
vars == <<laneMode, laneVars, turnVars, hostVars, callVars, history,
          flushing, ran, running, executed, sinceYield>>

Single == Overflow       \* laneMode "single" has this one queue
Lanes == Keys \cup {Overflow}
Tasks == 1..MaxTasks
Queued == {t \in Tasks : \E l \in Lanes : t \in ToSet(queues[l])}
IdleLane(l) == queues[l] = <<>>
Created(l) == l \in ToSet(laneOrder)

Init ==
  /\ laneMode \in LaneModes
  /\ queues = [l \in Lanes |-> <<>>] /\ totalLength = 0
  /\ laneOrder = IF laneMode = "single" THEN <<Single>> ELSE <<>>
  /\ rrIndex = 0 /\ rrRemaining = 0
  /\ flushing = FALSE /\ scheduled = FALSE /\ micro = 0 /\ macro = 0
  /\ ran = 0 /\ running = 0 /\ enqueued = 0 /\ accepted = {} /\ executed = {}
  /\ lastRun = [l \in Lanes |-> 0] /\ overtaken = [l \in Lanes |-> 0] /\ sinceYield = 0

-----------------------------------------------------------------------------
(* Scheduling a task *)

\* The lane of a key: its own, one made for it, or the overflow lane.
LaneFor(key) ==
  IF laneMode = "single" THEN Single
  ELSE IF Created(key) \/ Len(laneOrder) < MaxLanes THEN key ELSE Overflow

\* Ask the host for a flush; the longer queue is worth a macrotask.
RequestFlush(yields) ==
  /\ micro' = IF yields THEN micro ELSE micro + 1
  /\ macro' = IF yields THEN macro + 1 ELSE macro

\* Mutant: a wake-up that ignores the request already made.
MutWakeTwice(len) ==
  IF ~flushing /\ len > 0
  THEN scheduled' = TRUE /\ RequestFlush(len > MicroThreshold)
  ELSE UNCHANGED hostVars

\* The end of schedule(), whether it accepted or dropped: make sure that what
\* is queued will be flushed, once.
Wake(len) ==
  IF ~flushing /\ ~scheduled /\ len > 0
  THEN scheduled' = TRUE /\ RequestFlush(len > MicroThreshold)
  ELSE UNCHANGED hostVars

\* A full ring buffer drops the new task, and schedule() answers "dropped".
Push(lane, task) ==
  \/ /\ Len(queues[lane]) >= LaneCapacity
     /\ UNCHANGED <<queues, totalLength, accepted>>
  \/ /\ Len(queues[lane]) < LaneCapacity
     /\ queues' = [queues EXCEPT ![lane] = Append(@, task)]
     /\ totalLength' = totalLength + 1
     /\ accepted' = accepted \cup {task}

\* schedule(task, tag): by the running task, or by code outside a flush.
Schedule(key) ==
  LET lane == LaneFor(key)
      task == enqueued + 1
  IN /\ enqueued < MaxTasks
     /\ flushing => running # 0
     /\ enqueued' = task
     /\ laneOrder' = IF Created(lane) THEN laneOrder ELSE Append(laneOrder, lane)
     /\ Push(lane, task)
     /\ Wake(totalLength')
     /\ sinceYield' = IF flushing \/ scheduled THEN sinceYield ELSE 0
     /\ UNCHANGED <<turnVars, history, flushing, ran, running, executed>>

-----------------------------------------------------------------------------
(* Flushing *)

\* The host runs the flush callback; microtasks go before macrotasks.
BeginFlush(fromMicro) ==
  /\ running = 0
  /\ IF fromMicro
     THEN micro > 0 /\ micro' = micro - 1 /\ UNCHANGED <<macro, sinceYield>>
     ELSE micro = 0 /\ macro > 0 /\ macro' = macro - 1 /\ sinceYield' = 0 /\ UNCHANGED micro
  /\ ~flushing
  /\ flushing' = TRUE /\ scheduled' = FALSE /\ ran' = 0
  /\ UNCHANGED <<laneVars, turnVars, callVars, history, running, executed>>

InFlush == flushing /\ running = 0

\* RingBuffer.shift() and the scheduler's count.
Shift(lane) ==
  /\ running' = Head(queues[lane])
  /\ queues' = [queues EXCEPT ![lane] = Tail(@)]
  /\ totalLength' = totalLength - 1

\* Take the oldest task of a lane, and run it.
TakeFrom(lane) ==
  /\ Shift(lane)
  /\ ran' = ran + 1 /\ sinceYield' = sinceYield + 1
  /\ lastRun' = [lastRun EXCEPT ![lane] = running']
  /\ overtaken' = [l \in Lanes |-> IF l = lane \/ IdleLane(l) THEN 0 ELSE overtaken[l] + 1]
  /\ UNCHANGED <<laneOrder, hostVars, callVars, flushing, executed>>

\* The lane s places after rrIndex, and the one whose slice is not used up:
\* the lane before rrIndex, in the lane list as it is now.
LaneAt(s) == laneOrder[((rrIndex + s) % Len(laneOrder)) + 1]
CurrentLane == LaneAt(Len(laneOrder) - 1)
SliceLeft == rrRemaining > 0 /\ ~IdleLane(CurrentLane)
FirstBusy(s) == ~IdleLane(LaneAt(s)) /\ \A r \in 0..(s - 1) : IdleLane(LaneAt(r))

\* Mutant: a rotation that starts again from the lane it has just served.
MutRotateStaysPut(s) ==
  /\ rrRemaining' = LaneBudget - 1
  /\ rrIndex' = (rrIndex + s) % Len(laneOrder)

\* The rotation gives the turn to the lane s places on.
RotateTo(s) ==
  /\ rrRemaining' = LaneBudget - 1
  /\ rrIndex' = (rrIndex + s + 1) % Len(laneOrder)

\* shiftFromNextLane(): the rest of the current slice, else the next busy lane.
ContinueSlice ==
  /\ InFlush /\ laneMode = "fair" /\ ran < FlushBudget
  /\ laneOrder # <<>> /\ SliceLeft
  /\ TakeFrom(CurrentLane)
  /\ rrRemaining' = rrRemaining - 1 /\ UNCHANGED rrIndex

NextLane ==
  /\ InFlush /\ laneMode = "fair" /\ ran < FlushBudget
  /\ laneOrder # <<>> /\ ~SliceLeft
  /\ \E s \in 0..(Len(laneOrder) - 1) : FirstBusy(s) /\ TakeFrom(LaneAt(s)) /\ RotateTo(s)

\* laneMode "single": one queue, taken from its head.
TakeSingle ==
  /\ InFlush /\ laneMode = "single" /\ ran < FlushBudget
  /\ ~IdleLane(Single) /\ TakeFrom(Single)
  /\ UNCHANGED turnVars

\* The task returns, or throws and the scheduler logs it.
TaskEnds ==
  /\ running # 0
  /\ executed' = executed \cup {running} /\ running' = 0
  /\ UNCHANGED <<laneVars, turnVars, hostVars, callVars, history, flushing, ran, sinceYield>>

\* Mutants: a flush that leaves without asking for another, and one that asks
\* for a microtask although its budget is spent.
MutRequestRestNever == UNCHANGED hostVars
MutRequestRestInMicrotask ==
  IF totalLength > 0 /\ ~scheduled
  THEN scheduled' = TRUE /\ RequestFlush(totalLength > MicroThreshold)
  ELSE UNCHANGED hostVars

\* The end of the flush asks for another one when tasks are left.
RequestRest ==
  IF totalLength > 0 /\ ~scheduled
  THEN scheduled' = TRUE /\ RequestFlush(ran >= FlushBudget \/ totalLength > MicroThreshold)
  ELSE UNCHANGED hostVars

\* The budget is spent, or no lane has a task; a rotation that found nothing
\* has given up the current slice.
EndFlush ==
  /\ InFlush
  /\ ran >= FlushBudget \/ (\A i \in 1..Len(laneOrder) : IdleLane(laneOrder[i]))
  /\ flushing' = FALSE
  /\ RequestRest
  /\ rrRemaining' = IF ran >= FlushBudget THEN rrRemaining ELSE 0
  /\ UNCHANGED <<laneVars, rrIndex, callVars, history, ran, running, executed, sinceYield>>

-----------------------------------------------------------------------------
Take == ContinueSlice \/ NextLane \/ TakeSingle
Flush == (\E fromMicro \in BOOLEAN : BeginFlush(fromMicro)) \/ Take \/ TaskEnds \/ EndFlush
Stopped == micro + macro = 0 /\ ~flushing /\ enqueued = MaxTasks /\ UNCHANGED vars

Next == \/ ((\E key \in Keys : Schedule(key)) \/ Flush) /\ UNCHANGED laneMode
        \/ Stopped

Spec == Init /\ [][Next]_vars

\* The host runs the callbacks it holds, a flush is a loop that goes on, and a
\* task returns: nothing is assumed of those who call schedule().
FairSpec == Spec /\ WF_vars(Flush /\ UNCHANGED laneMode)

-----------------------------------------------------------------------------
(* Properties *)

TypeOK ==
  /\ laneMode \in LaneModes
  /\ queues \in [Lanes -> Seq(Tasks)]
  /\ laneOrder \in Seq(Lanes) /\ Len(laneOrder) <= MaxLanes + 1
  /\ rrIndex \in Nat /\ rrRemaining \in 0..(LaneBudget - 1) /\ totalLength \in 0..MaxTasks
  /\ flushing \in BOOLEAN /\ scheduled \in BOOLEAN /\ micro \in Nat /\ macro \in Nat
  /\ ran \in 0..FlushBudget /\ running \in 0..MaxTasks /\ enqueued \in 0..MaxTasks
  /\ accepted \subseteq Tasks /\ executed \subseteq Tasks
  /\ lastRun \in [Lanes -> 0..MaxTasks] /\ overtaken \in [Lanes -> Nat] /\ sinceYield \in Nat

\* A queued task is never forgotten: a flush is in progress or the host holds
\* the callback of one (schedule() and the end of a flush share two flags).
NoLostFlush == Queued # {} => flushing \/ micro + macro > 0

\* The host never holds two flush callbacks, and it holds one exactly when the
\* `scheduled' flag says so: no wake-up is lost to a stale flag, none is wasted.
OneFlush == micro + macro = IF scheduled THEN 1 ELSE 0

\* Both together: a flush whenever one is needed, and never a second one.
FlushWhenNeeded == NoLostFlush /\ OneFlush

\* totalLength, kept by hand on five paths, is the number of queued tasks.
LengthIsExact == totalLength = Cardinality(Queued)

\* An accepted task is queued, running or done, and only one of these; a
\* dropped one is never run.
AcceptedOnce ==
  /\ accepted = Queued \cup executed \cup ({running} \ {0})
  /\ Queued \cap executed = {} /\ running \notin Queued \cup executed

\* Tasks of a lane run in the order schedule() accepted them, across flushes,
\* rotations and changes of the lane list.
LaneOrder ==
  \A l \in Lanes : \A i \in 1..Len(queues[l]) :
    /\ queues[l][i] > lastRun[l]
    /\ \A j \in 1..(i - 1) : queues[l][j] < queues[l][i]

\* A waiting lane sees at most LaneBudget tasks of each other lane go before
\* its own, also when lanes are created while a slice is running.
BoundedOvertaking ==
  \A l \in {k \in Lanes : Created(k)} : overtaken[l] <= LaneBudget * (Len(laneOrder) - 1)

\* The lanes are fair and lose nothing: each accepted task is in one place, in the
\* order of its lane, and no lane is starved by the others.
LanesFair == AcceptedOnce /\ LaneOrder /\ BoundedOvertaking

\* The host gets its turn after at most FlushBudget tasks: a flush that leaves
\* work behind continues in a macrotask, never in a microtask.
YieldsToHost == sinceYield <= FlushBudget

\* Every accepted task runs.
EveryTaskRuns == \A t \in Tasks : t \in accepted ~> t \in executed
-----------------------------------------------------------------------------
(* The inductive invariant of SchedulerProofs *)

\* The cap on lanes: only the overflow lane is made past MaxLanes.
LanesCapped ==
  /\ Len(laneOrder) <= MaxLanes \/ Created(Overflow)
  /\ laneMode = "single" => Created(Single)

\* No task waits twice, none waits in a lane that the rotation does not visit.
QueuedOnce ==
  \A l \in Lanes :
    /\ IsInjective(queues[l])
    /\ \A t \in ToSet(queues[l]) : t <= enqueued
    /\ ~Created(l) => queues[l] = <<>>
    /\ \A m \in Lanes \ {l} : ToSet(queues[l]) \cap ToSet(queues[m]) = {}

\* Which flags a flush can meet, and what the host has seen since its turn.
FlushFlags ==
  /\ flushing => ~scheduled
  /\ totalLength > 0 => flushing \/ scheduled
  /\ running # 0 => flushing
  /\ flushing => sinceYield = ran
  /\ micro > 0 => sinceYield = 0
  /\ sinceYield <= FlushBudget

IInv == TypeOK /\ LanesCapped /\ QueuedOnce /\ LengthIsExact /\ OneFlush /\ FlushFlags

\* Every task the scheduler has seen was handed to schedule().
TasksNumbered ==
  /\ executed \subseteq 1..enqueued /\ running <= enqueued
  /\ \A l \in Lanes : lastRun[l] <= enqueued

\* How many lanes the rotation looks at before the i-th; the current one is last.
TurnsBefore(i) == IF i > rrIndex THEN i - 1 - rrIndex ELSE i - 1 - rrIndex + Len(laneOrder)

\* What a waiting lane has seen go, together with what the lanes before it may
\* still take, is at most a slice of each other lane.
WaitIsBounded(i) ==
  LET behind == Len(laneOrder) - 1
  IN IF TurnsBefore(i) = behind THEN overtaken[laneOrder[i]] = 0
     ELSE overtaken[laneOrder[i]] + LaneBudget * TurnsBefore(i) + rrRemaining <= LaneBudget * behind

RotationFair ==
  /\ IsInjective(laneOrder)
  /\ rrIndex = 0 \/ rrIndex < Len(laneOrder)
  /\ laneMode = "single" => laneOrder = <<Single>>
  /\ \A l \in Lanes : IdleLane(l) => overtaken[l] = 0
  /\ \A i \in 1..Len(laneOrder) : WaitIsBounded(i)

\* Inductive together with IInv, and what LanesFair follows from.
FairInv == AcceptedOnce /\ LaneOrder /\ TasksNumbered /\ RotationFair
=============================================================================
