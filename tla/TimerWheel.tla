----------------------------- MODULE TimerWheel -----------------------------
(***************************************************************************)
(* The timer wheel of http/timerWheel.ts, behind the timeouts of the HTTP  *)
(* client: entries in doubly linked lists, one per slot of the wheel and   *)
(* one for short timeouts, two chains of host timers that turn the wheel   *)
(* and look through the short list, and callbacks that schedule, cancel    *)
(* and destroy while a tick goes through a list.                           *)
(*                                                                         *)
(* The state `w' holds the fields of the class, and operators map it to    *)
(* its next value, so that a callback is one more operator applied in the  *)
(* middle of a tick.  Time is relative: what is left until a deadline, or  *)
(* until a host timer is due; both go below zero when late.                *)
(*                                                                         *)
(* Bounds: every entry is scheduled once; a callback makes at most one     *)
(* call; at most one host timer per entry and track and one more; lateness *)
(* is not counted beyond Forever.                                          *)
(***************************************************************************)
EXTENDS Integers, FiniteSets

CONSTANTS Entries,
          None,
          Slots,           \* a power of two
          TickMs, FineTickMs,
          FineThreshold,   \* timeouts up to this go to the short list
          Timeouts,        \* what schedule() is called with
          Lag              \* how late the host may run a timer

ASSUME WheelAssumption ==
  /\ Slots \in Nat \ {0} /\ TickMs \in Nat \ {0} /\ FineTickMs \in Nat \ {0}
  /\ Timeouts \subseteq Nat \ {0} /\ FineThreshold \in Nat /\ Lag \in Nat
  /\ None \notin Entries /\ None \notin Int /\ IsFiniteSet(Entries)

Tracks == {"wheel", "fine"}
Fine == -1                                   \* the slot of the short list
Lists == (0..Slots - 1) \cup {Fine}
HostTimers == 1..Cardinality(Entries) + 1    \* what setTimeout() may return
NoTimer == 0
Period == [tr \in Tracks |-> IF tr = "wheel" THEN TickMs ELSE FineTickMs]
TrackOf(slot) == IF slot = Fine THEN "fine" ELSE "wheel"
Turns == [tr \in Tracks |-> IF tr = "wheel" THEN Slots ELSE 1]
Rotation == [tr \in Tracks |-> Turns[tr] * (Period[tr] + Lag)]
Forever == Rotation["wheel"] + 2 * (TickMs + Lag)     \* later than this is not counted

VARIABLES
  w,          \* the wheel: see WheelType
  loop,       \* the tick that is running: its track and its variable `entry'
  disturbed   \* history: a callback cancelled the entry its loop had saved, alone or
              \* with the whole wheel

wheelVars == <<w, loop, disturbed>>

NoLoop == [track |-> "none", entry |-> None]
Later(S) == S \cup {None}
WheelType ==
  [head : [Lists -> Later(Entries)],              \* wheel[], fineHead
   next : [Entries -> Later(Entries)], prev : [Entries -> Later(Entries)],
   slot : [Entries -> Lists],
   status : [Entries -> {"new", "pending", "fired", "cancelled"}],
   left : [Entries -> Int],                       \* until the deadline
   tick : 0..Slots - 1,                           \* currentTick
   pending : [Tracks -> 0..Cardinality(Entries)], \* pending, finePending
   handle : [Tracks -> HostTimers \cup {NoTimer}],\* timer, fineTimer
   due : [Tracks -> [HostTimers -> Later(-Lag..TickMs + FineTickMs)]]]

WheelInit ==
  /\ w = [head |-> [l \in Lists |-> None],
          next |-> [e \in Entries |-> None], prev |-> [e \in Entries |-> None],
          slot |-> [e \in Entries |-> Fine], status |-> [e \in Entries |-> "new"],
          left |-> [e \in Entries |-> 0], tick |-> 0,
          pending |-> [tr \in Tracks |-> 0], handle |-> [tr \in Tracks |-> NoTimer],
          due |-> [tr \in Tracks |-> [i \in HostTimers |-> None]]]
  /\ loop = NoLoop /\ disturbed = FALSE

-----------------------------------------------------------------------------
(* Host timers *)

Unset(v, tr) == {i \in HostTimers : v.due[tr][i] = None}
SetTimer(v, tr) ==
  LET i == CHOOSE j \in Unset(v, tr) : \A k \in Unset(v, tr) : j <= k
  IN [v EXCEPT !.due[tr][i] = Period[tr], !.handle[tr] = i]
EnsureTimer(v, tr) ==
  IF v.handle[tr] = NoTimer /\ v.pending[tr] > 0 THEN SetTimer(v, tr) ELSE v
ClearTimer(v, tr) ==
  IF v.handle[tr] = NoTimer THEN v
  ELSE [v EXCEPT !.due[tr][v.handle[tr]] = None, !.handle[tr] = NoTimer]
MaybeStopTimer(v, tr) == IF v.pending[tr] = 0 THEN ClearTimer(v, tr) ELSE v

-----------------------------------------------------------------------------
(* Lists *)

Link(v, e, l) ==
  LET first == v.head[l]
  IN [v EXCEPT !.head[l] = e, !.slot[e] = l,
               !.next = [@ EXCEPT ![e] = first],
               !.prev = [x \in Entries |-> IF x = first THEN e ELSE @[x]]]

\* An entry without a predecessor is taken for the head of its list, also when
\* it has been unlinked before.
Unlink(v, e) ==
  LET p == v.prev[e]
      n == v.next[e]
  IN [v EXCEPT !.head = [l \in Lists |-> IF p = None /\ l = v.slot[e] THEN n ELSE @[l]],
               !.next = [x \in Entries |-> CASE x = e -> None [] x = p -> n [] OTHER -> @[x]],
               !.prev = [x \in Entries |-> CASE x = e -> None [] x = n -> p [] OTHER -> @[x]]]

\* The entries a walk along `next' finds.
Found(v, l) ==
  LET walk[i \in 0..Cardinality(Entries)] ==
        IF i = 0 THEN {v.head[l]} ELSE walk[i - 1] \cup {v.next[x] : x \in walk[i - 1] \ {None}}
  IN walk[Cardinality(Entries)] \ {None}

-----------------------------------------------------------------------------
(* Operations *)

\* Math.ceil(timeoutMs / tickMs) ticks from now, whenever the present one began.
SlotFor(v, timeout) == (v.tick + ((timeout + TickMs - 1) \div TickMs)) % Slots

Scheduled(v, e, timeout) ==
  LET l == IF timeout <= FineThreshold THEN Fine ELSE SlotFor(v, timeout)
      linked == Link(v, e, l)
  IN EnsureTimer([linked EXCEPT !.status[e] = "pending", !.left[e] = timeout,
                                !.pending[TrackOf(l)] = @ + 1], TrackOf(l))

Off(v, e, status) ==
  [Unlink(v, e) EXCEPT !.status[e] = status, !.pending[TrackOf(v.slot[e])] = @ - 1]

\* Mutant: the flag is set but the entry stays in its list.
CancelledInPlace(v, e) ==
  MaybeStopTimer([v EXCEPT !.status[e] = "cancelled", !.pending[TrackOf(v.slot[e])] = @ - 1],
                 TrackOf(v.slot[e]))
Cancelled(v, e) == MaybeStopTimer(Off(v, e, "cancelled"), TrackOf(v.slot[e]))

Destroyed(v) ==
  LET found == UNION {Found(v, l) : l \in Lists}
  IN ClearTimer(ClearTimer(
       [v EXCEPT !.head = [l \in Lists |-> None],
                 !.next = [x \in Entries |-> IF x \in found THEN None ELSE @[x]],
                 !.prev = [x \in Entries |-> IF x \in found THEN None ELSE @[x]],
                 !.status = [x \in Entries |-> IF x \in found THEN "cancelled" ELSE @[x]],
                 !.pending = [tr \in Tracks |-> 0]], "wheel"), "fine")

\* One call of the class, or none.
WheelCalls(v) ==
  {v} \cup {Scheduled(v, e, t) : e \in {x \in Entries : v.status[x] = "new"}, t \in Timeouts}
      \cup {Cancelled(v, e) : e \in {x \in Entries : v.status[x] = "pending"}}
      \cup {Destroyed(v)}

-----------------------------------------------------------------------------
(* Steps *)

\* The user of the wheel calls it, outside of a tick.
UserCalls ==
  /\ loop = NoLoop
  /\ w' \in WheelCalls(w) \ {w}
  /\ UNCHANGED <<loop, disturbed>>

\* tick(), fineTick(): a host timer that is due begins a turn.
BeginTick(tr, i) ==
  /\ loop = NoLoop /\ w.due[tr][i] # None /\ w.due[tr][i] <= 0
  /\ w' = [w EXCEPT !.due[tr][i] = None, !.handle[tr] = NoTimer,
                    !.tick = IF tr = "wheel" THEN (@ + 1) % Slots ELSE @]
  /\ loop' = [track |-> tr, entry |-> w.head[IF tr = "wheel" THEN w'.tick ELSE Fine]]
  /\ UNCHANGED disturbed

\* One round of its loop, which reads `next' first: an entry that is due is
\* unlinked and its callback called, which may call the wheel.
Round ==
  LET e == loop.entry
      saved == w.next[e]
  IN /\ loop # NoLoop /\ e # None
     /\ loop' = [loop EXCEPT !.entry = saved]
     /\ \/ /\ w.left[e] > 0
           /\ UNCHANGED <<w, disturbed>>
        \/ /\ w.left[e] <= 0 /\ w.status[e] # "pending"
           /\ w' = Unlink(w, e) /\ UNCHANGED disturbed
        \/ /\ w.left[e] <= 0 /\ w.status[e] = "pending"
           /\ w' \in WheelCalls(Off(w, e, "fired"))
           /\ disturbed' = (disturbed \/ (saved # None /\ w'.status[saved] = "cancelled"))

\* Mutant: no further tick is asked for.
EndTickOnce ==
  /\ loop # NoLoop /\ loop.entry = None
  /\ w' = w
  /\ loop' = NoLoop
  /\ UNCHANGED disturbed
EndTick ==
  /\ loop # NoLoop /\ loop.entry = None
  /\ w' = IF w.pending[loop.track] > 0 THEN SetTimer(w, loop.track) ELSE w
  /\ loop' = NoLoop
  /\ UNCHANGED disturbed

\* Time goes by, but no host timer is held up for longer than Lag.
Advance ==
  /\ loop = NoLoop
  /\ \A tr \in Tracks, i \in HostTimers : w.due[tr][i] # None => w.due[tr][i] > -Lag
  /\ w' = [w EXCEPT
             !.left = [e \in Entries |-> IF w.status[e] # "pending" THEN 0
                                         ELSE IF @[e] > -Forever THEN @[e] - 1 ELSE @[e]],
             !.due = [tr \in Tracks |-> [i \in HostTimers |->
                        IF @[tr][i] = None THEN None ELSE @[tr][i] - 1]]]
  /\ UNCHANGED <<loop, disturbed>>

WheelNext ==
  \/ UserCalls \/ Round \/ EndTick \/ Advance
  \/ \E tr \in Tracks, i \in HostTimers : BeginTick(tr, i)

WheelSpec == WheelInit /\ [][WheelNext]_wheelVars

-----------------------------------------------------------------------------
(* Properties *)

Pending(tr) == {e \in Entries : w.status[e] = "pending" /\ TrackOf(w.slot[e]) = tr}

\* The counters are those of the entries that have neither fired nor been
\* cancelled, and as long as there are such a tick is running or will come.
TicksCome ==
  \A tr \in Tracks :
    /\ w.pending[tr] = Cardinality(Pending(tr))
    /\ Pending(tr) # {} => loop.track = tr \/ \E i \in HostTimers : w.due[tr][i] # None

\* A walk along the lists finds exactly these entries, both ways.
ListsIntact ==
  /\ \A l \in Lists : Found(w, l) = {e \in Entries : w.status[e] = "pending" /\ w.slot[e] = l}
  /\ \A e \in Entries : w.status[e] = "pending" =>
       IF w.prev[e] = None THEN w.head[w.slot[e]] = e ELSE w.next[w.prev[e]] = e

(* No timeout is lost: whatever is scheduled, cancelled and destroyed, also  *)
(* by callbacks in the middle of a tick, what is pending is counted, linked  *)
(* and visited, unless a callback cancelled the entry its loop goes to next. *)
NothingLost == disturbed \/ (w \in WheelType /\ TicksCome /\ ListsIntact)

(* A timeout is less than one rotation late, a short one less than one tick: *)
(* the slot may be reached before the deadline, when the timeout began in    *)
(* the middle of a tick or a second chain of ticks turns the wheel, and the  *)
(* entry is then left for the next time round.                               *)
AtMostARotationLate ==
  disturbed \/ \A e \in Entries : w.status[e] = "pending" =>
    w.left[e] > -Rotation[TrackOf(w.slot[e])]

\* The inductive invariant: what an operator keeps of the wheel v, in a tick of
\* the track `running' ("none" outside of a tick) that goes to the entry x next and has
\* the entries R still before it.
OnList(v, l) == {e \in Entries : v.status[e] = "pending" /\ v.slot[e] = l}
OnTrack(v, tr) == {e \in Entries : v.status[e] = "pending" /\ TrackOf(v.slot[e]) = tr}
Begun(v, tr) == {e \in Entries : v.status[e] # "new" /\ TrackOf(v.slot[e]) = tr}
TimersSet(v, tr) == {i \in HostTimers : v.due[tr][i] # None}

\* Each pending entry and its neighbours point to each other, those off the lists
\* point nowhere, and the lists have no circle.
LinksOK(v) ==
  /\ \A l \in Lists :
       /\ v.head[l] \in Later(OnList(v, l))
       /\ v.head[l] # None => v.prev[v.head[l]] = None
  /\ \A e \in Entries :
       IF v.status[e] = "pending"
       THEN /\ v.next[e] \in Later(OnList(v, v.slot[e]))
            /\ v.prev[e] \in Later(OnList(v, v.slot[e]))
            /\ v.next[e] # None => v.prev[v.next[e]] = e
            /\ IF v.prev[e] = None THEN v.head[v.slot[e]] = e ELSE v.next[v.prev[e]] = e
       ELSE v.next[e] = None /\ v.prev[e] = None
  /\ \A S \in SUBSET {e \in Entries : v.status[e] = "pending"} :
       S # {} => \E e \in S : v.prev[e] \notin S

\* The host timers: the one known by its handle is set, and there are no more than
\* entries that ever asked for one.
TimersOK(v, running) ==
  \A tr \in Tracks :
    /\ v.pending[tr] = Cardinality(OnTrack(v, tr))
    /\ v.handle[tr] # NoTimer => v.due[tr][v.handle[tr]] # None
    /\ \A i \in TimersSet(v, tr) : v.due[tr][i] <= Period[tr]
    /\ Cardinality(TimersSet(v, tr)) + (IF running = tr THEN 1 ELSE 0)
         <= Cardinality(Begun(v, tr))

\* The rest of the list the tick goes through.
RestOK(v, running, x, R) ==
  /\ R \subseteq (IF running = "none" THEN {}
                  ELSE OnList(v, IF running = "wheel" THEN v.tick ELSE Fine))
  /\ IF x = None THEN R = {} ELSE x \in R /\ v.prev[x] \notin R
  /\ \A e \in R : v.next[e] \in Later(R) /\ (e # x => v.prev[e] \in R)

\* How long d ticks before its turn an entry may be late.
TicksTo(v, l) == IF l = Fine THEN 1 ELSE IF l > v.tick THEN l - v.tick ELSE l - v.tick + Slots
Slack(tr, d) == (Turns[tr] - d) * (Period[tr] + Lag)
LateOK(v, running, R) ==
  \A tr \in Tracks : \A e \in OnTrack(v, tr) :
    IF running = tr
    THEN v.left[e] > -Slack(tr, IF e \in R THEN 0 ELSE TicksTo(v, v.slot[e]))
    ELSE \E i \in TimersSet(v, tr) :
           v.left[e] > v.due[tr][i] + Lag - Slack(tr, TicksTo(v, v.slot[e]) - 1)

WheelOK(v, running, x, R) ==
  /\ v \in WheelType
  /\ LinksOK(v) /\ TimersOK(v, running) /\ RestOK(v, running, x, R) /\ LateOK(v, running, R)
WheelInv ==
  disturbed \/ /\ loop \in [track : Tracks \cup {"none"}, entry : Later(Entries)]
               /\ \E R \in SUBSET Entries : WheelOK(w, loop.track, loop.entry, R)
=============================================================================
