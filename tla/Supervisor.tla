----------------------------- MODULE Supervisor -----------------------------
(***************************************************************************)
(* A supervisor and its children (core/runtime/supervisor.ts): restarts by *)
(* timer within a budget, all-for-one restarts, escalation, interrupts of  *)
(* single children, shutdown().                                            *)
(*                                                                         *)
(* A child is a record:                                                    *)
(*   current   its fiber: "none", "running", "stopping" (interrupted and   *)
(*             not ended)                                                  *)
(*   planned   plannedRestart; timer: a restart timer is set               *)
(*   status, terminal   what status() shows, terminalExit                  *)
(*   times     restartTimes                                                *)
(*   joined    the callback of join(): "no", "waiting", or what it heard   *)
(*   launches, decided   history: fibers forked, times of all restarts     *)
(* `config` is what the constructor was given.  remaining[s] and waits[s]  *)
(* are the local state of the call s of shutdown().  A delay, whatever the *)
(* policy or schedule says, is a timer that fires some time later.         *)
(*                                                                         *)
(* RuntimeFiber.interrupt() only schedules the end of a fiber.  The fiber  *)
(* of the WebAssembly engine ends inside interrupt(): SyncInterrupt.       *)
(***************************************************************************)
EXTENDS Integers, Sequences, FiniteSets

CONSTANTS Children,       \* what start() is called with
          Callers,        \* calls of shutdown()
          Strategies,     \* the strategies tried
          MaxRestarts, WithinMs,
          SyncInterrupt,
          MaxTime         \* bound of the clock

Kinds == {"one-for-one", "all-for-one"}
ASSUME SupervisorAssumption ==
  /\ IsFiniteSet(Children)
  /\ MaxRestarts \in Nat /\ WithinMs \in Nat /\ MaxTime \in Nat
  /\ Strategies \subseteq Kinds /\ SyncInterrupt \in BOOLEAN
  /\ SyncInterrupt => Strategies = {"one-for-one"}

VARIABLES config, child, closed, remaining, waits, now
vars == <<config, child, closed, remaining, waits, now>>

Exits == {"success", "failure", "interrupt"}
StatusOf(exit) == CASE exit = "success" -> "succeeded"
                    [] exit = "failure" -> "failed"
                    [] exit = "interrupt" -> "interrupted"
Unstarted == [current |-> "none", planned |-> FALSE, timer |-> FALSE,
              status |-> "unstarted", terminal |-> "none", times |-> <<>>,
              joined |-> "no", launches |-> 0, decided |-> <<>>]
Started(r) == r.status # "unstarted"
Alive(r) == r.current # "none"
Ended(r) == r.terminal # "none"
Asked(s) == remaining[s] >= 0
Told(s) == remaining[s] = 0

Init ==
  /\ config \in [strategy : Strategies, escalation : {"ignore", "shutdown"},
                 mode : {"never", "always", "on-failure"}]
  /\ child = [c \in Children |-> Unstarted]
  /\ closed = FALSE
  /\ remaining = [s \in Callers |-> -1] /\ waits = [s \in Callers |-> {}]
  /\ now = 0

-----------------------------------------------------------------------------
Launched(r) == [r EXCEPT !.current = "running", !.status = "running",
                         !.planned = FALSE, !.terminal = "none",
                         !.launches = @ + 1]

Finished(r, exit) == [r EXCEPT !.status = StatusOf(exit), !.terminal = exit,
                               !.joined = IF @ = "waiting" THEN exit ELSE @]

Interrupted(r) ==
  CASE ~Alive(r) -> r
    [] Alive(r) /\ SyncInterrupt -> Finished([r EXCEPT !.current = "none"], "interrupt")
    [] OTHER -> [r EXCEPT !.current = "stopping"]

\* interrupt() of the child's handle, and what shutdown() does to each child.
\* Mutant: the restart timer is left running.
StoppedKeepsTimer(r) ==
  LET quiet == [r EXCEPT !.planned = FALSE]
  IN IF Alive(r) \/ Ended(r) THEN Interrupted(quiet) ELSE Finished(quiet, "interrupt")
Stopped(r) ==
  LET quiet == [r EXCEPT !.planned = FALSE, !.timer = FALSE]
  IN IF Alive(r) \/ Ended(r) THEN Interrupted(quiet) ELSE Finished(quiet, "interrupt")

ShouldRestart(exit) ==
  /\ exit # "interrupt"
  /\ config.mode = "always" \/ (config.mode = "on-failure" /\ exit = "failure")

\* restartTimes.filter(...): the times of the window, in their order.
InWindow(r) ==
  LET kept[i \in 0..Len(r.times)] ==
        IF i = 0 THEN <<>>
        ELSE IF r.times[i] >= now - WithinMs THEN Append(kept[i - 1], r.times[i])
        ELSE kept[i - 1]
  IN kept[Len(r.times)]

-----------------------------------------------------------------------------
\* restartAll: the others are interrupted, to be restarted when they have ended.
RestartAll(cs, failed) ==
  [c \in Children |->
     IF c = failed \/ ~Alive(cs[c]) THEN cs[c]
     ELSE Interrupted([cs[c] EXCEPT !.planned = TRUE, !.status = "restarting"])]

\* Mutant: the child that has used up its budget is not made final.
EscalateUnfinished(cs, failed, exit) ==
  [c \in Children |-> IF c = failed \/ config.escalation = "ignore" THEN cs[c]
                      ELSE Interrupted(cs[c])]
Escalate(cs, failed, exit) ==
  [c \in Children |->
     IF c = failed THEN Finished(cs[c], exit)
     ELSE IF config.escalation = "shutdown" THEN Interrupted(cs[c]) ELSE cs[c]]

Planned(r, recent) ==
  [r EXCEPT !.times = Append(recent, now), !.decided = Append(@, now),
            !.status = "restarting", !.timer = TRUE]

\* scheduleRestart with nextDelay: a timer, or escalation when the budget is used up.
\* Mutant: the budget is not checked.
ScheduleRestartForgets(cs, c, exit) ==
  [cs EXCEPT ![c].times = <<now>>, ![c].decided = Append(@, now),
             ![c].status = "restarting", ![c].timer = TRUE]
ScheduleRestart(cs, c, exit) ==
  LET recent == InWindow(cs[c])
      kept == [cs EXCEPT ![c].times = recent]
  IN IF Len(recent) >= MaxRestarts
     THEN Escalate(kept, c, exit)
     ELSE [cs EXCEPT ![c] = Planned(@, recent)]

\* onChildExit.
OnChildExit(c, exit) ==
  LET gone == [child EXCEPT ![c].current = "none"]
  IN CASE closed -> [gone EXCEPT ![c] = Finished(@, exit)]
       [] ~closed /\ child[c].planned -> ScheduleRestart(gone, c, exit)
       [] ~closed /\ ~child[c].planned /\ ~ShouldRestart(exit) ->
            [gone EXCEPT ![c] = Finished(@, exit)]
       [] OTHER ->
            ScheduleRestart(IF config.strategy = "all-for-one"
                            THEN RestartAll(gone, c) ELSE gone, c, exit)

-----------------------------------------------------------------------------
Start(c) ==
  /\ ~closed /\ ~Started(child[c])
  /\ child' = [child EXCEPT ![c] = Launched(@)]
  /\ UNCHANGED <<config, closed, remaining, waits, now>>

Join(c) ==
  /\ Started(child[c]) /\ child[c].joined = "no"
  /\ child' = [child EXCEPT ![c].joined =
                 IF Ended(child[c]) THEN child[c].terminal ELSE "waiting"]
  /\ UNCHANGED <<config, closed, remaining, waits, now>>

\* A fiber ends: the supervisor is its first observer, then the calls of
\* shutdown() that wait for it.
Exit(c, exit) ==
  /\ Alive(child[c])
  /\ child' = OnChildExit(c, exit)
  /\ remaining' = [s \in Callers |->
                     IF c \in waits[s] THEN remaining[s] - 1 ELSE remaining[s]]
  /\ waits' = [s \in Callers |-> waits[s] \ {c}]
  /\ UNCHANGED <<config, closed, now>>

TimerFires(c) ==
  /\ child[c].timer
  /\ child' = [child EXCEPT ![c] = IF closed THEN [@ EXCEPT !.timer = FALSE]
                                   ELSE Launched([@ EXCEPT !.timer = FALSE])]
  /\ UNCHANGED <<config, closed, remaining, waits, now>>

Interrupt(c) ==
  /\ Started(child[c])
  /\ child' = [child EXCEPT ![c] = Stopped(@)]
  /\ UNCHANGED <<config, closed, remaining, waits, now>>

\* shutdown(): remaining is counted before the loop that stops the children,
\* the joins are made after it.
\* Mutant: every child that was started is counted.
ShutdownCountsAll(s) ==
  /\ ~Asked(s)
  /\ closed' = TRUE
  /\ child' = [c \in Children |-> IF Started(child[c]) THEN Stopped(child[c]) ELSE child[c]]
  /\ remaining' = [remaining EXCEPT ![s] = Cardinality({c \in Children : Started(child[c])})]
  /\ waits' = [waits EXCEPT ![s] = {c \in Children : Alive(child'[c])}]
  /\ UNCHANGED <<config, now>>
Shutdown(s) ==
  /\ ~Asked(s)
  /\ closed' = TRUE
  /\ child' = [c \in Children |->
       CASE ~Started(child[c]) -> child[c]
         [] Alive(child[c]) -> Stopped([child[c] EXCEPT !.status = "interrupted"])
         [] OTHER -> Stopped(child[c])]
  /\ remaining' = [remaining EXCEPT ![s] = Cardinality({c \in Children : Alive(child[c])})]
  /\ waits' = [waits EXCEPT ![s] = {c \in Children : Alive(child'[c])}]
  /\ UNCHANGED <<config, now>>

Tick == /\ now < MaxTime
        /\ now' = now + 1
        /\ UNCHANGED <<config, child, closed, remaining, waits>>

Next ==
  \/ \E c \in Children : Start(c)
  \/ \E c \in Children : Join(c)
  \/ \E c \in Children, exit \in Exits : Exit(c, exit)
  \/ \E c \in Children : TimerFires(c)
  \/ \E c \in Children : Interrupt(c)
  \/ \E s \in Callers : Shutdown(s)
  \/ Tick

\* An interrupted fiber ends (by the contract of Fiber) and timers fire; a
\* running child may run for ever.
Fairness ==
  /\ WF_vars(\E c \in Children : child[c].current = "stopping"
                                 /\ \E exit \in Exits : Exit(c, exit))
  /\ WF_vars(\E c \in Children : TimerFires(c))
Spec == Init /\ [][Next]_vars /\ Fairness

-----------------------------------------------------------------------------
(* Nothing is forgotten and nothing runs twice: a child that was started   *)
(* has a fiber, or a restart timer, or is final, and exactly one of them,  *)
(* and final is what its status says once no fiber is left.                *)
OneLife ==
  \A c \in Children :
    /\ Started(child[c]) => Alive(child[c]) \/ child[c].timer \/ Ended(child[c])
    /\ Alive(child[c]) => ~child[c].timer /\ ~Ended(child[c])
    /\ child[c].timer => ~Ended(child[c])
    /\ Ended(child[c]) => child[c].status = StatusOf(child[c].terminal)

(* A shutdown() that has answered leaves no fiber, no timer and nobody who *)
(* waits in join(); restarts that were under way are gone as well.         *)
ShutdownLeavesNothing ==
  \A s \in Callers : Told(s) =>
    \A c \in Children : /\ ~Alive(child[c]) /\ ~child[c].timer
                        /\ child[c].joined # "waiting"

(* Both: no child is left behind, by a restart or by a shutdown.           *)
NothingLeftOver == OneLife /\ ShutdownLeavesNothing

(* The budget holds for every window of the past, whatever was pruned from *)
(* the list of restart times: no more than MaxRestarts restarts in         *)
(* WithinMs.                                                               *)
BudgetKept ==
  \A c \in Children : \A t \in 0..MaxTime :
    Cardinality({i \in DOMAIN child[c].decided :
                   child[c].decided[i] \in (t - WithinMs)..t}) <= MaxRestarts

(* What join() was told stays true: a final child is never launched again, *)
(* and after shutdown() no child is.                                       *)
FinalIsFinal ==
  [][\A c \in Children :
       /\ Ended(child[c]) => child'[c].terminal = child[c].terminal
       /\ child'[c].launches > child[c].launches => ~Ended(child[c]) /\ ~closed]_vars

(* Every shutdown() is answered.                                           *)
ShutdownAnswered ==
  (\E s \in Callers : Asked(s)) ~> (\A s \in Callers : Asked(s) => Told(s))
-----------------------------------------------------------------------------
(* The inductive invariant of BudgetKept in SupervisorProofs: the list of  *)
(* restart times is the end of the history, and what was pruned from it    *)
(* has left the window for good.                                           *)
Pruned(r) == Len(r.decided) - Len(r.times)

TimesOK(r, at) ==
  /\ r.times \in Seq(Nat) /\ r.decided \in Seq(Nat)
  /\ Len(r.times) <= MaxRestarts /\ Pruned(r) \in Nat
  /\ \A i \in 1..Len(r.times) : r.times[i] = r.decided[i + Pruned(r)]
  /\ \A i \in 1..Pruned(r) : r.decided[i] < at - WithinMs
  /\ \A i \in 1..Len(r.decided) : r.decided[i] <= at
  /\ \A i, j \in 1..Len(r.decided) : i <= j => r.decided[i] <= r.decided[j]

BudgetInv == now \in Nat /\ (\A c \in Children : TimesOK(child[c], now)) /\ BudgetKept
=============================================================================
