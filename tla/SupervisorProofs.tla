-------------------------- MODULE SupervisorProofs --------------------------
(***************************************************************************)
(* Machine-checked proofs about Supervisor: for every finite set of        *)
(* children, every number of calls of shutdown(), every strategy, restart  *)
(* mode and budget, and for both ways in which a fiber can be interrupted, *)
(* no child is lost between a fiber, a restart timer and its end, and a    *)
(* shutdown() that has answered has left nothing behind; a child that has  *)
(* ended stays as it ended; no window of time holds more restarts of a     *)
(* child than its budget.                                                  *)
(*                                                                         *)
(* Then, in a part of its own that uses nothing of the supervisor, about   *)
(* Queue: for any producers and consumers, any capacity and strategy, and  *)
(* any number of values offered and taken, alone or in batches, nobody     *)
(* waits for what is there, no value is lost, handed out twice or reported *)
(* wrongly, and the first offered is the first taken.                      *)
(***************************************************************************)
EXTENDS Supervisor, Queue, QueueLemmas

-----------------------------------------------------------------------------
(* One child *)

Statuses == {"unstarted", "running", "restarting", "succeeded", "failed", "interrupted"}
Heard == {"no", "waiting"} \cup Exits
IsChild(r) ==
  r \in [current : {"none", "running", "stopping"}, planned : BOOLEAN, timer : BOOLEAN,
         status : Statuses, terminal : Exits \cup {"none"}, times : {r.times},
         joined : Heard, launches : {r.launches}, decided : {r.decided}]

\* A child in one of its lives: OneLife for it, and its join() is answered at
\* the end and not before.
LifeOK(r) ==
  /\ IsChild(r) /\ r.timer \in BOOLEAN
  /\ Started(r) => Alive(r) \/ r.timer \/ Ended(r)
  /\ Alive(r) => ~r.timer /\ ~Ended(r)
  /\ r.timer => ~Ended(r)
  /\ Ended(r) => r.status = StatusOf(r.terminal) /\ r.joined # "waiting"
  /\ ~Started(r) => ~Alive(r) /\ ~r.timer /\ ~Ended(r) /\ r.joined # "waiting"

\* Its fiber has ended, or its timer has fired, and what follows is not decided.
Between(r) == IsChild(r) /\ Started(r) /\ ~Alive(r) /\ r.timer = FALSE /\ ~Ended(r)

LEMMA StatusOfStarted ==
  \A exit \in Exits : StatusOf(exit) \in Statuses /\ StatusOf(exit) # "unstarted"
BY DEF Exits, StatusOf, Statuses

LEMMA FinishedLife ==
  ASSUME NEW r, Between(r), NEW exit \in Exits
  PROVE  /\ LifeOK(Finished(r, exit))
         /\ ~Alive(Finished(r, exit)) /\ ~Finished(r, exit).timer
<1> DEFINE q == Finished(r, exit)
<1>1. /\ IsChild(q) /\ q.current = r.current /\ q.timer = FALSE
      /\ q.status = StatusOf(exit) /\ q.terminal = exit /\ q.joined # "waiting"
  BY StatusOfStarted DEF Finished, Between, IsChild, Exits, Statuses, Heard
<1> HIDE DEF q
<1> QED
  BY <1>1, StatusOfStarted DEF Between, LifeOK, Started, Alive, Ended, Exits, q

LEMMA RestartingLife ==
  ASSUME NEW r, Between(r), NEW times, NEW decided
  PROVE  LifeOK([r EXCEPT !.times = times, !.decided = decided,
                          !.status = "restarting", !.timer = TRUE])
<1> DEFINE q == [r EXCEPT !.times = times, !.decided = decided,
                          !.status = "restarting", !.timer = TRUE]
<1>1. /\ q.current = r.current /\ q.timer = TRUE /\ q.times = times
      /\ q.decided = decided /\ q.launches = r.launches
      /\ q.status = "restarting" /\ q.terminal = r.terminal
      /\ q \in [current : {"none", "running", "stopping"}, planned : BOOLEAN,
               timer : BOOLEAN, status : Statuses, terminal : Exits \cup {"none"},
               times : {times}, joined : Heard, launches : {r.launches},
               decided : {decided}]
  BY DEF Between, IsChild, Statuses, Heard
<1> HIDE DEF q
<1> QED
  BY <1>1 DEF Between, IsChild, LifeOK, Started, Alive, Ended, q

LEMMA LaunchedLife ==
  ASSUME NEW r, IsChild(r), r.timer = FALSE PROVE LifeOK(Launched(r))
<1> DEFINE q == Launched(r)
<1>1. /\ q.current = "running" /\ q.timer = FALSE /\ q.times = r.times
      /\ q.decided = r.decided /\ q.launches = r.launches + 1
      /\ q.status = "running" /\ q.terminal = "none"
      /\ q \in [current : {"none", "running", "stopping"}, planned : BOOLEAN,
               timer : BOOLEAN, status : Statuses, terminal : Exits \cup {"none"},
               times : {r.times}, joined : Heard, launches : {r.launches + 1},
               decided : {r.decided}]
  BY DEF Launched, IsChild, Statuses, Heard
<1> HIDE DEF q
<1> QED
  BY <1>1 DEF IsChild, LifeOK, Started, Alive, Ended, q

\* Interrupting a child neither loses nor revives it.
LEMMA InterruptedLife ==
  ASSUME NEW r, LifeOK(r)
  PROVE  /\ LifeOK(Interrupted(r)) /\ Interrupted(r).timer = r.timer
         /\ Alive(Interrupted(r)) => Alive(r)
         /\ Started(Interrupted(r)) <=> Started(r)
<1> DEFINE q == Interrupted(r)
<1>1. CASE ~Alive(r)
  BY <1>1 DEF Interrupted
<1>2. CASE Alive(r) /\ SyncInterrupt
  <2> DEFINE g == [r EXCEPT !.current = "none"]
  <2>1. /\ Between(g)
    BY <1>2 DEF LifeOK, IsChild, Statuses, Heard, Between, Started, Alive, Ended
  <2>2. q = Finished(g, "interrupt") /\ "interrupt" \in Exits
    BY <1>2 DEF Interrupted, Exits
  <2> HIDE DEF g
  <2>3. LifeOK(q) /\ ~Alive(q) /\ ~q.timer
    BY <2>1, <2>2, FinishedLife
  <2>4. Started(r) /\ r.timer = FALSE /\ q.timer \in BOOLEAN
    BY <1>2, <2>3 DEF LifeOK
  <2>5. Started(q)
    BY <2>1, <2>2 DEF Finished, Between, IsChild, Started, StatusOf, Statuses, Heard
  <2> QED
    BY <2>3, <2>4, <2>5
<1>3. CASE Alive(r) /\ ~SyncInterrupt
  <2>1. /\ IsChild(q) /\ q.current = "stopping" /\ q.timer = r.timer
        /\ q.status = r.status /\ q.terminal = r.terminal /\ q.joined = r.joined
    BY <1>3 DEF Interrupted, LifeOK, IsChild, Statuses, Heard
  <2> HIDE DEF q
  <2>2. LifeOK(q) /\ (Started(q) <=> Started(r))
    BY <1>3, <2>1 DEF LifeOK, Started, Alive, Ended
  <2> QED
    BY <1>3, <2>1, <2>2 DEF q
<1> QED
  BY <1>1, <1>2, <1>3

\* So does interrupt() of its handle, which also clears its timer.
LEMMA StoppedLife ==
  ASSUME NEW r, LifeOK(r), Started(r)
  PROVE  /\ LifeOK(Stopped(r)) /\ Stopped(r).timer = FALSE
         /\ Alive(Stopped(r)) => Alive(r)
<1> DEFINE quiet == [r EXCEPT !.planned = FALSE, !.timer = FALSE]
<1>1. /\ IsChild(quiet) /\ quiet.current = r.current /\ quiet.timer = FALSE
      /\ quiet.status = r.status /\ quiet.terminal = r.terminal /\ quiet.joined = r.joined
  BY DEF LifeOK, IsChild, Statuses, Heard
<1>2. Stopped(r) = IF Alive(r) \/ Ended(r) THEN Interrupted(quiet)
                                           ELSE Finished(quiet, "interrupt")
  BY DEF Stopped
<1> HIDE DEF quiet
<1>3. CASE Alive(r) \/ Ended(r)
  <2>1. LifeOK(quiet) /\ (Alive(quiet) <=> Alive(r))
    BY <1>1, <1>3 DEF LifeOK, Started, Alive, Ended
  <2> QED
    BY <1>1, <1>2, <1>3, <2>1, InterruptedLife
<1>4. CASE ~(Alive(r) \/ Ended(r))
  <2>1. Between(quiet) /\ "interrupt" \in Exits
    BY <1>1, <1>4 DEF Between, LifeOK, Started, Alive, Ended, Exits
  <2> QED
    BY <1>2, <1>4, <2>1, FinishedLife DEF LifeOK
<1> QED
  BY <1>3, <1>4

-----------------------------------------------------------------------------
(* The children together *)

Lives(cs) == DOMAIN cs = Children /\ \A c \in Children : LifeOK(cs[c])

\* All but the child c, whose exit is being handled.
OthersLive(cs, c) ==
  /\ DOMAIN cs = Children /\ Between(cs[c])
  /\ \A x \in Children \ {c} : LifeOK(cs[x])

\* Another field of a child does not matter.
LEMMA TimesLife ==
  ASSUME NEW r, Between(r), NEW times
  PROVE  Between([r EXCEPT !.times = times])
<1> DEFINE q == [r EXCEPT !.times = times]
<1>1. /\ q.current = r.current /\ q.timer = r.timer /\ q.times = times
      /\ q.decided = r.decided /\ q.launches = r.launches
      /\ q.status = r.status /\ q.terminal = r.terminal
      /\ q \in [current : {"none", "running", "stopping"}, planned : BOOLEAN,
               timer : BOOLEAN, status : Statuses, terminal : Exits \cup {"none"},
               times : {times}, joined : Heard, launches : {r.launches},
               decided : {r.decided}]
  BY DEF Between, IsChild
<1> HIDE DEF q
<1> QED
  BY <1>1 DEF Between, IsChild, Started, Alive, Ended, q

LEMMA PlannedLife ==
  ASSUME NEW r, LifeOK(r), Alive(r)
  PROVE  LifeOK([r EXCEPT !.planned = TRUE, !.status = "restarting"])
<1> DEFINE q == [r EXCEPT !.planned = TRUE, !.status = "restarting"]
<1>1. /\ IsChild(q) /\ q.current = r.current /\ q.timer = r.timer
      /\ q.status = "restarting" /\ q.terminal = r.terminal
  BY DEF LifeOK, IsChild, Statuses, Heard
<1> HIDE DEF q
<1> QED
  BY <1>1 DEF LifeOK, Started, Alive, Ended, q

LEMMA RestartAllLives ==
  ASSUME NEW c \in Children, NEW cs, OthersLive(cs, c)
  PROVE  OthersLive(RestartAll(cs, c), c)
<1> DEFINE q == RestartAll(cs, c)
<1>1. DOMAIN q = Children /\ q[c] = cs[c]
  BY DEF RestartAll
<1>2. ASSUME NEW x \in Children \ {c} PROVE LifeOK(q[x])
  <2>1. CASE ~Alive(cs[x])
    BY <2>1 DEF RestartAll, OthersLive
  <2>2. CASE Alive(cs[x])
    <3>1. PICK r : r = cs[x]
      OBVIOUS
    <3>2. PICK p : p = [r EXCEPT !.planned = TRUE, !.status = "restarting"]
      OBVIOUS
    <3>3. q[x] = Interrupted(p)
      BY <2>2, <3>1, <3>2 DEF RestartAll
    <3> QED
      BY <2>2, <3>1, <3>2, <3>3, PlannedLife, InterruptedLife DEF OthersLive
  <2> QED
    BY <2>1, <2>2
<1> QED
  BY <1>1, <1>2 DEF OthersLive

LEMMA EscalateLives ==
  ASSUME NEW c \in Children, NEW cs, OthersLive(cs, c), NEW exit \in Exits
  PROVE  Lives(Escalate(cs, c, exit))
<1> DEFINE q == Escalate(cs, c, exit)
<1>1. DOMAIN q = Children /\ q[c] = Finished(cs[c], exit)
  BY DEF Escalate
<1>2. ASSUME NEW x \in Children \ {c} PROVE q[x] = Interrupted(cs[x]) \/ q[x] = cs[x]
  BY DEF Escalate
<1> HIDE DEF q
<1>3. ASSUME NEW x \in Children \ {c} PROVE LifeOK(q[x])
  BY <1>2, InterruptedLife DEF OthersLive
<1>4. LifeOK(q[c])
  BY <1>1, FinishedLife DEF OthersLive
<1> QED
  BY <1>1, <1>3, <1>4 DEF Lives, q

LEMMA ScheduleRestartLives ==
  ASSUME NEW c \in Children, NEW cs, OthersLive(cs, c), NEW exit \in Exits
  PROVE  Lives(ScheduleRestart(cs, c, exit))
<1>1. PICK recent : recent = InWindow(cs[c])
  OBVIOUS
<1>2. PICK kept : kept = [cs EXCEPT ![c].times = recent]
  OBVIOUS
<1>3. OthersLive(kept, c)
  <2>1. /\ DOMAIN kept = Children /\ kept[c] = [cs[c] EXCEPT !.times = recent]
        /\ \A x \in Children \ {c} : kept[x] = cs[x]
    BY <1>2 DEF OthersLive
  <2>2. Between(kept[c])
    BY <2>1, TimesLife DEF OthersLive
  <2> QED
    BY <2>1, <2>2 DEF OthersLive
<1>4. PICK r : r = cs[c]
  OBVIOUS
<1>5. PICK t, d : t = Append(recent, now) /\ d = Append(r.decided, now)
  OBVIOUS
<1>6. PICK n : n = Planned(r, recent)
  OBVIOUS
<1>7. LifeOK(n)
  <2>1. n = [r EXCEPT !.times = t, !.decided = d, !.status = "restarting", !.timer = TRUE]
    BY <1>5, <1>6 DEF Planned
  <2> QED
    BY <1>4, <2>1, RestartingLife DEF OthersLive
<1>8. CASE Len(recent) >= MaxRestarts
  <2>1. ScheduleRestart(cs, c, exit) = Escalate(kept, c, exit)
    BY <1>1, <1>2, <1>8 DEF ScheduleRestart
  <2> QED
    BY <1>3, <2>1, EscalateLives
<1>9. CASE ~(Len(recent) >= MaxRestarts)
  <2>1. ScheduleRestart(cs, c, exit) = [cs EXCEPT ![c] = n]
    BY <1>1, <1>4, <1>6, <1>9 DEF ScheduleRestart, OthersLive
  <2> QED
    BY <1>7, <2>1 DEF Lives, OthersLive
<1> QED
  BY <1>8, <1>9

\* The exit of the fiber of c is handled; after shutdown() nothing is planned anew.
LEMMA OnChildExitLives ==
  ASSUME Lives(child), closed \in BOOLEAN,
         NEW c \in Children, Alive(child[c]), NEW exit \in Exits
  PROVE  /\ Lives(OnChildExit(c, exit))
         /\ closed => \A x \in Children :
              /\ OnChildExit(c, exit)[x].timer = child[x].timer
              /\ Alive(OnChildExit(c, exit)[x]) <=> Alive(child[x]) /\ x # c
<1>1. PICK kids : kids = child
  OBVIOUS
<1>2. PICK r : r = child[c]
  OBVIOUS
<1>3. PICK g : g = [r EXCEPT !.current = "none"]
  OBVIOUS
<1>4. PICK ended : ended = [child EXCEPT ![c].current = "none"]
  OBVIOUS
<1>5. LifeOK(r) /\ Alive(r)
  BY <1>2 DEF Lives
<1>6. Between(g) /\ g.timer = r.timer
  BY <1>3, <1>5 DEF LifeOK, IsChild, Statuses, Heard, Between, Started, Alive, Ended
<1>7. /\ DOMAIN ended = Children /\ ended[c] = g
      /\ \A x \in Children \ {c} : ended[x] = child[x]
  BY <1>2, <1>3, <1>4 DEF Lives
<1>8. OthersLive(ended, c)
  BY <1>6, <1>7 DEF OthersLive, Lives
<1>9. PICK done : done = [ended EXCEPT ![c] = Finished(@, exit)]
  OBVIOUS
<1>10. /\ DOMAIN done = Children /\ done[c] = Finished(g, exit)
       /\ \A x \in Children \ {c} : done[x] = child[x]
  BY <1>7, <1>9
<1>11. LifeOK(done[c]) /\ ~Alive(done[c]) /\ ~done[c].timer /\ done[c].timer \in BOOLEAN
  BY <1>6, <1>10, FinishedLife DEF LifeOK
<1>12. Lives(done)
  BY <1>10, <1>11 DEF Lives
<1>13. Lives(ScheduleRestart(ended, c, exit))
  BY <1>8, ScheduleRestartLives
<1>14. Lives(ScheduleRestart(RestartAll(ended, c), c, exit))
  <2>1. PICK all : all = RestartAll(ended, c)
    OBVIOUS
  <2>2. OthersLive(all, c)
    BY <1>8, <2>1, RestartAllLives
  <2> QED
    BY <2>1, <2>2, ScheduleRestartLives
<1>15. CASE closed
  <2>1. OnChildExit(c, exit) = done
    BY <1>4, <1>9, <1>15 DEF OnChildExit
  <2>2. r.timer = FALSE
    BY <1>6, <1>5 DEF LifeOK, Between
  <2> QED
    BY <1>2, <1>10, <1>11, <1>12, <2>1, <2>2
<1>16. CASE ~closed
  <2>1. CASE child[c].planned
    BY <1>4, <1>13, <1>16, <2>1 DEF OnChildExit
  <2>2. CASE ~child[c].planned /\ ~ShouldRestart(exit)
    BY <1>4, <1>9, <1>12, <1>16, <2>2 DEF OnChildExit
  <2>3. CASE ~child[c].planned /\ ShouldRestart(exit)
    <3>1. OnChildExit(c, exit) =
            ScheduleRestart(IF config.strategy = "all-for-one"
                            THEN RestartAll(ended, c) ELSE ended, c, exit)
      BY <1>4, <1>16, <2>3 DEF OnChildExit
    <3> QED
      BY <1>13, <1>14, <1>16, <3>1
  <2> QED
    BY <1>16, <2>1, <2>2, <2>3
<1> QED
  BY <1>15, <1>16

-----------------------------------------------------------------------------
(* The inductive invariant.  What a caller of shutdown() has yet to hear of *)
(* are exactly the fibers alive: its set of joins covers them, and the      *)
(* number it counted, before it stopped them, is no smaller than that set.  *)

CallOK(s) ==
  /\ waits[s] \subseteq Children /\ remaining[s] \in Int
  /\ Asked(s) => /\ closed
                 /\ \A c \in Children : Alive(child[c]) => c \in waits[s]
                 /\ remaining[s] >= Cardinality(waits[s])
  /\ ~Asked(s) => waits[s] = {}
SupInv ==
  /\ Lives(child) /\ closed \in BOOLEAN
  /\ closed => \A c \in Children : ~child[c].timer
  /\ DOMAIN waits = Callers /\ DOMAIN remaining = Callers
  /\ \A s \in Callers : CallOK(s)

LEMMA SupInit == Init => SupInv
<1> SUFFICES ASSUME Init PROVE SupInv
  OBVIOUS
<1>1. /\ IsChild(Unstarted) /\ Unstarted.current = "none" /\ Unstarted.timer = FALSE
      /\ Unstarted.status = "unstarted" /\ Unstarted.terminal = "none"
      /\ Unstarted.joined = "no"
  BY DEF Unstarted, IsChild, Statuses, Heard
<1>2. LifeOK(Unstarted)
  BY <1>1 DEF LifeOK, Started, Alive, Ended
<1>3. Lives(child)
  BY <1>2 DEF Init, Lives
<1>4. \A s \in Callers : CallOK(s)
  BY DEF Init, CallOK, Asked
<1> QED
  BY <1>3, <1>4 DEF Init, SupInv

\* A step of one child that ends no fiber and starts none after shutdown().
LEMMA ChildStep ==
  ASSUME SupInv, NEW c \in Children, NEW q,
         child' = [child EXCEPT ![c] = q], LifeOK(q), closed => ~q.timer,
         closed /\ Alive(q) => Alive(child[c]),
         UNCHANGED <<closed, remaining, waits>>
  PROVE  SupInv'
<1>1. /\ DOMAIN child' = Children /\ child'[c] = q
      /\ \A x \in Children \ {c} : child'[x] = child[x]
  BY DEF SupInv, Lives
<1>2. Lives(child')
  BY <1>1 DEF SupInv, Lives
<1>3. closed => \A x \in Children : /\ ~child'[x].timer
                                   /\ Alive(child'[x]) => Alive(child[x])
  BY <1>1 DEF SupInv
<1>4. ASSUME NEW s \in Callers PROVE CallOK(s)'
  <2>1. CallOK(s) /\ (Asked(s)' <=> Asked(s))
    BY DEF SupInv, Asked
  <2> QED
    BY <1>3, <2>1 DEF CallOK, Alive
<1> QED
  BY <1>2, <1>3, <1>4 DEF SupInv, Lives

LEMMA StartStep == ASSUME SupInv, NEW c \in Children, Start(c) PROVE SupInv'
<1>1. PICK r : r = child[c]
  OBVIOUS
<1>2. PICK q : q = Launched(r)
  OBVIOUS
<1>3. LifeOK(r) /\ ~Started(r) /\ ~closed
  BY <1>1 DEF SupInv, Lives, Start
<1>4. LifeOK(q)
  BY <1>2, <1>3, LaunchedLife DEF LifeOK
<1>5. child' = [child EXCEPT ![c] = q] /\ UNCHANGED <<closed, remaining, waits>>
  BY <1>1, <1>2 DEF Start
<1> QED
  BY <1>3, <1>4, <1>5, ChildStep

LEMMA JoinedLife ==
  ASSUME NEW r, LifeOK(r), Started(r)
  PROVE  LifeOK([r EXCEPT !.joined = IF Ended(r) THEN r.terminal ELSE "waiting"])
<1> DEFINE q == [r EXCEPT !.joined = IF Ended(r) THEN r.terminal ELSE "waiting"]
<1>1. /\ IsChild(q) /\ q.current = r.current /\ q.timer = r.timer
      /\ q.status = r.status /\ q.terminal = r.terminal
      /\ Ended(r) => q.joined # "waiting"
  BY DEF LifeOK, IsChild, Statuses, Heard, Exits, Ended
<1> HIDE DEF q
<1> QED
  BY <1>1 DEF LifeOK, Started, Alive, Ended, q

LEMMA JoinStep == ASSUME SupInv, NEW c \in Children, Join(c) PROVE SupInv'
<1>1. PICK r : r = child[c]
  OBVIOUS
<1>2. PICK q : q = [r EXCEPT !.joined = IF Ended(r) THEN r.terminal ELSE "waiting"]
  OBVIOUS
<1>3. LifeOK(r) /\ Started(r) /\ (closed => ~r.timer)
  BY <1>1 DEF SupInv, Lives, Join
<1>4. q.timer = r.timer /\ q.current = r.current
  BY <1>2, <1>3 DEF LifeOK, IsChild
<1>5. LifeOK(q)
  BY <1>2, <1>3, JoinedLife
<1>6. child' = [child EXCEPT ![c] = q] /\ UNCHANGED <<closed, remaining, waits>>
  BY <1>1, <1>2 DEF Join
<1> QED
  BY <1>1, <1>3, <1>4, <1>5, <1>6, ChildStep DEF Alive

LEMMA TimerFiresStep == ASSUME SupInv, NEW c \in Children, TimerFires(c) PROVE SupInv'
<1>1. PICK r : r = child[c]
  OBVIOUS
<1>2. PICK p : p = [r EXCEPT !.timer = FALSE]
  OBVIOUS
<1>3. PICK q : q = Launched(p)
  OBVIOUS
<1>4. LifeOK(r) /\ ~closed
  BY <1>1 DEF SupInv, Lives, TimerFires
<1>5. IsChild(p) /\ p.timer = FALSE
  BY <1>2, <1>4 DEF LifeOK, IsChild
<1>6. LifeOK(q)
  BY <1>3, <1>5, LaunchedLife
<1>7. child' = [child EXCEPT ![c] = q] /\ UNCHANGED <<closed, remaining, waits>>
  BY <1>1, <1>2, <1>3, <1>4 DEF TimerFires
<1> QED
  BY <1>4, <1>6, <1>7, ChildStep

LEMMA InterruptStep == ASSUME SupInv, NEW c \in Children, Interrupt(c) PROVE SupInv'
<1>1. PICK r : r = child[c]
  OBVIOUS
<1>2. PICK q : q = Stopped(r)
  OBVIOUS
<1>3. LifeOK(r) /\ Started(r)
  BY <1>1 DEF SupInv, Lives, Interrupt
<1>4. LifeOK(q) /\ q.timer = FALSE /\ (Alive(q) => Alive(r))
  BY <1>2, <1>3, StoppedLife
<1>5. child' = [child EXCEPT ![c] = q] /\ UNCHANGED <<closed, remaining, waits>>
  BY <1>1, <1>2 DEF Interrupt
<1> QED
  BY <1>1, <1>4, <1>5, ChildStep

\* One join fewer is waited for, and one fewer is counted.
LEMMA ExitStep ==
  ASSUME SupInv, NEW c \in Children, NEW exit \in Exits, Exit(c, exit) PROVE SupInv'
<1>1. PICK after : after = OnChildExit(c, exit)
  OBVIOUS
<1>2. child' = after /\ closed' = closed /\ Alive(child[c])
  BY <1>1 DEF Exit
<1>3. /\ Lives(after)
      /\ closed => \A x \in Children : /\ after[x].timer = child[x].timer
                                       /\ Alive(after[x]) <=> Alive(child[x]) /\ x # c
  BY <1>1, <1>2, OnChildExitLives DEF SupInv
<1>4. ASSUME NEW s \in Callers PROVE CallOK(s)'
  <2>1. CallOK(s) /\ IsFiniteSet(waits[s]) /\ Cardinality(waits[s]) \in Nat
    BY SupervisorAssumption, FS_Subset, FS_CardinalityType DEF SupInv, CallOK
  <2>2. /\ remaining'[s] = IF c \in waits[s] THEN remaining[s] - 1 ELSE remaining[s]
        /\ waits'[s] = waits[s] \ {c}
    BY DEF Exit
  <2>3. CASE Asked(s)
    <3>1. c \in waits[s] /\ closed /\ remaining[s] >= Cardinality(waits[s])
      BY <1>2, <2>1, <2>3 DEF CallOK
    <3>2. /\ Cardinality(waits[s] \ {c}) = Cardinality(waits[s]) - 1
          /\ Cardinality(waits[s] \ {c}) \in Nat
      BY <2>1, <3>1, FS_RemoveElement, FS_CardinalityType
    <3>3. remaining'[s] \in Int /\ remaining'[s] >= Cardinality(waits'[s]) /\ remaining'[s] >= 0
      BY <2>1, <2>2, <3>1, <3>2 DEF CallOK
    <3>4. \A x \in Children : Alive(after[x]) => x \in waits'[s]
      BY <1>3, <2>1, <2>2, <2>3, <3>1 DEF CallOK
    <3> QED
      BY <1>2, <2>1, <2>2, <3>1, <3>3, <3>4 DEF CallOK, Asked, Alive
  <2>4. CASE ~Asked(s)
    BY <2>1, <2>2, <2>4 DEF CallOK, Asked
  <2> QED
    BY <2>3, <2>4
<1>5. DOMAIN waits' = Callers /\ DOMAIN remaining' = Callers
  BY DEF Exit
<1> QED
  BY <1>2, <1>3, <1>4, <1>5 DEF SupInv, Lives

LEMMA ShutdownStep == ASSUME SupInv, NEW s \in Callers, Shutdown(s) PROVE SupInv'
<1>1. PICK after : after = child'
  OBVIOUS
<1>2. ASSUME NEW c \in Children
      PROVE LifeOK(after[c]) /\ after[c].timer = FALSE /\ (Alive(after[c]) => Alive(child[c]))
  <2>1. PICK r : r = child[c]
    OBVIOUS
  <2>2. LifeOK(r) /\ r.timer \in BOOLEAN
    BY <2>1 DEF SupInv, Lives, LifeOK
  <2>3. CASE ~Started(r)
    <3>1. ~Alive(r)
      BY <2>2, <2>3 DEF LifeOK
    <3>2. after[c] = r
      BY <1>1, <2>1, <2>3, <3>1 DEF Shutdown
    <3> QED
      BY <2>1, <2>2, <2>3, <3>2 DEF LifeOK
  <2>4. CASE Started(r) /\ Alive(r)
    <3>1. PICK p : p = [r EXCEPT !.status = "interrupted"]
      OBVIOUS
    <3>2. /\ IsChild(p) /\ p.current = r.current /\ p.timer = r.timer
          /\ p.status = "interrupted" /\ p.terminal = r.terminal /\ p.joined = r.joined
      BY <2>2, <3>1 DEF LifeOK, IsChild, Statuses
    <3>3. LifeOK(p) /\ Started(p)
      BY <2>2, <2>4, <3>2 DEF LifeOK, Started, Alive, Ended
    <3>4. after[c] = Stopped(p)
      BY <1>1, <2>1, <2>4, <3>1 DEF Shutdown
    <3> QED
      BY <2>1, <2>4, <3>3, <3>4, StoppedLife
  <2>5. CASE Started(r) /\ ~Alive(r)
    <3>1. after[c] = Stopped(r)
      BY <1>1, <2>1, <2>5 DEF Shutdown
    <3> QED
      BY <2>1, <2>2, <2>5, <3>1, StoppedLife
  <2> QED
    BY <2>3, <2>4, <2>5
<1>3. Lives(after)
  BY <1>1, <1>2 DEF Shutdown, Lives
<1>4. ASSUME NEW t \in Callers PROVE CallOK(t)'
  <2>1. CASE t = s
    <3> DEFINE old == {c \in Children : Alive(child[c])}
    <3>1. waits'[t] = {c \in Children : Alive(after[c])} /\ remaining'[t] = Cardinality(old)
      BY <1>1, <2>1 DEF Shutdown, SupInv
    <3>2. waits'[t] \subseteq old
      BY <1>2, <3>1
    <3>3. IsFiniteSet(old)
      BY SupervisorAssumption, FS_Subset
    <3>4. Cardinality(old) \in Nat /\ Cardinality(waits'[t]) <= Cardinality(old)
      BY <3>2, <3>3, FS_Subset, FS_CardinalityType
    <3>5. waits'[t] \in SUBSET Children /\ closed' = TRUE
      BY <3>1 DEF Shutdown
    <3>6. remaining'[t] \in Int /\ remaining'[t] >= 0 /\ remaining'[t] >= Cardinality(waits'[t])
      <4>1. PICK n, m : n = Cardinality(old) /\ m = Cardinality(waits'[t])
        OBVIOUS
      <4>2. m \in Nat
        BY <3>2, <3>3, <4>1, FS_Subset, FS_CardinalityType
      <4> QED
        BY <3>1, <3>4, <4>1, <4>2
    <3> QED
      BY <1>1, <3>1, <3>5, <3>6 DEF CallOK, Asked
  <2>2. CASE t # s
    <3>1. CallOK(t) /\ waits'[t] = waits[t] /\ remaining'[t] = remaining[t] /\ closed' = TRUE
      BY <2>2 DEF Shutdown, SupInv
    <3> QED
      BY <1>1, <1>2, <3>1 DEF CallOK, Asked, Alive
  <2> QED
    BY <2>1, <2>2
<1>5. closed' = TRUE /\ DOMAIN waits' = Callers /\ DOMAIN remaining' = Callers
  BY DEF Shutdown, SupInv
<1> QED
  BY <1>1, <1>2, <1>3, <1>4, <1>5 DEF SupInv, Lives

LEMMA SupNext == SupInv /\ [Next]_vars => SupInv'
<1> SUFFICES ASSUME SupInv, [Next]_vars PROVE SupInv'
  OBVIOUS
<1>1. CASE Tick
  BY <1>1 DEF Tick, SupInv, Lives, CallOK, Asked, Alive
<1>2. CASE UNCHANGED vars
  BY <1>2 DEF vars, SupInv, Lives, CallOK, Asked, Alive
<1> QED
  BY <1>1, <1>2, StartStep, JoinStep, TimerFiresStep, InterruptStep, ExitStep, ShutdownStep
     DEF Next

\* When nothing is counted any more, nothing is waited for, so nothing is alive.
LEMMA SupSafe == SupInv => NothingLeftOver
<1> SUFFICES ASSUME SupInv PROVE NothingLeftOver
  OBVIOUS
<1>1. OneLife
  BY DEF SupInv, Lives, LifeOK, OneLife
<1>2. ASSUME NEW s \in Callers, Told(s), NEW c \in Children
      PROVE ~Alive(child[c]) /\ ~child[c].timer /\ child[c].joined # "waiting"
  <2>1. CallOK(s) /\ Asked(s) /\ remaining[s] = 0 /\ closed
    BY <1>2 DEF SupInv, CallOK, Told, Asked
  <2>2. IsFiniteSet(waits[s])
    BY <2>1, SupervisorAssumption, FS_Subset DEF CallOK
  <2>3. Cardinality(waits[s]) = 0
    BY <2>1, <2>2, FS_CardinalityType DEF CallOK
  <2>4. waits[s] = {}
    BY <2>2, <2>3, FS_EmptySet
  <2>5. LifeOK(child[c]) /\ ~Alive(child[c]) /\ ~child[c].timer
    BY <2>1, <2>4 DEF SupInv, Lives, CallOK
  <2> QED
    BY <2>5 DEF LifeOK
<1> QED
  BY <1>1, <1>2 DEF NothingLeftOver, ShutdownLeavesNothing

-----------------------------------------------------------------------------
(* No child of a supervisor is lost between a fiber, a restart timer and   *)
(* its end, whatever interleaves with its exits, and a shutdown() that has *)
(* answered has left no fiber, no timer and no pending join().             *)
THEOREM NothingLeftOverTheorem == Spec => []NothingLeftOver
<1>1. Spec => []SupInv
  BY SupInit, SupNext, PTL DEF Spec
<1> QED
  BY <1>1, SupSafe, PTL

-----------------------------------------------------------------------------
(* What join() was told stays true.  Every operation but a launch leaves   *)
(* the number of launches alone and the exit of a child that has one.      *)

Keeps(q, r) == q.launches = r.launches /\ (Ended(r) => q.terminal = r.terminal)

\* Neither does any but a planned restart touch what the budget looks at.
SameTimes(q, r) == q.times = r.times /\ q.decided = r.decided

LEMMA FinishedKeeps ==
  ASSUME NEW r, Between(r), NEW exit \in Exits
  PROVE  Keeps(Finished(r, exit), r) /\ SameTimes(Finished(r, exit), r)
BY DEF Keeps, SameTimes, Finished, Between, IsChild

LEMMA InterruptedKeeps ==
  ASSUME NEW r, LifeOK(r) PROVE Keeps(Interrupted(r), r) /\ SameTimes(Interrupted(r), r)
<1>1. CASE ~Alive(r)
  BY <1>1 DEF Interrupted, Keeps, SameTimes
<1>2. CASE Alive(r) /\ SyncInterrupt
  <2>1. PICK g : g = [r EXCEPT !.current = "none"]
    OBVIOUS
  <2>2. Interrupted(r) = Finished(g, "interrupt") /\ g.launches = r.launches
        /\ SameTimes(g, r)
    BY <1>2, <2>1 DEF Interrupted, LifeOK, IsChild, SameTimes
  <2>3. Between(g) /\ "interrupt" \in Exits
    BY <1>2, <2>1 DEF LifeOK, IsChild, Statuses, Heard, Between, Started, Alive, Ended, Exits
  <2>4. Keeps(Finished(g, "interrupt"), g) /\ SameTimes(Finished(g, "interrupt"), g)
    BY <2>3, FinishedKeeps
  <2> QED
    BY <1>2, <2>2, <2>4 DEF Keeps, SameTimes, LifeOK
<1>3. CASE Alive(r) /\ ~SyncInterrupt
  BY <1>3 DEF Interrupted, Keeps, SameTimes, LifeOK, IsChild
<1> QED
  BY <1>1, <1>2, <1>3

LEMMA StoppedKeeps ==
  ASSUME NEW r, LifeOK(r), Started(r) PROVE Keeps(Stopped(r), r) /\ SameTimes(Stopped(r), r)
<1>1. PICK quiet : quiet = [r EXCEPT !.planned = FALSE, !.timer = FALSE]
  OBVIOUS
<1>2. /\ IsChild(quiet) /\ quiet.current = r.current /\ quiet.timer = FALSE
      /\ quiet.status = r.status /\ quiet.terminal = r.terminal /\ quiet.joined = r.joined
      /\ quiet.launches = r.launches /\ SameTimes(quiet, r)
  BY <1>1 DEF LifeOK, IsChild, Statuses, Heard, SameTimes
<1>3. Stopped(r) = IF Alive(r) \/ Ended(r) THEN Interrupted(quiet)
                                           ELSE Finished(quiet, "interrupt")
  BY <1>1 DEF Stopped
<1>4. CASE Alive(r) \/ Ended(r)
  <2>1. LifeOK(quiet)
    BY <1>2, <1>4 DEF LifeOK, Started, Alive, Ended
  <2> QED
    BY <1>2, <1>3, <1>4, <2>1, InterruptedKeeps DEF Keeps, SameTimes, Ended
<1>5. CASE ~(Alive(r) \/ Ended(r))
  <2>1. Between(quiet) /\ "interrupt" \in Exits
    BY <1>2, <1>5 DEF Between, LifeOK, Started, Alive, Ended, Exits
  <2> QED
    BY <1>2, <1>3, <1>5, <2>1, FinishedKeeps DEF Keeps, SameTimes, Ended
<1> QED
  BY <1>4, <1>5

LEMMA RestartAllKeeps ==
  ASSUME NEW c \in Children, NEW cs, OthersLive(cs, c), NEW x \in Children
  PROVE  Keeps(RestartAll(cs, c)[x], cs[x]) /\ SameTimes(RestartAll(cs, c)[x], cs[x])
<1>1. PICK r : r = cs[x]
  OBVIOUS
<1>2. CASE x = c \/ ~Alive(r)
  BY <1>1, <1>2 DEF RestartAll, Keeps, SameTimes
<1>3. CASE x # c /\ Alive(r)
  <2>1. PICK p : p = [r EXCEPT !.planned = TRUE, !.status = "restarting"]
    OBVIOUS
  <2>2. RestartAll(cs, c)[x] = Interrupted(p)
    BY <1>1, <1>3, <2>1 DEF RestartAll
  <2>3. LifeOK(r)
    BY <1>1, <1>3 DEF OthersLive
  <2>4. LifeOK(p)
    BY <1>3, <2>1, <2>3, PlannedLife
  <2>5. p.launches = r.launches /\ p.terminal = r.terminal /\ SameTimes(p, r)
    BY <2>1, <2>3 DEF LifeOK, IsChild, SameTimes
  <2> QED
    BY <1>1, <2>2, <2>4, <2>5, InterruptedKeeps DEF Keeps, SameTimes, Ended
<1> QED
  BY <1>2, <1>3

LEMMA EscalateKeeps ==
  ASSUME NEW c \in Children, NEW cs, OthersLive(cs, c), NEW exit \in Exits,
         NEW x \in Children
  PROVE  Keeps(Escalate(cs, c, exit)[x], cs[x]) /\ SameTimes(Escalate(cs, c, exit)[x], cs[x])
<1>1. PICK r : r = cs[x]
  OBVIOUS
<1>2. CASE x = c
  <2>1. Escalate(cs, c, exit)[x] = Finished(r, exit)
    BY <1>1, <1>2 DEF Escalate
  <2> QED
    BY <1>1, <1>2, <2>1, FinishedKeeps DEF OthersLive
<1>3. CASE x # c
  <2>1. Escalate(cs, c, exit)[x] \in {Interrupted(r), r}
    BY <1>1, <1>3 DEF Escalate
  <2>2. LifeOK(r)
    BY <1>1, <1>3 DEF OthersLive
  <2> QED
    BY <1>1, <2>1, <2>2, InterruptedKeeps DEF Keeps, SameTimes
<1> QED
  BY <1>2, <1>3

LEMMA ScheduleRestartKeeps ==
  ASSUME NEW c \in Children, NEW cs, OthersLive(cs, c), NEW exit \in Exits,
         NEW x \in Children
  PROVE  Keeps(ScheduleRestart(cs, c, exit)[x], cs[x])
<1>1. PICK recent : recent = InWindow(cs[c])
  OBVIOUS
<1>2. PICK kept : kept = [cs EXCEPT ![c].times = recent]
  OBVIOUS
<1>3. PICK r : r = cs[c]
  OBVIOUS
<1>4. /\ DOMAIN kept = Children /\ kept[c] = [r EXCEPT !.times = recent]
      /\ \A y \in Children \ {c} : kept[y] = cs[y]
  BY <1>2, <1>3 DEF OthersLive
<1>5. OthersLive(kept, c)
  <2>1. Between(kept[c])
    BY <1>3, <1>4, TimesLife DEF OthersLive
  <2> QED
    BY <1>4, <2>1 DEF OthersLive
<1>6. kept[x].launches = cs[x].launches /\ kept[x].terminal = cs[x].terminal
  BY <1>3, <1>4 DEF OthersLive, Between, IsChild
<1>7. CASE Len(recent) >= MaxRestarts
  <2>1. ScheduleRestart(cs, c, exit) = Escalate(kept, c, exit)
    BY <1>1, <1>2, <1>7 DEF ScheduleRestart
  <2> QED
    BY <1>5, <1>6, <2>1, EscalateKeeps DEF Keeps, Ended
<1>8. CASE ~(Len(recent) >= MaxRestarts)
  <2>1. PICK n : n = Planned(r, recent)
    OBVIOUS
  <2>2. ScheduleRestart(cs, c, exit) = [cs EXCEPT ![c] = n]
    BY <1>1, <1>3, <1>8, <2>1 DEF ScheduleRestart, OthersLive
  <2>3. n.launches = r.launches /\ n.terminal = r.terminal
    BY <1>3, <2>1 DEF Planned, OthersLive, Between, IsChild
  <2> QED
    BY <1>3, <2>2, <2>3 DEF Keeps, OthersLive
<1> QED
  BY <1>7, <1>8

LEMMA OnChildExitKeeps ==
  ASSUME Lives(child), closed \in BOOLEAN,
         NEW c \in Children, Alive(child[c]), NEW exit \in Exits, NEW x \in Children
  PROVE  Keeps(OnChildExit(c, exit)[x], child[x])
<1>1. PICK r : r = child[c]
  OBVIOUS
<1>2. PICK g : g = [r EXCEPT !.current = "none"]
  OBVIOUS
<1>3. PICK ended : ended = [child EXCEPT ![c].current = "none"]
  OBVIOUS
<1>4. LifeOK(r) /\ Alive(r)
  BY <1>1 DEF Lives
<1>5. Between(g) /\ g.launches = r.launches /\ g.terminal = r.terminal
  BY <1>2, <1>4 DEF LifeOK, IsChild, Statuses, Heard, Between, Started, Alive, Ended
<1>6. /\ DOMAIN ended = Children /\ ended[c] = g
      /\ \A y \in Children \ {c} : ended[y] = child[y]
  BY <1>1, <1>2, <1>3 DEF Lives
<1>7. OthersLive(ended, c)
  BY <1>5, <1>6 DEF OthersLive, Lives
<1>8. ended[x].launches = child[x].launches /\ ended[x].terminal = child[x].terminal
  BY <1>1, <1>5, <1>6
<1>9. PICK after : after = OnChildExit(c, exit)
  OBVIOUS
<1>10. PICK all : all = RestartAll(ended, c)
  OBVIOUS
<1>11. \/ after = [ended EXCEPT ![c] = Finished(@, exit)]
       \/ after = ScheduleRestart(ended, c, exit)
       \/ after = ScheduleRestart(all, c, exit)
  BY <1>3, <1>9, <1>10 DEF OnChildExit
<1>12. Keeps(after[x], ended[x])
  <2>1. CASE after = [ended EXCEPT ![c] = Finished(@, exit)]
    <3>1. Keeps(Finished(g, exit), g)
      BY <1>5, FinishedKeeps
    <3> QED
      BY <1>6, <2>1, <3>1 DEF Keeps
  <2>2. CASE after = ScheduleRestart(ended, c, exit)
    BY <1>7, <2>2, ScheduleRestartKeeps
  <2>3. CASE after = ScheduleRestart(all, c, exit)
    <3>1. OthersLive(all, c) /\ Keeps(all[x], ended[x])
      BY <1>7, <1>10, RestartAllLives, RestartAllKeeps
    <3>2. Keeps(after[x], all[x])
      BY <2>3, <3>1, ScheduleRestartKeeps
    <3> QED
      BY <3>1, <3>2 DEF Keeps, Ended
  <2> QED
    BY <1>11, <2>1, <2>2, <2>3
<1> QED
  BY <1>8, <1>9, <1>12 DEF Keeps, Ended

-----------------------------------------------------------------------------
\* Launches are counted.
CountOK == \A c \in Children : child[c].launches \in Nat
FinalInv == SupInv /\ CountOK

\* FinalIsFinal for one step and one child.
FinalStep(c) ==
  \/ Keeps(child'[c], child[c])
  \/ /\ child'[c].launches = child[c].launches + 1
     /\ ~Ended(child[c]) /\ ~closed

\* A step that launches the child c, which has not ended.
LEMMA LaunchedStep ==
  ASSUME SupInv, NEW c \in Children, NEW r, IsChild(r), ~Ended(child[c]), ~closed,
         r.launches = child[c].launches,
         child' = [child EXCEPT ![c] = Launched(r)], NEW x \in Children
  PROVE  FinalStep(x)
<1>1. DOMAIN child = Children
  BY DEF SupInv, Lives
<1>2. Launched(r).launches = r.launches + 1
  BY DEF Launched, IsChild
<1> QED
  BY <1>1, <1>2 DEF FinalStep, Keeps

LEMMA NextFinal ==
  ASSUME SupInv, [Next]_vars, NEW x \in Children PROVE FinalStep(x)
<1>1. DOMAIN child = Children /\ \A c \in Children : LifeOK(child[c])
  BY DEF SupInv, Lives
<1>2. ASSUME NEW c \in Children, Start(c) PROVE FinalStep(x)
  <2>1. PICK r : r = child[c]
    OBVIOUS
  <2>2. IsChild(r) /\ ~Ended(r) /\ ~closed
    BY <1>1, <1>2, <2>1 DEF Start, LifeOK
  <2>3. child' = [child EXCEPT ![c] = Launched(r)]
    BY <1>2, <2>1 DEF Start
  <2> QED
    BY <2>1, <2>2, <2>3, LaunchedStep
<1>3. ASSUME NEW c \in Children, Join(c) PROVE FinalStep(x)
  <2>1. child'[x].launches = child[x].launches /\ child'[x].terminal = child[x].terminal
    BY <1>1, <1>3 DEF Join, LifeOK, IsChild
  <2> QED
    BY <2>1 DEF FinalStep, Keeps
<1>4. ASSUME NEW c \in Children, NEW exit \in Exits, Exit(c, exit) PROVE FinalStep(x)
  BY <1>4, OnChildExitKeeps DEF Exit, SupInv, FinalStep
<1>5. ASSUME NEW c \in Children, TimerFires(c) PROVE FinalStep(x)
  <2>1. PICK r, p : r = child[c] /\ p = [r EXCEPT !.timer = FALSE]
    OBVIOUS
  <2>2. r.timer /\ LifeOK(r) /\ ~closed
    BY <1>1, <1>5, <2>1 DEF TimerFires, SupInv
  <2>3. IsChild(p) /\ ~Ended(r) /\ p.launches = r.launches
    BY <2>1, <2>2 DEF LifeOK, IsChild
  <2>4. child' = [child EXCEPT ![c] = Launched(p)]
    BY <1>5, <2>1, <2>2 DEF TimerFires
  <2> QED
    BY <2>1, <2>2, <2>3, <2>4, LaunchedStep
<1>6. ASSUME NEW c \in Children, Interrupt(c) PROVE FinalStep(x)
  <2>1. PICK r : r = child[c]
    OBVIOUS
  <2>2. LifeOK(r) /\ Started(r) /\ child' = [child EXCEPT ![c] = Stopped(r)]
    BY <1>1, <1>6, <2>1 DEF Interrupt
  <2>3. Keeps(Stopped(r), r)
    BY <2>2, StoppedKeeps
  <2> QED
    BY <1>1, <2>1, <2>2, <2>3 DEF FinalStep, Keeps
<1>7. ASSUME NEW s \in Callers, Shutdown(s) PROVE FinalStep(x)
  <2>1. PICK r : r = child[x]
    OBVIOUS
  <2>2. LifeOK(r)
    BY <1>1, <2>1
  <2>3. PICK p : p = [r EXCEPT !.status = "interrupted"]
    OBVIOUS
  <2>4. child'[x] = CASE ~Started(r) -> r [] Alive(r) -> Stopped(p) [] OTHER -> Stopped(r)
    BY <1>7, <2>1, <2>3 DEF Shutdown
  <2>5. CASE ~Started(r)
    <3>1. child'[x] = r
      BY <2>2, <2>4, <2>5 DEF LifeOK
    <3> QED
      BY <2>1, <3>1 DEF FinalStep, Keeps
  <2>6. CASE Started(r) /\ Alive(r)
    <3>1. /\ IsChild(p) /\ p.current = r.current /\ p.timer = r.timer
          /\ p.status = "interrupted" /\ p.terminal = r.terminal /\ p.joined = r.joined
          /\ p.launches = r.launches
      BY <2>2, <2>3 DEF LifeOK, IsChild, Statuses
    <3>2. LifeOK(p) /\ Started(p)
      BY <2>2, <2>6, <3>1 DEF LifeOK, Started, Alive, Ended
    <3>3. child'[x] = Stopped(p)
      BY <2>4, <2>6
    <3> QED
      BY <2>1, <3>1, <3>2, <3>3, StoppedKeeps DEF FinalStep, Keeps, Ended
  <2>7. CASE Started(r) /\ ~Alive(r)
    BY <2>1, <2>2, <2>4, <2>7, StoppedKeeps DEF FinalStep
  <2> QED
    BY <2>5, <2>6, <2>7
<1>8. CASE Tick \/ UNCHANGED vars
  BY <1>8 DEF Tick, vars, FinalStep, Keeps
<1> QED
  BY <1>2, <1>3, <1>4, <1>5, <1>6, <1>7, <1>8 DEF Next

(* What join() was told stays true: a child that has ended is never        *)
(* launched again and its exit does not change, and no child is launched   *)
(* after shutdown().                                                       *)
THEOREM FinalIsFinalTheorem == Spec => FinalIsFinal
<1>1. Init => FinalInv
  BY SupInit DEF Init, Unstarted, FinalInv, CountOK
<1>2. FinalInv /\ [Next]_vars => FinalInv'
  <2> SUFFICES ASSUME FinalInv, [Next]_vars PROVE FinalInv'
    OBVIOUS
  <2>1. \A c \in Children : child'[c].launches \in Nat
    BY NextFinal DEF FinalInv, CountOK, FinalStep, Keeps
  <2> QED
    BY <2>1, SupNext DEF FinalInv, CountOK
<1>3. FinalInv /\ [Next]_vars =>
        [\A c \in Children :
           /\ Ended(child[c]) => child'[c].terminal = child[c].terminal
           /\ child'[c].launches > child[c].launches => ~Ended(child[c]) /\ ~closed]_vars
  <2> SUFFICES ASSUME FinalInv, [Next]_vars, NEW c \in Children
               PROVE  /\ Ended(child[c]) => child'[c].terminal = child[c].terminal
                      /\ child'[c].launches > child[c].launches
                           => ~Ended(child[c]) /\ ~closed
    OBVIOUS
  <2>1. FinalStep(c) /\ child[c].launches \in Nat
    BY NextFinal DEF FinalInv, CountOK
  <2> QED
    BY <2>1 DEF FinalStep, Keeps
<1> QED
  BY <1>1, <1>2, <1>3, PTL DEF Spec, FinalIsFinal

-----------------------------------------------------------------------------
(* The budget of restarts.  Filtering a list of times that stand in their  *)
(* order leaves an end of it.                                              *)

Keep(f, s, from) ==
  [i \in 0..Len(s) |-> IF i = 0 THEN <<>>
                       ELSE IF s[i] >= from THEN Append(f[i - 1], s[i]) ELSE f[i - 1]]
Filter(s, from) == (CHOOSE f : f = Keep(f, s, from))[Len(s)]

LEMMA AppendTime ==
  ASSUME NEW q \in Seq(Nat), NEW t \in Nat
  PROVE  /\ Append(q, t) \in Seq(Nat) /\ Len(Append(q, t)) = Len(q) + 1
         /\ Append(q, t)[Len(q) + 1] = t
         /\ \A j \in 1..Len(q) : Append(q, t)[j] = q[j]
OBVIOUS

LEMMA SubSeqEnds ==
  ASSUME NEW s \in Seq(Nat), NEW k \in 1..(Len(s) + 1), NEW i \in 0..Len(s)
  PROVE  /\ SubSeq(s, k, i) \in Seq(Nat)
         /\ i < k => SubSeq(s, k, i) = <<>>
         /\ i >= k => SubSeq(s, k, i) = Append(SubSeq(s, k, i - 1), s[i])
<1>1. Len(s) \in Nat /\ \A j \in 1..Len(s) : s[j] \in Nat
  OBVIOUS
<1>2. SubSeq(s, k, i) \in Seq(Nat) /\ Len(SubSeq(s, k, i)) = IF k <= i THEN i - k + 1 ELSE 0
  BY <1>1
<1>3. ASSUME i < k PROVE SubSeq(s, k, i) = <<>>
  BY <1>1, <1>2, <1>3
<1>4. ASSUME i >= k PROVE SubSeq(s, k, i) = Append(SubSeq(s, k, i - 1), s[i])
  <2> DEFINE a == SubSeq(s, k, i)  b == SubSeq(s, k, i - 1)  c == Append(b, s[i])
  <2>1. /\ a \in Seq(Nat) /\ Len(a) = i - k + 1
        /\ \A j \in 1..(i - k + 1) : a[j] = s[k + j - 1]
    BY <1>1, <1>4
  <2>2. /\ b \in Seq(Nat) /\ Len(b) = i - k
        /\ \A j \in 1..(i - k) : b[j] = s[k + j - 1]
    BY <1>1, <1>4
  <2>3. i - k \in Nat /\ s[i] \in Nat
    BY <1>1, <1>4
  <2> HIDE DEF a, b
  <2>4. /\ c \in Seq(Nat) /\ Len(c) = i - k + 1 /\ c[i - k + 1] = s[i]
        /\ \A j \in 1..(i - k) : c[j] = b[j]
    <3>1. PICK n \in Nat : n = i - k
      BY <2>3
    <3>2. /\ c \in Seq(Nat) /\ Len(c) = n + 1 /\ c[n + 1] = s[i]
          /\ \A j \in 1..n : c[j] = b[j]
      <4>1. b \in Seq(Nat) /\ s[i] \in Nat /\ Len(b) = n
        BY <2>2, <2>3, <3>1
      <4>2. /\ c \in Seq(Nat) /\ Len(c) = Len(b) + 1 /\ c[Len(b) + 1] = s[i]
            /\ \A j \in 1..Len(b) : c[j] = b[j]
        BY <4>1, AppendTime
      <4> QED
        BY <4>1, <4>2
    <3> QED
      BY <3>1, <3>2
  <2> HIDE DEF c
  <2>5. \A j \in 1..(i - k + 1) : a[j] = c[j]
    <3> SUFFICES ASSUME NEW j \in 1..(i - k + 1) PROVE a[j] = c[j]
      OBVIOUS
    <3>1. CASE j = i - k + 1
      BY <1>1, <2>1, <2>4, <3>1
    <3>2. CASE j # i - k + 1
      <4>1. j \in 1..(i - k)
        BY <1>1, <2>3, <3>2
      <4> QED
        BY <2>1, <2>2, <2>4, <4>1
    <3> QED
      BY <3>1, <3>2
  <2>6. a = c
    <3>1. PICK n : n = i - k + 1
      OBVIOUS
    <3>2. a = [j \in 1..n |-> a[j]] /\ c = [j \in 1..n |-> c[j]]
      BY <2>1, <2>4, <3>1
    <3>3. [j \in 1..n |-> a[j]] = [j \in 1..n |-> c[j]]
      BY <2>5, <3>1
    <3> QED
      BY <3>2, <3>3
  <2> QED
    BY <2>6 DEF a, b, c
<1> QED
  BY <1>2, <1>3, <1>4

\* The times kept are those from the first one in the window on.
LEMMA FilterIsEnd ==
  ASSUME NEW s \in Seq(Nat), NEW from \in Int, NEW k \in 1..(Len(s) + 1),
         \A i \in 1..(k - 1) : s[i] < from, \A i \in k..Len(s) : s[i] >= from
  PROVE  Filter(s, from) = SubSeq(s, k, Len(s))
<1> DEFINE end == [i \in 0..Len(s) |-> SubSeq(s, k, i)]
<1>1. Len(s) \in Nat /\ \A j \in 1..Len(s) : s[j] \in Nat
  OBVIOUS
<1>2. \A i \in 1..Len(s) : i - 1 \in 0..Len(s) /\ (IF s[i] >= from THEN i >= k ELSE i < k)
  BY <1>1
<1>3. ASSUME NEW i \in 0..Len(s)
      PROVE  SubSeq(s, k, i) = IF i = 0 THEN <<>>
                               ELSE IF s[i] >= from THEN Append(SubSeq(s, k, i - 1), s[i])
                               ELSE SubSeq(s, k, i - 1)
  <2>1. CASE i = 0
    <3>1. i < k
      BY <1>1, <2>1
    <3> QED
      BY <2>1, <3>1, SubSeqEnds
  <2>2. CASE i # 0
    <3>1. i \in 1..Len(s) /\ i - 1 \in 0..Len(s)
      BY <1>1, <2>2
    <3>2. CASE s[i] >= from
      BY <1>2, <2>2, <3>1, <3>2, SubSeqEnds
    <3>3. CASE ~(s[i] >= from)
      <4>1. i < k /\ i - 1 < k
        BY <1>1, <1>2, <3>1, <3>3
      <4>2. SubSeq(s, k, i) = <<>> /\ SubSeq(s, k, i - 1) = <<>>
        BY <3>1, <4>1, SubSeqEnds
      <4> QED
        BY <2>2, <3>3, <4>2
    <3> QED
      BY <3>2, <3>3
  <2> QED
    BY <2>1, <2>2
<1>4. end = Keep(end, s, from)
  <2>1. \A i \in 1..Len(s) : end[i - 1] = SubSeq(s, k, i - 1)
    BY <1>2
  <2>2. \A i \in 0..Len(s) : i = 0 \/ i \in 1..Len(s)
    BY <1>1
  <2>3. \A i \in 0..Len(s) : end[i] = Keep(end, s, from)[i]
    BY <1>3, <2>1, <2>2 DEF Keep
  <2> QED
    BY <2>3 DEF Keep
<1> HIDE DEF end
<1>5. PICK g : g = Keep(g, s, from) /\ Filter(s, from) = g[Len(s)]
  BY <1>4, Zenon DEF Filter
<1>6. /\ g[0] = <<>>
      /\ \A i \in 1..Len(s) : g[i] = IF s[i] >= from THEN Append(g[i - 1], s[i]) ELSE g[i - 1]
  <2>1. \A i \in 0..Len(s) : g[i] = IF i = 0 THEN <<>>
                       ELSE IF s[i] >= from THEN Append(g[i - 1], s[i]) ELSE g[i - 1]
    BY <1>5, Zenon DEF Keep
  <2>2. 0 \in 0..Len(s) /\ \A i \in 1..Len(s) : i \in 0..Len(s) /\ i # 0
    BY <1>1
  <2> QED
    BY <2>1, <2>2
<1>7. \A i \in 0..Len(s) : g[i] = SubSeq(s, k, i)
  <2> DEFINE bad == {i \in 0..Len(s) : g[i] # SubSeq(s, k, i)}
  <2> SUFFICES ASSUME bad # {} PROVE FALSE
    OBVIOUS
  <2>1. PICK i \in bad : \A j \in bad : i <= j
    <3>1. bad \subseteq Nat
      OBVIOUS
    <3> HIDE DEF bad
    <3> QED
      BY <3>1, LeastNumber
  <2>2. i \in 0..Len(s) /\ g[i] # SubSeq(s, k, i)
    BY <2>1
  <2>3. i # 0
    <3>1. 0 \in 0..Len(s)
      BY <1>1
    <3>2. SubSeq(s, k, 0) = <<>>
      BY <1>3, <3>1
    <3> QED
      BY <1>6, <2>2, <3>2
  <2>4. i \in 1..Len(s) /\ i - 1 \in 0..Len(s) /\ ~(i <= i - 1)
    BY <1>1, <2>2, <2>3
  <2>5. g[i - 1] = SubSeq(s, k, i - 1)
    BY <2>1, <2>4
  <2> QED
    BY <1>3, <1>6, <2>2, <2>3, <2>4, <2>5
<1>8. Len(s) \in 0..Len(s)
  BY <1>1
<1> QED
  BY <1>5, <1>7, <1>8

\* Where the window begins in a list of times that stand in their order.
LEMMA WindowBegins ==
  ASSUME NEW s \in Seq(Nat), NEW from \in Int,
         \A i, j \in 1..Len(s) : i <= j => s[i] <= s[j]
  PROVE  \E k \in 1..(Len(s) + 1) : /\ \A i \in 1..(k - 1) : s[i] < from
                                    /\ \A i \in k..Len(s) : s[i] >= from
<1> DEFINE in == {i \in 1..Len(s) : s[i] >= from}
<1>1. Len(s) \in Nat /\ \A j \in 1..Len(s) : s[j] \in Nat
  OBVIOUS
<1>2. CASE in = {}
  <2>1. Len(s) + 1 \in 1..(Len(s) + 1)
    BY <1>1
  <2>2. \A i \in 1..((Len(s) + 1) - 1) : s[i] < from
    <3> SUFFICES ASSUME NEW i \in 1..Len(s) PROVE s[i] < from
      BY <1>1
    <3>1. ~(s[i] >= from) /\ s[i] \in Nat
      BY <1>1, <1>2
    <3> QED
      BY <3>1
  <2>3. (Len(s) + 1)..Len(s) = {}
    BY <1>1
  <2> QED
    BY <2>1, <2>2, <2>3
<1>3. CASE in # {}
  <2>1. PICK k \in in : \A j \in in : k <= j
    <3>1. in \subseteq Nat
      OBVIOUS
    <3> HIDE DEF in
    <3> QED
      BY <1>3, <3>1, LeastNumber
  <2>2. k \in 1..Len(s) /\ s[k] >= from /\ k \in 1..(Len(s) + 1)
    BY <1>1, <2>1
  <2>3. ASSUME NEW i \in 1..(k - 1) PROVE s[i] < from
    <3>1. i \in 1..Len(s) /\ ~(k <= i)
      BY <1>1, <2>2
    <3>2. ~(s[i] >= from) /\ s[i] \in Nat
      BY <1>1, <2>1, <3>1
    <3> QED
      BY <3>2
  <2>4. ASSUME NEW i \in k..Len(s) PROVE s[i] >= from
    <3>1. i \in 1..Len(s) /\ k <= i
      BY <1>1, <2>2
    <3>2. s[k] <= s[i] /\ s[k] \in Nat /\ s[i] \in Nat
      BY <1>1, <2>2, <3>1
    <3> QED
      BY <2>2, <3>2
  <2> QED
    BY <2>2, <2>3, <2>4
<1> QED
  BY <1>2, <1>3

\* A child within its budget: TimesOK, and BudgetKept for it.
Window(decided, t) == {i \in DOMAIN decided : decided[i] \in (t - WithinMs)..t}
InBudget(r, at) ==
  TimesOK(r, at) /\ \A t \in 0..MaxTime : Cardinality(Window(r.decided, t)) <= MaxRestarts

LEMMA SameBudget ==
  ASSUME NEW r, NEW q, NEW at, InBudget(r, at), SameTimes(q, r) PROVE InBudget(q, at)
BY DEF InBudget, TimesOK, Pruned, SameTimes

\* Pruning the list of restart times leaves the end of the history that is in the window.
LEMMA PrunedTimes ==
  ASSUME NEW r, NEW at \in Nat, TimesOK(r, at)
  PROVE  LET recent == Filter(r.times, at - WithinMs)
             n == Len(r.decided) - Len(recent)
         IN /\ recent \in Seq(Nat) /\ Len(recent) <= MaxRestarts /\ n \in Nat
            /\ \A i \in 1..Len(recent) : recent[i] = r.decided[i + n]
            /\ \A i \in 1..n : r.decided[i] < at - WithinMs
<1>1. PICK s, d, p : s = r.times /\ d = r.decided /\ p = Pruned(r)
  OBVIOUS
<1>2. /\ s \in Seq(Nat) /\ d \in Seq(Nat) /\ Len(s) \in Nat /\ Len(d) \in Nat
      /\ p \in Nat /\ p = Len(d) - Len(s) /\ Len(s) <= MaxRestarts
      /\ \A i \in 1..Len(s) : s[i] = d[i + p]
      /\ \A i \in 1..p : d[i] < at - WithinMs
      /\ \A i, j \in 1..Len(d) : i <= j => d[i] <= d[j]
      /\ WithinMs \in Nat /\ MaxRestarts \in Nat
  <2>1. WithinMs \in Nat /\ MaxRestarts \in Nat
    BY SupervisorAssumption
  <2>2. /\ s \in Seq(Nat) /\ d \in Seq(Nat) /\ p \in Nat /\ Len(s) <= MaxRestarts
        /\ \A i \in 1..Len(s) : s[i] = d[i + p]
        /\ \A i \in 1..p : d[i] < at - WithinMs
        /\ \A i, j \in 1..Len(d) : i <= j => d[i] <= d[j]
    BY <1>1 DEF TimesOK
  <2>3. p = Len(d) - Len(s)
    BY <1>1 DEF Pruned
  <2>4. Len(s) \in Nat /\ Len(d) \in Nat
    BY <2>2
  <2> QED
    BY <2>1, <2>2, <2>3, <2>4
<1>3. \A i, j \in 1..Len(s) : i <= j => s[i] <= s[j]
  <2> SUFFICES ASSUME NEW i \in 1..Len(s), NEW j \in 1..Len(s), i <= j PROVE s[i] <= s[j]
    OBVIOUS
  <2>1. i + p \in 1..Len(d) /\ j + p \in 1..Len(d) /\ i + p <= j + p
    BY <1>2
  <2> QED
    BY <1>2, <2>1
<1>4. PICK k \in 1..(Len(s) + 1) : /\ \A i \in 1..(k - 1) : s[i] < at - WithinMs
                                   /\ \A i \in k..Len(s) : s[i] >= at - WithinMs
  <2>1. at - WithinMs \in Int
    BY <1>2
  <2> QED
    BY <1>2, <1>3, <2>1, WindowBegins
<1>5. PICK recent : recent = Filter(s, at - WithinMs)
  OBVIOUS
<1>6. recent = SubSeq(s, k, Len(s))
  <2>1. at - WithinMs \in Int
    BY <1>2
  <2> QED
    BY <1>2, <1>4, <1>5, <2>1, FilterIsEnd
<1>7. /\ recent \in Seq(Nat) /\ Len(recent) = Len(s) - k + 1
      /\ \A i \in 1..(Len(s) - k + 1) : recent[i] = s[k + i - 1]
  <2>1. s \in Seq(Nat) /\ Len(s) \in Nat /\ k \in 1..(Len(s) + 1)
    BY <1>2
  <2>2. SubSeq(s, k, Len(s)) \in Seq(Nat)
    BY <2>1, SubSeqEnds
  <2>3. Len(SubSeq(s, k, Len(s))) = Len(s) - k + 1
    BY <2>1
  <2>4. \A i \in 1..(Len(s) - k + 1) : SubSeq(s, k, Len(s))[i] = s[k + i - 1]
    BY <2>1
  <2> QED
    BY <1>6, <2>2, <2>3, <2>4
<1>8. PICK n \in Nat : n = Len(d) - Len(recent) /\ n = p + k - 1
  <2>1. Len(d) - Len(recent) = p + k - 1 /\ p + k - 1 \in Nat
    BY <1>2, <1>7
  <2> QED
    BY <2>1
<1>9. Len(recent) <= MaxRestarts
  BY <1>2, <1>7
<1>10. ASSUME NEW i \in 1..Len(recent) PROVE recent[i] = d[i + n]
  <2>1. k + i - 1 \in 1..Len(s) /\ i \in 1..(Len(s) - k + 1) /\ (k + i - 1) + p = i + n
    BY <1>2, <1>7, <1>8
  <2>2. recent[i] = s[k + i - 1] /\ s[k + i - 1] = d[(k + i - 1) + p]
    BY <1>2, <1>7, <2>1
  <2> QED
    BY <2>1, <2>2
<1>11. ASSUME NEW i \in 1..n PROVE d[i] < at - WithinMs
  <2>1. CASE i <= p
    <3>1. i \in 1..p
      BY <1>2, <2>1
    <3> QED
      BY <1>2, <3>1
  <2>2. CASE ~(i <= p)
    <3>1. i - p \in 1..(k - 1) /\ i - p \in 1..Len(s) /\ (i - p) + p = i
      <4>1. Len(s) \in Nat /\ p \in Nat /\ n = p + k - 1 /\ k \in 1..(Len(s) + 1)
        BY <1>2, <1>8
      <4>2. i \in Nat /\ i > p /\ i <= n
        BY <1>8, <4>1, <2>2
      <4> QED
        BY <4>1, <4>2
    <3>2. s[i - p] < at - WithinMs /\ s[i - p] = d[(i - p) + p]
      BY <1>2, <1>4, <3>1
    <3> QED
      BY <3>1, <3>2
  <2> QED
    BY <2>1, <2>2
<1> QED
  BY <1>1, <1>5, <1>7, <1>8, <1>9, <1>10, <1>11

\* A child whose budget is used up keeps the pruned list, and is final.
LEMMA PrunedBudget ==
  ASSUME NEW r, NEW at \in Nat, InBudget(r, at), NEW q,
         q.times = Filter(r.times, at - WithinMs), q.decided = r.decided
  PROVE  InBudget(q, at)
<1>1. PICK recent : recent = Filter(r.times, at - WithinMs)
  OBVIOUS
<1>2. PICK n : n = Len(r.decided) - Len(recent)
  OBVIOUS
<1>3. /\ recent \in Seq(Nat) /\ Len(recent) <= MaxRestarts /\ n \in Nat
      /\ \A i \in 1..Len(recent) : recent[i] = r.decided[i + n]
      /\ \A i \in 1..n : r.decided[i] < at - WithinMs
  BY <1>1, <1>2, PrunedTimes DEF InBudget
<1>4. Pruned(q) = n /\ q.times = recent /\ q.decided = r.decided
  BY <1>1, <1>2 DEF Pruned
<1>5. TimesOK(q, at)
  BY <1>3, <1>4 DEF InBudget, TimesOK
<1> QED
  BY <1>4, <1>5 DEF InBudget

\* One more restart: whatever window it falls into holds only what the pruned list holds.
LEMMA PlannedBudget ==
  ASSUME NEW r, NEW at \in Nat, InBudget(r, at), NEW q, NEW recent,
         recent = Filter(r.times, at - WithinMs), ~(Len(recent) >= MaxRestarts),
         q.times = Append(recent, at), q.decided = Append(r.decided, at)
  PROVE  InBudget(q, at)
<1>1. PICK d, n, e, m : d = r.decided /\ n = Len(d) - Len(recent) /\ e = q.decided /\ m = q.times
  OBVIOUS
<1>2. /\ recent \in Seq(Nat) /\ n \in Nat /\ Len(recent) \in Nat /\ d \in Seq(Nat)
      /\ Len(d) \in Nat /\ MaxRestarts \in Nat /\ WithinMs \in Nat /\ MaxTime \in Nat
      /\ Len(d) = n + Len(recent) /\ Len(recent) + 1 <= MaxRestarts
      /\ \A i \in 1..Len(recent) : recent[i] = d[i + n]
      /\ \A i \in 1..n : d[i] < at - WithinMs
      /\ \A i \in 1..Len(d) : d[i] <= at
      /\ \A i, j \in 1..Len(d) : i <= j => d[i] <= d[j]
      /\ \A t \in 0..MaxTime : Cardinality(Window(d, t)) <= MaxRestarts
  <2>1. TimesOK(r, at)
    BY DEF InBudget
  <2>2. /\ recent \in Seq(Nat) /\ n \in Nat
        /\ \A i \in 1..Len(recent) : recent[i] = d[i + n]
        /\ \A i \in 1..n : d[i] < at - WithinMs
    BY <1>1, <2>1, PrunedTimes
  <2>3. /\ d \in Seq(Nat) /\ \A i \in 1..Len(d) : d[i] <= at
        /\ \A i, j \in 1..Len(d) : i <= j => d[i] <= d[j]
    BY <1>1, <2>1 DEF TimesOK
  <2>4. /\ Len(recent) \in Nat /\ Len(d) \in Nat /\ MaxRestarts \in Nat
        /\ WithinMs \in Nat /\ MaxTime \in Nat
    BY <2>2, <2>3, SupervisorAssumption
  <2>5. Len(d) = n + Len(recent) /\ Len(recent) + 1 <= MaxRestarts
    BY <1>1, <2>2, <2>4
  <2>6. \A t \in 0..MaxTime : Cardinality(Window(d, t)) <= MaxRestarts
    BY <1>1 DEF InBudget
  <2> QED
    BY <2>2, <2>3, <2>4, <2>5, <2>6
<1>3. /\ m \in Seq(Nat) /\ Len(m) = Len(recent) + 1 /\ m[Len(recent) + 1] = at
      /\ \A i \in 1..Len(recent) : m[i] = recent[i]
  <2>1. m = Append(recent, at)
    BY <1>1
  <2>2. recent \in Seq(Nat)
    BY <1>2
  <2> QED
    BY <2>1, <2>2, AppendTime
<1>4. /\ e \in Seq(Nat) /\ Len(e) = Len(d) + 1 /\ e[Len(d) + 1] = at
      /\ \A i \in 1..Len(d) : e[i] = d[i] /\ d[i] \in Nat
  <2>1. e = Append(d, at)
    BY <1>1
  <2>2. d \in Seq(Nat)
    BY <1>2
  <2>3. \A i \in 1..Len(d) : d[i] \in Nat
    BY <2>2
  <2> QED
    BY <2>1, <2>2, <2>3, AppendTime
<1>5. Pruned(q) = n
  <2>1. Len(e) - Len(m) = n
    BY <1>2, <1>3, <1>4
  <2> QED
    BY <1>1, <2>1 DEF Pruned
<1>6. \A i \in 1..Len(m) : m[i] = e[i + n]
  <2> SUFFICES ASSUME NEW i \in 1..Len(m) PROVE m[i] = e[i + n]
    OBVIOUS
  <2>1. CASE i = Len(recent) + 1
    <3>1. i + n = Len(d) + 1
      BY <1>2, <2>1
    <3> QED
      BY <1>3, <1>4, <2>1, <3>1
  <2>2. CASE i # Len(recent) + 1
    <3>1. i \in 1..Len(recent) /\ i + n \in 1..Len(d)
      BY <1>2, <1>3, <2>2
    <3> QED
      BY <1>2, <1>3, <1>4, <3>1
  <2> QED
    BY <2>1, <2>2
<1>7. \A i \in 1..n : e[i] < at - WithinMs
  <2>1. \A i \in 1..n : i \in 1..Len(d)
    BY <1>2
  <2> QED
    BY <1>2, <1>4, <2>1
<1>8. /\ \A i \in 1..Len(e) : e[i] <= at
      /\ \A i, j \in 1..Len(e) : i <= j => e[i] <= e[j]
  <2>1. \A i \in 1..Len(e) : i \in 1..Len(d) \/ i = Len(d) + 1
    BY <1>2, <1>4
  <2>2. \A i \in 1..Len(e) : e[i] <= at
    <3> SUFFICES ASSUME NEW i \in 1..Len(e) PROVE e[i] <= at
      OBVIOUS
    <3>1. CASE i \in 1..Len(d)
      BY <1>2, <1>4, <3>1
    <3>2. CASE i = Len(d) + 1
      BY <1>4, <3>2
    <3> QED
      BY <2>1, <3>1, <3>2
  <2>3. ASSUME NEW i \in 1..Len(e), NEW j \in 1..Len(e), i <= j PROVE e[i] <= e[j]
    <3>1. CASE j = Len(d) + 1
      BY <1>4, <2>2, <3>1
    <3>2. CASE j # Len(d) + 1
      <4>1. j \in 1..Len(d) /\ i \in 1..Len(d)
        <5>1. Len(d) \in Nat /\ j \in 1..(Len(d) + 1) /\ i \in 1..(Len(d) + 1)
          BY <1>2, <1>4
        <5> QED
          BY <2>3, <3>2, <5>1
      <4> QED
        BY <1>2, <1>4, <2>3, <4>1
    <3> QED
      BY <3>1, <3>2
  <2> QED
    BY <2>2, <2>3
<1>9. TimesOK(q, at)
  <2>1. Len(m) <= MaxRestarts
    BY <1>2, <1>3
  <2> QED
    BY <1>1, <1>2, <1>3, <1>4, <1>5, <1>6, <1>7, <1>8, <2>1 DEF TimesOK
<1>10. ASSUME NEW t \in 0..MaxTime PROVE Cardinality(Window(e, t)) <= MaxRestarts
  <2>1. DOMAIN e = 1..(Len(d) + 1) /\ DOMAIN d = 1..Len(d)
    BY <1>2, <1>4
  <2>2. CASE t < at
    <3>1. at \notin (t - WithinMs)..t
      BY <1>2, <2>2
    <3>2. Window(e, t) = Window(d, t)
      <4>0. Len(d) \in Nat
        BY <1>2
      <4>1. \A i \in 1..(Len(d) + 1) : i \in 1..Len(d) \/ i = Len(d) + 1
        BY <4>0
      <4>2. \A i \in 1..Len(d) : i \in 1..(Len(d) + 1)
        BY <4>0
      <4> QED
        BY <1>4, <2>1, <3>1, <4>1, <4>2 DEF Window
    <3> QED
      BY <1>2, <3>2
  <2>3. CASE ~(t < at)
    <3>1. Window(e, t) \subseteq (n + 1)..(Len(d) + 1)
      <4> SUFFICES ASSUME NEW i \in Window(e, t) PROVE i \in (n + 1)..(Len(d) + 1)
        OBVIOUS
      <4>1. i \in 1..(Len(d) + 1) /\ e[i] \in (t - WithinMs)..t
        BY <2>1 DEF Window
      <4>2. i \notin 1..n
        <5> SUFFICES ASSUME i \in 1..n PROVE FALSE
          OBVIOUS
        <5>1. e[i] < at - WithinMs
          BY <1>7
        <5> QED
          BY <1>2, <2>3, <4>1, <5>1
      <4> QED
        BY <1>2, <4>1, <4>2
    <3>2. /\ IsFiniteSet((n + 1)..(Len(d) + 1))
          /\ Cardinality((n + 1)..(Len(d) + 1)) = Len(recent) + 1
      <4>1. n + 1 \in Int /\ Len(d) + 1 \in Int /\ ~(n + 1 > Len(d) + 1)
            /\ (Len(d) + 1) - (n + 1) + 1 = Len(recent) + 1
        BY <1>2
      <4> QED
        BY <4>1, FS_Interval
    <3>3. /\ Cardinality(Window(e, t)) \in Nat
          /\ Cardinality(Window(e, t)) <= Len(recent) + 1
      <4>1. PICK S : S = (n + 1)..(Len(d) + 1)
        OBVIOUS
      <4>2. IsFiniteSet(S) /\ Window(e, t) \subseteq S /\ Cardinality(S) = Len(recent) + 1
        BY <3>1, <3>2, <4>1
      <4>3. IsFiniteSet(Window(e, t)) /\ Cardinality(Window(e, t)) <= Cardinality(S)
        BY <4>2, FS_Subset
      <4> QED
        BY <4>2, <4>3, FS_CardinalityType
    <3> QED
      BY <1>2, <3>3
  <2> QED
    BY <2>2, <2>3
<1> QED
  BY <1>1, <1>9, <1>10 DEF InBudget

LEMMA InWindowFilters == ASSUME NEW r PROVE InWindow(r) = Filter(r.times, now - WithinMs)
BY Zenon DEF InWindow, Filter, Keep

\* Restarting keeps the budget of every child, also of those it interrupts.
LEMMA ScheduleRestartBudget ==
  ASSUME NEW c \in Children, NEW cs, OthersLive(cs, c), NEW exit \in Exits,
         now \in Nat, NEW x \in Children, InBudget(cs[x], now)
  PROVE  InBudget(ScheduleRestart(cs, c, exit)[x], now)
<1>1. PICK recent : recent = InWindow(cs[c])
  OBVIOUS
<1>2. PICK kept : kept = [cs EXCEPT ![c].times = recent]
  OBVIOUS
<1>3. PICK r, at : r = cs[c] /\ at = now
  OBVIOUS
<1>4. /\ DOMAIN kept = Children /\ kept[c] = [r EXCEPT !.times = recent]
      /\ \A y \in Children \ {c} : kept[y] = cs[y]
  BY <1>2, <1>3 DEF OthersLive
<1>5. OthersLive(kept, c)
  <2>1. Between(kept[c])
    BY <1>3, <1>4, TimesLife DEF OthersLive
  <2> QED
    BY <1>4, <2>1 DEF OthersLive
<1>6. recent = Filter(r.times, at - WithinMs)
  BY <1>1, <1>3, InWindowFilters
<1>7. CASE Len(recent) >= MaxRestarts
  <2>1. ScheduleRestart(cs, c, exit) = Escalate(kept, c, exit)
    BY <1>1, <1>2, <1>7 DEF ScheduleRestart
  <2>2. InBudget(kept[x], now)
    <3>1. CASE x = c
      <4>1. PICK q : q = kept[c]
        OBVIOUS
      <4>2. q.times = recent /\ q.decided = r.decided
        BY <1>3, <1>4, <4>1 DEF OthersLive, Between, IsChild
      <4>3. at \in Nat /\ InBudget(r, at)
        BY <1>3, <3>1
      <4> QED
        BY <1>3, <1>6, <3>1, <4>1, <4>2, <4>3, PrunedBudget
    <3>2. CASE x # c
      BY <1>4, <3>2
    <3> QED
      BY <3>1, <3>2
  <2>3. SameTimes(Escalate(kept, c, exit)[x], kept[x])
    BY <1>5, EscalateKeeps
  <2> QED
    BY <2>1, <2>2, <2>3, SameBudget
<1>8. CASE ~(Len(recent) >= MaxRestarts)
  <2>1. PICK n : n = Planned(r, recent)
    OBVIOUS
  <2>2. ScheduleRestart(cs, c, exit) = [cs EXCEPT ![c] = n]
    BY <1>1, <1>3, <1>8, <2>1 DEF ScheduleRestart, OthersLive
  <2>3. CASE x = c
    <3>1. n.times = Append(recent, at) /\ n.decided = Append(r.decided, at)
      BY <1>3, <2>1 DEF Planned, OthersLive, Between, IsChild
    <3>2. at \in Nat /\ InBudget(r, at)
      BY <1>3, <2>3
    <3>3. InBudget(n, at)
      BY <1>6, <1>8, <3>1, <3>2, PlannedBudget
    <3> QED
      BY <1>3, <2>2, <2>3, <3>3 DEF OthersLive
  <2>4. CASE x # c
    BY <2>2, <2>4 DEF OthersLive
  <2> QED
    BY <2>3, <2>4
<1> QED
  BY <1>7, <1>8

LEMMA OnChildExitBudget ==
  ASSUME Lives(child), closed \in BOOLEAN, now \in Nat,
         NEW c \in Children, Alive(child[c]), NEW exit \in Exits,
         NEW x \in Children, InBudget(child[x], now)
  PROVE  InBudget(OnChildExit(c, exit)[x], now)
<1>1. PICK r : r = child[c]
  OBVIOUS
<1>2. PICK g : g = [r EXCEPT !.current = "none"]
  OBVIOUS
<1>3. PICK ended : ended = [child EXCEPT ![c].current = "none"]
  OBVIOUS
<1>4. LifeOK(r) /\ Alive(r)
  BY <1>1 DEF Lives
<1>5. Between(g) /\ SameTimes(g, r)
  BY <1>2, <1>4 DEF LifeOK, IsChild, Statuses, Heard, Between, Started, Alive, Ended, SameTimes
<1>6. /\ DOMAIN ended = Children /\ ended[c] = g
      /\ \A y \in Children \ {c} : ended[y] = child[y]
  BY <1>1, <1>2, <1>3 DEF Lives
<1>7. OthersLive(ended, c)
  BY <1>5, <1>6 DEF OthersLive, Lives
<1>8. InBudget(ended[x], now)
  <2>1. CASE x = c
    BY <1>1, <1>5, <1>6, <2>1, SameBudget
  <2>2. CASE x # c
    BY <1>6, <2>2
  <2> QED
    BY <2>1, <2>2
<1>9. PICK after : after = OnChildExit(c, exit)
  OBVIOUS
<1>10. PICK all : all = RestartAll(ended, c)
  OBVIOUS
<1>11. \/ after = [ended EXCEPT ![c] = Finished(@, exit)]
       \/ after = ScheduleRestart(ended, c, exit)
       \/ after = ScheduleRestart(all, c, exit)
  BY <1>3, <1>9, <1>10 DEF OnChildExit
<1>12. CASE after = [ended EXCEPT ![c] = Finished(@, exit)]
  <2>1. SameTimes(Finished(g, exit), g)
    BY <1>5, FinishedKeeps
  <2>2. SameTimes(after[x], ended[x])
    BY <1>6, <1>12, <2>1 DEF SameTimes
  <2> QED
    BY <1>8, <1>9, <2>2, SameBudget
<1>13. CASE after = ScheduleRestart(ended, c, exit)
  BY <1>7, <1>8, <1>9, <1>13, ScheduleRestartBudget
<1>14. CASE after = ScheduleRestart(all, c, exit)
  <2>1. OthersLive(all, c) /\ SameTimes(all[x], ended[x])
    BY <1>7, <1>10, RestartAllLives, RestartAllKeeps
  <2>2. InBudget(all[x], now)
    BY <1>8, <2>1, SameBudget
  <2> QED
    BY <1>9, <1>14, <2>1, <2>2, ScheduleRestartBudget
<1> QED
  BY <1>11, <1>12, <1>13, <1>14

\* Every step but the exit of a fiber leaves the times of each child alone.
LEMMA NextSameTimes ==
  ASSUME SupInv, [Next]_vars, NEW x \in Children,
         ~\E c \in Children, exit \in Exits : Exit(c, exit)
  PROVE  SameTimes(child'[x], child[x])
<1>1. DOMAIN child = Children /\ \A c \in Children : LifeOK(child[c])
  BY DEF SupInv, Lives
<1>2. ASSUME NEW c \in Children, Start(c) PROVE SameTimes(child'[x], child[x])
  <2>1. PICK r : r = child[c]
    OBVIOUS
  <2>2. child' = [child EXCEPT ![c] = Launched(r)] /\ IsChild(r)
    BY <1>1, <1>2, <2>1 DEF Start, LifeOK
  <2>3. SameTimes(Launched(r), r)
    BY <2>2 DEF Launched, IsChild, SameTimes
  <2> QED
    BY <1>1, <2>1, <2>2, <2>3 DEF SameTimes
<1>3. ASSUME NEW c \in Children, Join(c) PROVE SameTimes(child'[x], child[x])
  BY <1>1, <1>3 DEF Join, LifeOK, IsChild, SameTimes
<1>4. ASSUME NEW c \in Children, TimerFires(c) PROVE SameTimes(child'[x], child[x])
  <2>1. PICK r, p : r = child[c] /\ p = [r EXCEPT !.timer = FALSE]
    OBVIOUS
  <2>2. r.timer /\ LifeOK(r) /\ ~closed
    BY <1>1, <1>4, <2>1 DEF TimerFires, SupInv
  <2>3. IsChild(p) /\ SameTimes(p, r)
    BY <2>1, <2>2 DEF LifeOK, IsChild, SameTimes
  <2>4. SameTimes(Launched(p), p)
    BY <2>3 DEF Launched, IsChild, SameTimes
  <2>5. child' = [child EXCEPT ![c] = Launched(p)]
    BY <1>4, <2>1, <2>2 DEF TimerFires
  <2> QED
    BY <1>1, <2>1, <2>3, <2>4, <2>5 DEF SameTimes
<1>5. ASSUME NEW c \in Children, Interrupt(c) PROVE SameTimes(child'[x], child[x])
  <2>1. PICK r : r = child[c]
    OBVIOUS
  <2>2. LifeOK(r) /\ Started(r) /\ child' = [child EXCEPT ![c] = Stopped(r)]
    BY <1>1, <1>5, <2>1 DEF Interrupt
  <2>3. SameTimes(Stopped(r), r)
    BY <2>2, StoppedKeeps
  <2> QED
    BY <1>1, <2>1, <2>2, <2>3 DEF SameTimes
<1>6. ASSUME NEW s \in Callers, Shutdown(s) PROVE SameTimes(child'[x], child[x])
  <2>1. PICK r : r = child[x]
    OBVIOUS
  <2>2. LifeOK(r)
    BY <1>1, <2>1
  <2>3. PICK p : p = [r EXCEPT !.status = "interrupted"]
    OBVIOUS
  <2>4. child'[x] = CASE ~Started(r) -> r [] Alive(r) -> Stopped(p) [] OTHER -> Stopped(r)
    BY <1>6, <2>1, <2>3 DEF Shutdown
  <2>5. CASE ~Started(r)
    <3>1. child'[x] = r
      BY <2>2, <2>4, <2>5 DEF LifeOK
    <3> QED
      BY <2>1, <3>1 DEF SameTimes
  <2>6. CASE Started(r) /\ Alive(r)
    <3>1. /\ IsChild(p) /\ p.current = r.current /\ p.timer = r.timer
          /\ p.status = "interrupted" /\ p.terminal = r.terminal /\ p.joined = r.joined
          /\ SameTimes(p, r)
      BY <2>2, <2>3 DEF LifeOK, IsChild, Statuses, SameTimes
    <3>2. LifeOK(p) /\ Started(p)
      BY <2>2, <2>6, <3>1 DEF LifeOK, Started, Alive, Ended
    <3>3. child'[x] = Stopped(p)
      BY <2>4, <2>6
    <3> QED
      BY <2>1, <3>1, <3>2, <3>3, StoppedKeeps DEF SameTimes
  <2>7. CASE Started(r) /\ ~Alive(r)
    BY <2>1, <2>2, <2>4, <2>7, StoppedKeeps
  <2> QED
    BY <2>5, <2>6, <2>7
<1>7. CASE Tick \/ UNCHANGED vars
  BY <1>7 DEF Tick, vars, SameTimes
<1> QED
  BY <1>2, <1>3, <1>4, <1>5, <1>6, <1>7 DEF Next

\* What has left the window does not come back into it.
LEMMA LaterBudget ==
  ASSUME NEW r, NEW at \in Nat, NEW later \in Nat, at <= later, InBudget(r, at)
  PROVE  InBudget(r, later)
<1>1. WithinMs \in Nat
  BY SupervisorAssumption
<1>2. PICK d, p : d = r.decided /\ p = Pruned(r)
  OBVIOUS
<1>3. /\ d \in Seq(Nat) /\ p \in Nat /\ p <= Len(d) /\ Len(d) \in Nat
      /\ \A i \in 1..p : d[i] < at - WithinMs
      /\ \A i \in 1..Len(d) : d[i] <= at
  <2>1. r.times \in Seq(Nat) /\ p = Len(d) - Len(r.times) /\ d \in Seq(Nat) /\ p \in Nat
    BY <1>2 DEF InBudget, TimesOK, Pruned
  <2>2. Len(r.times) \in Nat /\ Len(d) \in Nat
    BY <2>1
  <2>3. p <= Len(d)
    BY <2>1, <2>2
  <2> QED
    BY <1>2, <2>1, <2>2, <2>3 DEF InBudget, TimesOK
<1>4. \A i \in 1..Len(d) : d[i] \in Nat
  BY <1>3
<1>5. \A i \in 1..p : d[i] < later - WithinMs
  BY <1>1, <1>3, <1>4
<1>6. \A i \in 1..Len(d) : d[i] <= later
  BY <1>3, <1>4
<1> QED
  BY <1>2, <1>5, <1>6 DEF InBudget, TimesOK

\* BudgetInv of Supervisor, child by child.
Budget == now \in Nat /\ \A c \in Children : InBudget(child[c], now)

LEMMA BudgetIsBudget == BudgetInv <=> Budget
BY DEF BudgetInv, Budget, BudgetKept, InBudget, Window

LEMMA BudgetInit == Init => Budget
<1> SUFFICES ASSUME Init PROVE Budget
  OBVIOUS
<1>1. PICK r : r = Unstarted
  OBVIOUS
<1>2. r.times = <<>> /\ r.decided = <<>>
  BY <1>1 DEF Unstarted
<1>3. MaxRestarts \in Nat
  BY SupervisorAssumption
<1>4. TimesOK(r, 0)
  BY <1>2, <1>3 DEF TimesOK, Pruned
<1>5. ASSUME NEW t \in 0..MaxTime PROVE Cardinality(Window(r.decided, t)) <= MaxRestarts
  <2>1. Window(r.decided, t) = {}
    BY <1>2 DEF Window
  <2> QED
    BY <1>3, <2>1, FS_EmptySet
<1> QED
  BY <1>1, <1>4, <1>5 DEF Init, Budget, InBudget

LEMMA BudgetNext == SupInv /\ Budget /\ [Next]_vars => Budget'
<1> SUFFICES ASSUME SupInv, Budget, [Next]_vars PROVE Budget'
  OBVIOUS
<1>1. PICK kids : kids = child'
  OBVIOUS
<1>2. PICK later : later = now'
  OBVIOUS
<1>3. later \in Nat /\ now <= later
  <2>1. now' \in {now, now + 1}
    BY DEF Next, Start, Join, Exit, TimerFires, Interrupt, Shutdown, Tick, vars
  <2>2. now \in Nat
    BY DEF Budget
  <2> QED
    BY <1>2, <2>1, <2>2
<1>4. ASSUME NEW x \in Children PROVE InBudget(kids[x], later)
  <2>1. InBudget(child[x], now) /\ now \in Nat
    BY DEF Budget
  <2>2. InBudget(kids[x], now)
    <3>1. CASE \E c \in Children, exit \in Exits : Exit(c, exit)
      <4>1. PICK c \in Children, exit \in Exits : Exit(c, exit)
        BY <3>1
      <4>2. kids = OnChildExit(c, exit) /\ Alive(child[c])
        BY <1>1, <4>1 DEF Exit
      <4> QED
        BY <2>1, <4>2, OnChildExitBudget DEF SupInv
    <3>2. CASE ~\E c \in Children, exit \in Exits : Exit(c, exit)
      <4>1. SameTimes(kids[x], child[x])
        BY <1>1, <3>2, NextSameTimes
      <4> QED
        BY <2>1, <4>1, SameBudget
    <3> QED
      BY <3>1, <3>2
  <2> QED
    BY <1>3, <2>1, <2>2, LaterBudget
<1> QED
  BY <1>1, <1>2, <1>3, <1>4 DEF Budget, InBudget, TimesOK

-----------------------------------------------------------------------------
(* Whatever is pruned from the list of restart times, and whichever exits, *)
(* interrupts and timers interleave, no window of WithinMs holds more than *)
(* MaxRestarts restarts of a child.                                        *)
THEOREM BudgetKeptTheorem == Spec => []BudgetKept
<1>1. Spec => []SupInv
  BY SupInit, SupNext, PTL DEF Spec
<1>2. Init => Budget
  BY BudgetInit
<1>3. SupInv /\ Budget /\ [Next]_vars => Budget'
  BY BudgetNext
<1>4. Budget => BudgetKept
  BY BudgetIsBudget DEF BudgetInv
<1> QED
  BY <1>1, <1>2, <1>3, <1>4, PTL DEF Spec

-----------------------------------------------------------------------------
(* The queue: sequences of values that rise.                               *)

LEMMA RisingAppend ==
  ASSUME NEW q \in Seq(Nat), NEW v \in Nat, Rising(q), \A w \in ToSet(q) : w < v
  PROVE  Rising(Append(q, v))
<1> DEFINE r == Append(q, v)
<1>1. /\ r \in Seq(Nat) /\ Len(r) = Len(q) + 1 /\ r[Len(q) + 1] = v
      /\ \A i \in 1..Len(q) : r[i] = q[i]
      /\ Len(q) \in Nat /\ DOMAIN q = 1..Len(q) /\ DOMAIN r = 1..(Len(q) + 1)
  BY AppendProperties
<1> HIDE DEF r
<1>2. \A i \in 1..Len(q) : q[i] < v
  BY <1>1 DEF ToSet
<1>3. \A i, j \in 1..Len(q) : i < j => q[i] < q[j]
  BY <1>1 DEF Rising
<1>4. ASSUME NEW i \in 1..(Len(q) + 1), NEW j \in 1..(Len(q) + 1), i < j
      PROVE  r[i] < r[j]
  <2>1. i \in 1..Len(q) /\ (j \in 1..Len(q) \/ j = Len(q) + 1)
    <3>1. PICK n \in Nat : n = Len(q)
      BY <1>1
    <3>2. i \in 1..(n + 1) /\ j \in 1..(n + 1)
      BY <3>1
    <3> QED
      BY <1>4, <3>1, <3>2
  <2> QED
    BY <1>1, <1>2, <1>3, <1>4, <2>1
<1>5. Rising(r)
  BY <1>1, <1>4 DEF Rising
<1> QED
  BY <1>5 DEF r

LEMMA RisingTail ==
  ASSUME NEW q \in Seq(Nat), q # <<>>, Rising(q)
  PROVE  /\ Rising(Tail(q)) /\ IsInjective(q)
         /\ \A w \in ToSet(Tail(q)) : Head(q) < w
<1> DEFINE r == Tail(q)
<1>1. /\ r \in Seq(Nat) /\ Len(r) = Len(q) - 1 /\ Len(q) \in Nat \ {0}
      /\ DOMAIN q = 1..Len(q) /\ DOMAIN r = 1..(Len(q) - 1)
      /\ Head(q) = q[1] /\ \A i \in 1..Len(q) : q[i] \in Nat
      /\ \A i \in 1..(Len(q) - 1) : r[i] = q[i + 1]
  BY EmptySeq, HeadTailProperties
<1> HIDE DEF r
<1>2. \A i, j \in 1..Len(q) : i < j => q[i] < q[j]
  BY <1>1 DEF Rising
<1>3. ASSUME NEW i \in 1..(Len(q) - 1), NEW j \in 1..(Len(q) - 1), i < j
      PROVE  r[i] < r[j]
  <2>1. i + 1 \in 1..Len(q) /\ j + 1 \in 1..Len(q) /\ i + 1 < j + 1
    BY <1>1, <1>3
  <2> QED
    BY <1>1, <1>2, <2>1
<1>4. Rising(r)
  BY <1>1, <1>3 DEF Rising
<1>5. IsInjective(q)
  BY <1>1, <1>2 DEF IsInjective
<1>6. ASSUME NEW i \in 1..(Len(q) - 1) PROVE Head(q) < r[i]
  <2>1. 1 \in 1..Len(q) /\ i + 1 \in 1..Len(q) /\ 1 < i + 1
    BY <1>1
  <2> QED
    BY <1>1, <1>2, <2>1
<1>7. \A w \in ToSet(r) : Head(q) < w
  BY <1>1, <1>6 DEF ToSet
<1> QED
  BY <1>4, <1>5, <1>7 DEF r

LEMMA RisingRemoveAt ==
  ASSUME NEW q \in Seq(Nat), NEW i \in DOMAIN q, Rising(q)
  PROVE  Rising(RemoveAt(q, i)) /\ IsInjective(q)
<1> DEFINE r == RemoveAt(q, i)
<1>0. DOMAIN q = 1..Len(q) /\ Len(q) \in Nat /\ \A j \in 1..Len(q) : q[j] \in Nat
  OBVIOUS
<1>1. /\ DOMAIN q = 1..Len(q) /\ Len(q) \in Nat /\ \A j \in 1..Len(q) : q[j] \in Nat
      /\ r \in Seq(Nat) /\ Len(r) = Len(q) - 1
      /\ \A j \in 1..(Len(q) - 1) : r[j] = IF j < i THEN q[j] ELSE q[j + 1]
  BY <1>0, RemoveAtProperties
<1>2. i \in Nat /\ DOMAIN r = 1..(Len(q) - 1)
  BY <1>1
<1> HIDE DEF r
<1>3. \A j, k \in 1..Len(q) : j < k => q[j] < q[k]
  BY <1>1 DEF Rising
<1>4. ASSUME NEW j \in 1..(Len(q) - 1), NEW k \in 1..(Len(q) - 1), j < k
      PROVE  r[j] < r[k]
  <2> DEFINE at(x) == IF x < i THEN x ELSE x + 1
  <2>1. at(j) \in 1..Len(q) /\ at(k) \in 1..Len(q) /\ at(j) < at(k)
    <3>1. PICK n \in Nat : n = Len(q)
      BY <1>0
    <3>2. j \in 1..(n - 1) /\ k \in 1..(n - 1) /\ i \in 1..n
      BY <1>0, <3>1
    <3> QED
      BY <1>4, <3>1, <3>2
  <2>2. r[j] = q[at(j)] /\ r[k] = q[at(k)]
    BY <1>1
  <2> QED
    BY <1>3, <2>1, <2>2
<1>5. Rising(r)
  BY <1>2, <1>4 DEF Rising
<1>6. IsInjective(q)
  BY <1>1, <1>3 DEF IsInjective
<1> QED
  BY <1>5, <1>6 DEF r

\* Two places in a row: what they hold together, and in which order.
LEMMA ConcatSet ==
  ASSUME NEW S, NEW a \in Seq(S), NEW b \in Seq(S)
  PROVE  a \o b \in Seq(S) /\ ToSet(a \o b) = ToSet(a) \cup ToSet(b)
<1> DEFINE r == a \o b
<1>1. /\ r \in Seq(S) /\ Len(r) = Len(a) + Len(b) /\ Len(a) \in Nat /\ Len(b) \in Nat
      /\ DOMAIN a = 1..Len(a) /\ DOMAIN b = 1..Len(b) /\ DOMAIN r = 1..(Len(a) + Len(b))
      /\ \A i \in 1..(Len(a) + Len(b)) : r[i] = IF i <= Len(a) THEN a[i] ELSE b[i - Len(a)]
  BY ConcatProperties
<1> HIDE DEF r
<1>2. ToSet(r) \subseteq ToSet(a) \cup ToSet(b)
  <2> SUFFICES ASSUME NEW j \in DOMAIN r PROVE r[j] \in ToSet(a) \cup ToSet(b)
    BY DEF ToSet
  <2>1. \/ j \in DOMAIN a /\ r[j] = a[j]
        \/ j - Len(a) \in DOMAIN b /\ r[j] = b[j - Len(a)]
    BY <1>1
  <2> QED
    BY <2>1 DEF ToSet
<1>3. \A j \in DOMAIN a : j \in DOMAIN r /\ r[j] = a[j]
  BY <1>1
<1>4. ASSUME NEW j \in DOMAIN b PROVE b[j] \in ToSet(r)
  <2>1. j + Len(a) \in DOMAIN r /\ r[j + Len(a)] = b[j]
    BY <1>1
  <2> QED
    BY <2>1 DEF ToSet
<1>5. ToSet(b) \subseteq ToSet(r)
  BY <1>4 DEF ToSet
<1>6. ToSet(a) \subseteq ToSet(r)
  BY <1>3 DEF ToSet
<1> QED
  BY <1>1, <1>2, <1>5, <1>6 DEF r

LEMMA RisingConcat ==
  ASSUME NEW a \in Seq(Nat), NEW b \in Seq(Nat), Rising(a), Rising(b), Older(ToSet(a), ToSet(b))
  PROVE  Rising(a \o b)
<1> DEFINE r == a \o b
<1>1. PICK m \in Nat, n \in Nat : m = Len(a) /\ n = Len(b)
  OBVIOUS
<1>2. /\ DOMAIN a = 1..m /\ DOMAIN b = 1..n /\ DOMAIN r = 1..(m + n)
      /\ \A i \in 1..(m + n) : r[i] = IF i <= m THEN a[i] ELSE b[i - m]
  BY <1>1, ConcatProperties
<1> HIDE DEF r
<1>3. \A i \in 1..m, j \in 1..n : a[i] < b[j]
  BY <1>2 DEF Older, ToSet
<1>4. ASSUME NEW i \in 1..(m + n), NEW j \in 1..(m + n), i < j PROVE r[i] < r[j]
  <2>1. CASE j <= m
    <3>1. i \in 1..m /\ j \in 1..m
      BY <1>4, <2>1
    <3>2. a[i] < a[j]
      BY <1>2, <1>4, <3>1 DEF Rising
    <3> QED
      BY <1>2, <2>1, <3>1, <3>2
  <2>2. CASE i <= m /\ ~(j <= m)
    <3>1. i \in 1..m /\ j - m \in 1..n
      BY <2>2
    <3> QED
      BY <1>2, <1>3, <2>2, <3>1
  <2>3. CASE ~(i <= m)
    <3>1. i - m \in 1..n /\ j - m \in 1..n /\ i - m < j - m /\ ~(j <= m)
      BY <1>4, <2>3
    <3>2. b[i - m] < b[j - m]
      BY <1>2, <3>1 DEF Rising
    <3> QED
      BY <1>2, <2>3, <3>1, <3>2
  <2> QED
    BY <2>1, <2>2, <2>3
<1> QED
  BY <1>2, <1>4 DEF Rising, r

\* The values of a line of offers that gets one more, loses its first, or any.
LEMMA ValuesOfLine ==
  ASSUME NEW x \in Seq(Offers)
  PROVE  /\ ValuesOf(x) \in Seq(Values) /\ Len(ValuesOf(x)) = Len(x)
         /\ \A o \in Offers : ValuesOf(Append(x, o)) = Append(ValuesOf(x), o.value)
         /\ x # <<>> => /\ ValuesOf(x) # <<>> /\ ValuesOf(Tail(x)) = Tail(ValuesOf(x))
                        /\ Head(x).value = Head(ValuesOf(x))
         /\ \A i \in DOMAIN x : /\ i \in DOMAIN ValuesOf(x) /\ x[i].value = ValuesOf(x)[i]
                                /\ ValuesOf(RemoveAt(x, i)) = RemoveAt(ValuesOf(x), i)
<1> DEFINE n == Len(x)  w == ValuesOf(x)
<1>1. n \in Nat /\ DOMAIN x = 1..n /\ \A i \in 1..n : x[i] \in Offers /\ x[i].value \in Values
  <2>1. \A o \in Offers : o.value \in Values
    BY DEF Offers
  <2>2. n \in Nat /\ DOMAIN x = 1..n /\ \A i \in 1..n : x[i] \in Offers
    OBVIOUS
  <2> QED
    BY <2>1, <2>2
<1>2. w \in Seq(Values) /\ Len(w) = n /\ \A i \in 1..n : w[i] = x[i].value
  BY <1>1 DEF ValuesOf
<1> HIDE DEF w
<1>3. ASSUME NEW o \in Offers PROVE ValuesOf(Append(x, o)) = Append(w, o.value)
  <2> DEFINE a == ValuesOf(Append(x, o))  b == Append(w, o.value)
  <2>1. /\ Append(x, o) \in Seq(Offers) /\ Len(Append(x, o)) = n + 1
        /\ Append(x, o)[n + 1] = o /\ \A i \in 1..n : Append(x, o)[i] = x[i]
    BY AppendProperties
  <2>2. o.value \in Values
    BY DEF Offers
  <2>3. a \in Seq(Values) /\ Len(a) = n + 1 /\ a[n + 1] = o.value /\ \A i \in 1..n : a[i] = x[i].value
    BY <1>1, <2>1, <2>2 DEF ValuesOf
  <2>4. b \in Seq(Values) /\ Len(b) = n + 1 /\ b[n + 1] = o.value /\ \A i \in 1..n : b[i] = w[i]
    BY <1>2, <2>2, AppendProperties
  <2> HIDE DEF a, b
  <2>5. \A i \in 1..(n + 1) : a[i] = b[i]
    BY <1>1, <1>2, <2>3, <2>4
  <2>6. a = b
    BY <2>3, <2>4, <2>5
  <2> QED
    BY <2>6 DEF a, b
<1>4. ASSUME x # <<>>
      PROVE  w # <<>> /\ ValuesOf(Tail(x)) = Tail(w) /\ Head(x).value = Head(w)
  <2> DEFINE a == ValuesOf(Tail(x))  b == Tail(w)
  <2>1. n \in Nat \ {0} /\ w # <<>>
    BY <1>1, <1>2, <1>4, EmptySeq
  <2>2. /\ Tail(x) \in Seq(Offers) /\ Len(Tail(x)) = n - 1 /\ Head(x) = x[1]
        /\ \A i \in 1..(n - 1) : Tail(x)[i] = x[i + 1]
    BY <1>4, HeadTailProperties
  <2>3. /\ b \in Seq(Values) /\ Len(b) = n - 1 /\ Head(w) = w[1]
        /\ \A i \in 1..(n - 1) : b[i] = w[i + 1]
    BY <1>2, <2>1, HeadTailProperties
  <2>4. a \in Seq(Values) /\ Len(a) = n - 1 /\ \A i \in 1..(n - 1) : a[i] = x[i + 1].value
    BY <1>1, <2>1, <2>2 DEF ValuesOf
  <2> HIDE DEF a, b
  <2>5. \A i \in 1..(n - 1) : a[i] = b[i]
    BY <1>1, <1>2, <2>1, <2>3, <2>4
  <2>6. a = b
    BY <2>3, <2>4, <2>5
  <2> QED
    BY <1>1, <1>2, <2>1, <2>2, <2>3, <2>6 DEF a, b
<1>5. ASSUME NEW i \in DOMAIN x
      PROVE  i \in DOMAIN w /\ x[i].value = w[i] /\ ValuesOf(RemoveAt(x, i)) = RemoveAt(w, i)
  <2> DEFINE a == ValuesOf(RemoveAt(x, i))  b == RemoveAt(w, i)  c == RemoveAt(x, i)
  <2>1. i \in 1..n /\ DOMAIN w = 1..n
    BY <1>1, <1>2
  <2>2. c \in Seq(Offers) /\ Len(c) = n - 1
        /\ \A j \in 1..(n - 1) : c[j] = IF j < i THEN x[j] ELSE x[j + 1]
    BY <2>1, RemoveAtProperties
  <2>3. b \in Seq(Values) /\ Len(b) = n - 1
        /\ \A j \in 1..(n - 1) : b[j] = IF j < i THEN w[j] ELSE w[j + 1]
    BY <1>2, <2>1, RemoveAtProperties
  <2> HIDE DEF b, c
  <2>4. a \in Seq(Values) /\ Len(a) = n - 1 /\ \A j \in 1..(n - 1) : a[j] = c[j].value
    <3>1. \A o \in Offers : o.value \in Values
      BY DEF Offers
    <3>2. DOMAIN c = 1..(n - 1) /\ n - 1 \in Nat /\ \A j \in 1..(n - 1) : c[j].value \in Values
      BY <1>1, <2>1, <2>2, <3>1
    <3>3. a = [j \in 1..(n - 1) |-> c[j].value]
      BY <3>2 DEF ValuesOf, c
    <3> QED
      BY <3>2, <3>3
  <2> HIDE DEF a
  <2>5. ASSUME NEW j \in 1..(n - 1) PROVE a[j] = b[j]
    <3>1. j \in 1..n /\ j + 1 \in 1..n
      BY <1>1
    <3> QED
      BY <1>2, <2>2, <2>3, <2>4, <3>1
  <2>6. a = b
    BY <2>3, <2>4, <2>5
  <2> QED
    BY <1>2, <2>1, <2>6 DEF a, b, c
<1> QED
  BY <1>2, <1>3, <1>4, <1>5 DEF w

LEMMA ValuesSeq ==
  ASSUME NEW q \in Seq(Values)
  PROVE  q \in Seq(Nat) /\ \A w \in ToSet(q) : w \in Values /\ w \in Nat
<1>1. Values \subseteq Nat
  BY DEF Values
<1>2. Len(q) \in Nat /\ DOMAIN q = 1..Len(q) /\ \A i \in 1..Len(q) : q[i] \in Values
  OBVIOUS
<1>3. q = [i \in 1..Len(q) |-> q[i]]
  OBVIOUS
<1>4. q \in Seq(Nat)
  BY <1>1, <1>2, <1>3
<1> QED
  BY <1>1, <1>2, <1>4 DEF ToSet

\* The places of the line, as sets: values are appended to one, its first or any leaves it.
LEMMA PlaceAppend ==
  ASSUME NEW q \in Seq(Values), NEW v \in Values, Rising(q), Older(ToSet(q), {v})
  PROVE  /\ Append(q, v) \in Seq(Values) /\ Len(Append(q, v)) = Len(q) + 1
         /\ ToSet(Append(q, v)) = ToSet(q) \cup {v} /\ Rising(Append(q, v))
<1>1. q \in Seq(Nat) /\ v \in Nat /\ \A w \in ToSet(q) : w < v
  BY ValuesSeq DEF Values, Older
<1>2. Rising(Append(q, v))
  BY <1>1, RisingAppend
<1>3. Append(q, v) \in Seq(Values) /\ Len(Append(q, v)) = Len(q) + 1
  BY AppendProperties
<1>4. ToSet(Append(q, v)) = ToSet(q) \cup {v}
  BY AppendNode
<1> QED
  BY <1>2, <1>3, <1>4

LEMMA PlaceTail ==
  ASSUME NEW q \in Seq(Values), q # <<>>, Rising(q)
  PROVE  /\ Head(q) \in Values /\ Head(q) \in ToSet(q) /\ Tail(q) \in Seq(Values)
         /\ Len(Tail(q)) = Len(q) - 1 /\ Len(q) > 0
         /\ ToSet(Tail(q)) = ToSet(q) \ {Head(q)} /\ Rising(Tail(q))
         /\ Older({Head(q)}, ToSet(Tail(q)))
<1>1. q \in Seq(Nat)
  BY ValuesSeq
<1>2. Rising(Tail(q)) /\ IsInjective(q) /\ Older({Head(q)}, ToSet(Tail(q)))
  BY <1>1, RisingTail DEF Older
<1>3. /\ Head(q) \in Values /\ Head(q) \in ToSet(q) /\ Tail(q) \in Seq(Values)
      /\ ToSet(Tail(q)) = ToSet(q) \ {Head(q)}
  BY <1>2, TailNode
<1>4. Len(Tail(q)) = Len(q) - 1 /\ Len(q) > 0
  BY HeadTailProperties, EmptySeq
<1> QED
  BY <1>2, <1>3, <1>4

LEMMA PlaceRemove ==
  ASSUME NEW q \in Seq(Values), NEW i \in DOMAIN q, Rising(q)
  PROVE  /\ q[i] \in Values /\ q[i] \in ToSet(q)
         /\ ToSet(RemoveAt(q, i)) = ToSet(q) \ {q[i]} /\ Rising(RemoveAt(q, i))
<1>1. q \in Seq(Nat)
  BY ValuesSeq
<1>2. Rising(RemoveAt(q, i)) /\ IsInjective(q)
  BY <1>1, RisingRemoveAt
<1>3. ToSet(RemoveAt(q, i)) = ToSet(q) \ {q[i]}
  BY <1>2, RemoveAtNode
<1>4. q[i] \in Values /\ q[i] \in ToSet(q)
  BY DEF ToSet
<1> QED
  BY <1>2, <1>3, <1>4

LEMMA OfferAppend ==
  ASSUME NEW x \in Seq(Offers), NEW o \in Offers,
         Rising(ValuesOf(x)), Older(ToSet(ValuesOf(x)), {o.value})
  PROVE  /\ Append(x, o) \in Seq(Offers) /\ Len(Append(x, o)) = Len(x) + 1
         /\ ToSet(ValuesOf(Append(x, o))) = ToSet(ValuesOf(x)) \cup {o.value}
         /\ Rising(ValuesOf(Append(x, o)))
<1>1. PICK w \in Seq(Values), v \in Values : w = ValuesOf(x) /\ v = o.value
  BY ValuesOfLine DEF Offers
<1>2. ValuesOf(Append(x, o)) = Append(w, v)
  BY <1>1, ValuesOfLine
<1>3. ToSet(Append(w, v)) = ToSet(w) \cup {v} /\ Rising(Append(w, v))
  BY <1>1, PlaceAppend
<1>4. Append(x, o) \in Seq(Offers) /\ Len(Append(x, o)) = Len(x) + 1
  BY AppendProperties
<1> QED
  BY <1>1, <1>2, <1>3, <1>4

LEMMA OfferTail ==
  ASSUME NEW x \in Seq(Offers), x # <<>>, Rising(ValuesOf(x))
  PROVE  /\ Head(x).value \in Values /\ Head(x).value \in ToSet(ValuesOf(x))
         /\ Tail(x) \in Seq(Offers) /\ Len(Tail(x)) = Len(x) - 1 /\ Len(x) > 0
         /\ ToSet(ValuesOf(Tail(x))) = ToSet(ValuesOf(x)) \ {Head(x).value}
         /\ Rising(ValuesOf(Tail(x)))
         /\ Older({Head(x).value}, ToSet(ValuesOf(Tail(x))))
<1>1. PICK w \in Seq(Values) : w = ValuesOf(x)
  BY ValuesOfLine
<1>2. w # <<>> /\ ValuesOf(Tail(x)) = Tail(w) /\ Head(x).value = Head(w)
  BY <1>1, ValuesOfLine
<1>3. /\ Head(w) \in Values /\ Head(w) \in ToSet(w) /\ ToSet(Tail(w)) = ToSet(w) \ {Head(w)}
      /\ Rising(Tail(w)) /\ Older({Head(w)}, ToSet(Tail(w)))
  BY <1>1, <1>2, PlaceTail
<1>4. Tail(x) \in Seq(Offers) /\ Len(Tail(x)) = Len(x) - 1 /\ Len(x) > 0
  BY HeadTailProperties, EmptySeq
<1> QED
  BY <1>1, <1>2, <1>3, <1>4

LEMMA OfferRemove ==
  ASSUME NEW x \in Seq(Offers), NEW i \in DOMAIN x, Rising(ValuesOf(x))
  PROVE  /\ x[i].value \in Values /\ x[i].value \in ToSet(ValuesOf(x))
         /\ RemoveAt(x, i) \in Seq(Offers) /\ Len(RemoveAt(x, i)) = Len(x) - 1 /\ Len(x) > 0
         /\ ToSet(ValuesOf(RemoveAt(x, i))) = ToSet(ValuesOf(x)) \ {x[i].value}
         /\ Rising(ValuesOf(RemoveAt(x, i)))
<1>1. PICK w \in Seq(Values) : w = ValuesOf(x)
  BY ValuesOfLine
<1>2. i \in DOMAIN w /\ ValuesOf(RemoveAt(x, i)) = RemoveAt(w, i) /\ x[i].value = w[i]
  BY <1>1, ValuesOfLine
<1>3. /\ w[i] \in Values /\ w[i] \in ToSet(w) /\ ToSet(RemoveAt(w, i)) = ToSet(w) \ {w[i]}
      /\ Rising(RemoveAt(w, i))
  BY <1>1, <1>2, PlaceRemove
<1>4. i \in 1..Len(x) /\ Len(x) > 0
  OBVIOUS
<1>5. RemoveAt(x, i) \in Seq(Offers) /\ Len(RemoveAt(x, i)) = Len(x) - 1
  BY <1>4, RemoveAtProperties
<1> QED
  BY <1>1, <1>2, <1>3, <1>4, <1>5

\* One verdict more that says "accepted", or one that does not change who was accepted.
LEMMA VerdictCount ==
  ASSUME NEW s \in States, NEW v \in Values, s.verdict[v] # "accepted",
         NEW x \in Verdicts, NEW r, r.verdict = [s.verdict EXCEPT ![v] = x]
  PROVE  /\ Cardinality(Accepted(s)) \in Nat
         /\ Cardinality(Accepted(r))
              = IF x = "accepted" THEN Cardinality(Accepted(s)) + 1 ELSE Cardinality(Accepted(s))
<1> DEFINE A == Accepted(s)  B == Accepted(r)
<1>1. s.verdict \in [Values -> Verdicts]
  BY DEF States
<1>2. A \subseteq Values /\ v \notin A /\ B = IF x = "accepted" THEN A \cup {v} ELSE A
  BY <1>1 DEF Accepted
<1>3. IsFiniteSet(Values)
  <2>1. MaxOffers \in Int /\ 1 \in Int
    BY QueueAssumption
  <2> QED
    BY <2>1, FS_Interval DEF Values
<1> HIDE DEF A, B
<1>4. IsFiniteSet(A)
  BY <1>2, <1>3, FS_Subset
<1>5. Cardinality(A) \in Nat /\ Cardinality(A \cup {v}) = Cardinality(A) + 1
  BY <1>2, <1>4, FS_AddElement, FS_CardinalityType
<1> QED
  BY <1>2, <1>5 DEF A, B

-----------------------------------------------------------------------------
(* What a handler makes of the state it works on.                          *)

LEMMA QueueFields ==
  ASSUME NEW q \in QueueStates
  PROVE  /\ q.items \in Seq(Values) /\ q.offers \in Seq(Offers) /\ q.takers \in Seq(Consumers)
         /\ q.closed \in BOOLEAN /\ q.offered \in Nat /\ q.accepted \in Nat /\ q.dropped \in Nat
         /\ q.slid \in Nat /\ q.discarded \in Nat /\ q.taken \in Nat /\ q.cancelledOffers \in Nat
BY DEF QueueStates

LEMMA StateFields ==
  ASSUME NEW s \in States
  PROVE  /\ s.queue \in QueueStates /\ s.verdict \in [Values -> Verdicts]
         /\ s.inbox \in [Consumers -> Answers] /\ s.passed \in Seq(Values)
         /\ s.gone \subseteq Values /\ s.received \subseteq Values
BY DEF States

LEMMA RefuseFields ==
  ASSUME NEW s \in States, NEW v \in Values
  PROVE  LET r == Refuse(s, v)
         IN /\ r \in States /\ r.queue = [s.queue EXCEPT !.dropped = @ + 1]
            /\ r.verdict = [s.verdict EXCEPT ![v] = "refused"] /\ r.inbox = s.inbox
            /\ r.passed = s.passed /\ r.gone = s.gone /\ r.received = s.received
<1>1. PICK n \in Nat : n = s.queue.dropped + 1
  BY StateFields, QueueFields
<1>2. [s.queue EXCEPT !.dropped = n] \in QueueStates
  BY <1>1, StateFields DEF QueueStates
<1>3. "refused" \in Verdicts
  BY DEF Verdicts
<1>4. Refuse(s, v) \in States
  BY <1>1, <1>2, <1>3 DEF Refuse, States
<1> QED
  BY <1>4 DEF Refuse, States

LEMMA StoreFields ==
  ASSUME NEW s \in States, NEW v \in Values
  PROVE  LET r == Store(s, v)
         IN /\ r \in States
            /\ r.queue = [s.queue EXCEPT !.items = Append(@, v), !.accepted = @ + 1]
            /\ r.verdict = [s.verdict EXCEPT ![v] = "accepted"] /\ r.inbox = s.inbox
            /\ r.passed = s.passed /\ r.gone = s.gone /\ r.received = s.received
<1>1. PICK n \in Nat, x \in Seq(Values) : n = s.queue.accepted + 1 /\ x = Append(s.queue.items, v)
  <2>1. s.queue.accepted + 1 \in Nat /\ Append(s.queue.items, v) \in Seq(Values)
    BY StateFields, QueueFields
  <2> QED
    BY <2>1
<1>2. [s.queue EXCEPT !.items = x, !.accepted = n] \in QueueStates
  BY <1>1, StateFields DEF QueueStates
<1>3. "accepted" \in Verdicts
  BY DEF Verdicts
<1>4. Store(s, v) \in States
  BY <1>1, <1>2, <1>3 DEF Store, States
<1> QED
  BY <1>4 DEF Store, States

LEMMA SlideFields ==
  ASSUME NEW s \in States, NEW v \in Values, s.queue.items # <<>>
  PROVE  LET r == Slide(s, v)
         IN /\ r \in States
            /\ r.queue = [s.queue EXCEPT !.items = Append(Tail(@), v), !.accepted = @ + 1,
                                         !.slid = @ + 1]
            /\ r.verdict = [s.verdict EXCEPT ![v] = "accepted"] /\ r.inbox = s.inbox
            /\ r.passed = s.passed /\ r.gone = s.gone \cup {Head(s.queue.items)}
            /\ r.received = s.received
<1>1. PICK n \in Nat, m \in Nat, x \in Seq(Values) :
        n = s.queue.accepted + 1 /\ m = s.queue.slid + 1 /\ x = Append(Tail(s.queue.items), v)
  <2>1. s.queue \in QueueStates
    BY StateFields
  <2>2. s.queue.accepted \in Nat /\ s.queue.slid \in Nat /\ s.queue.items \in Seq(Values)
    BY <2>1, QueueFields
  <2>3. Append(Tail(s.queue.items), v) \in Seq(Values)
    BY <2>2
  <2>4. s.queue.accepted + 1 \in Nat /\ s.queue.slid + 1 \in Nat
    BY <2>2
  <2> QED
    BY <2>3, <2>4, Zenon
<1>2. [s.queue EXCEPT !.items = x, !.accepted = n, !.slid = m] \in QueueStates
  BY <1>1, StateFields DEF QueueStates
<1>3. "accepted" \in Verdicts /\ Head(s.queue.items) \in Values
  <2>1. s.queue.items \in Seq(Values)
    BY StateFields, QueueFields
  <2> QED
    BY <2>1 DEF Verdicts
<1>4. Slide(s, v) \in States
  BY <1>1, <1>2, <1>3 DEF Slide, States
<1> QED
  BY <1>4 DEF Slide, States

LEMMA HandOverFields ==
  ASSUME NEW s \in States, NEW v \in Values, s.queue.takers # <<>>
  PROVE  LET r == HandOver(s, v)
         IN /\ r \in States
            /\ r.queue = [s.queue EXCEPT !.takers = Tail(@), !.taken = @ + 1, !.accepted = @ + 1]
            /\ r.verdict = [s.verdict EXCEPT ![v] = "accepted"]
            /\ r.inbox = [s.inbox EXCEPT ![Head(s.queue.takers)] = v]
            /\ r.passed = Append(s.passed, v) /\ r.gone = s.gone /\ r.received = s.received
<1>1. PICK n \in Nat, m \in Nat, x \in Seq(Consumers), c \in Consumers :
        n = s.queue.accepted + 1 /\ m = s.queue.taken + 1 /\ x = Tail(s.queue.takers)
        /\ c = Head(s.queue.takers)
  <2>1. s.queue \in QueueStates
    BY StateFields
  <2>2. s.queue.accepted \in Nat /\ s.queue.taken \in Nat /\ s.queue.takers \in Seq(Consumers)
    BY <2>1, QueueFields
  <2>3. Tail(s.queue.takers) \in Seq(Consumers) /\ Head(s.queue.takers) \in Consumers
    BY <2>2
  <2>4. s.queue.accepted + 1 \in Nat /\ s.queue.taken + 1 \in Nat
    BY <2>2
  <2> QED
    BY <2>3, <2>4, Zenon
<1>2. [s.queue EXCEPT !.takers = x, !.taken = m, !.accepted = n] \in QueueStates
  BY <1>1, StateFields DEF QueueStates
<1>3. "accepted" \in Verdicts /\ v \in Answers /\ Append(s.passed, v) \in Seq(Values)
  BY StateFields DEF Verdicts, Answers
<1>4. HandOver(s, v) \in States
  BY <1>1, <1>2, <1>3 DEF HandOver, States
<1> QED
  BY <1>4 DEF HandOver, States

LEMMA WaitFields ==
  ASSUME NEW s \in States, NEW v \in Values, NEW p \in Producers
  PROVE  LET r == Wait(s, p, v)
         IN /\ r \in States /\ r.queue = [s.queue EXCEPT !.offers = Append(@, Offer(p, v))]
            /\ r.verdict = [s.verdict EXCEPT ![v] = "pending"] /\ r.inbox = s.inbox
            /\ r.passed = s.passed /\ r.gone = s.gone /\ r.received = s.received
            /\ Offer(p, v) \in Offers /\ Offer(p, v).value = v
<1>1. Offer(p, v) \in Offers /\ Offer(p, v).value = v
  BY DEF Offer, Offers
<1>2. PICK x \in Seq(Offers) : x = Append(s.queue.offers, Offer(p, v))
  <2>1. s.queue.offers \in Seq(Offers)
    BY StateFields, QueueFields
  <2>2. Append(s.queue.offers, Offer(p, v)) \in Seq(Offers)
    BY <1>1, <2>1
  <2> QED
    BY <2>2, Zenon
<1>3. [s.queue EXCEPT !.offers = x] \in QueueStates
  BY <1>2, StateFields DEF QueueStates
<1>4. "pending" \in Verdicts
  BY DEF Verdicts
<1>5. Wait(s, p, v) \in States
  BY <1>2, <1>3, <1>4 DEF Wait, States
<1> QED
  BY <1>1, <1>5 DEF Wait, States

-----------------------------------------------------------------------------
(* One value put: what its handler keeps.                                  *)

LEMMA QueueOKParts ==
  ASSUME NEW s, NEW next \in Nat, QueueOK(s, next)
  PROVE  /\ s \in States /\ s.queue \in QueueStates /\ s.verdict \in [Values -> Verdicts]
         /\ s.passed \in Seq(Values) /\ s.queue.items \in Seq(Values)
         /\ s.queue.offers \in Seq(Offers) /\ s.queue.takers \in Seq(Consumers)
         /\ RoomOK(s) /\ LineOK(s) /\ ToldOK(s, next) /\ SumsOK(s, next)
BY StateFields, QueueFields DEF QueueOK

\* What is in one of the places was sent, and no value that waits is elsewhere.
LEMMA SentBefore ==
  ASSUME NEW s, NEW next \in Nat, QueueOK(s, next)
  PROVE  /\ \A w \in Out(s) \cup Buffered(s) \cup s.gone \cup Waiting(s) :
              w \in Values /\ w \in Nat /\ w <= next
         /\ Waiting(s) \cap (Out(s) \cup Buffered(s) \cup s.gone) = {}
<1>1. Out(s) \cup Buffered(s) \cup s.gone \cup Waiting(s) \subseteq Values
  <2>1. s.passed \in Seq(Values) /\ s.queue.items \in Seq(Values) /\ s.gone \subseteq Values
        /\ ValuesOf(s.queue.offers) \in Seq(Values)
    BY QueueOKParts, StateFields, ValuesOfLine
  <2> QED
    BY <2>1, ValuesSeq DEF Out, Buffered, Waiting
<1>2. Values \subseteq Nat
  BY DEF Values
<1>3. \A v \in Values :
         /\ s.verdict[v] = "accepted" <=> v \in Out(s) \cup Buffered(s) \cup s.gone
         /\ s.verdict[v] = "pending" <=> v \in Waiting(s)
         /\ s.verdict[v] = "unsent" <=> v > next
  BY QueueOKParts DEF ToldOK
<1>4. ASSUME NEW w \in Out(s) \cup Buffered(s) \cup s.gone \cup Waiting(s)
      PROVE  w \in Values /\ w \in Nat /\ w <= next
  <2>1. w \in Values /\ w \in Nat
    BY <1>1, <1>2
  <2>2. s.verdict[w] # "unsent"
    BY <1>3, <2>1
  <2> QED
    BY <1>3, <2>1, <2>2
<1>5. Waiting(s) \cap (Out(s) \cup Buffered(s) \cup s.gone) = {}
  BY <1>1, <1>3
<1> QED
  BY <1>4, <1>5

\* The next value gets its first verdict.
LEMMA ToldNew ==
  ASSUME NEW s, NEW next \in Nat, QueueOK(s, next), NEW v \in Values, v = next + 1,
         NEW x \in {"accepted", "pending", "refused"}, NEW r,
         r.verdict = [s.verdict EXCEPT ![v] = x],
         Out(r) \cup Buffered(r) \cup r.gone
           = Out(s) \cup Buffered(s) \cup s.gone \cup (IF x = "accepted" THEN {v} ELSE {}),
         Waiting(r) = Waiting(s) \cup (IF x = "pending" THEN {v} ELSE {}),
         r.gone \cap (Out(r) \cup Buffered(r)) = {}
  PROVE  ToldOK(r, v)
<1>1. s.verdict \in [Values -> Verdicts] /\ ToldOK(s, next)
  BY QueueOKParts
<1>2. \A w \in Values : r.verdict[w] = IF w = v THEN x ELSE s.verdict[w]
  BY <1>1
<1>3. v \notin Out(s) \cup Buffered(s) \cup s.gone \cup Waiting(s)
  BY SentBefore
<1>4. \A w \in Values : w \in Nat
  BY DEF Values
<1>5. ASSUME NEW w \in Values
      PROVE  /\ r.verdict[w] = "accepted" <=> w \in Out(r) \cup Buffered(r) \cup r.gone
             /\ r.verdict[w] = "pending" <=> w \in Waiting(r)
             /\ r.verdict[w] = "unsent" <=> w > v
  <2>1. CASE w = v
    BY <1>2, <1>3, <1>4, <2>1
  <2>2. CASE w # v
    BY <1>1, <1>2, <1>4, <2>2 DEF ToldOK
  <2> QED
    BY <2>1, <2>2
<1> QED
  BY <1>5 DEF ToldOK

\* A value that waits gets its second verdict.
LEMMA ToldMoved ==
  ASSUME NEW s, NEW next \in Nat, QueueOK(s, next), NEW v \in Waiting(s),
         NEW x \in {"accepted", "cancelled", "refused"}, NEW r,
         r.verdict = [s.verdict EXCEPT ![v] = x],
         Out(r) \cup Buffered(r) \cup r.gone
           = Out(s) \cup Buffered(s) \cup s.gone \cup (IF x = "accepted" THEN {v} ELSE {}),
         Waiting(r) = Waiting(s) \ {v},
         r.gone \cap (Out(r) \cup Buffered(r)) = {}
  PROVE  ToldOK(r, next)
<1>1. s.verdict \in [Values -> Verdicts] /\ ToldOK(s, next)
  BY QueueOKParts
<1>2. \A w \in Values : r.verdict[w] = IF w = v THEN x ELSE s.verdict[w]
  BY <1>1
<1>3. v \in Values /\ ~(v > next) /\ v \notin Out(s) \cup Buffered(s) \cup s.gone
  BY SentBefore
<1>4. ASSUME NEW w \in Values
      PROVE  /\ r.verdict[w] = "accepted" <=> w \in Out(r) \cup Buffered(r) \cup r.gone
             /\ r.verdict[w] = "pending" <=> w \in Waiting(r)
             /\ r.verdict[w] = "unsent" <=> w > next
  <2>1. CASE w = v
    BY <1>2, <1>3, <2>1
  <2>2. CASE w # v
    BY <1>1, <1>2, <2>2 DEF ToldOK
  <2> QED
    BY <2>1, <2>2
<1> QED
  BY <1>4 DEF ToldOK

LEMMA HandedSame ==
  ASSUME NEW s, HandedOK(s, lost), NEW r, r.inbox = s.inbox, r.passed = s.passed,
         r.received = s.received, r.queue.takers = s.queue.takers
  PROVE  HandedOK(r, lost)
BY DEF HandedOK, Out

\* The statistics, as numbers.
Numbers(s, next, a, d, c, l, n, i, x, y) ==
  /\ s.queue.accepted = a /\ s.queue.dropped = d /\ s.queue.cancelledOffers = c
  /\ Len(s.queue.offers) = l /\ s.queue.taken = n /\ Len(s.passed) = n
  /\ Len(s.queue.items) = i /\ s.queue.slid = x /\ s.queue.discarded = y
  /\ Cardinality(Accepted(s)) = a
  /\ next = a + d + c + l /\ a = n + i + x + y

\* Out of the state and back, for the arithmetic.
LEMMA SumsNumbers ==
  ASSUME NEW s \in States, NEW next \in Nat, SumsOK(s, next)
  PROVE  \E a, d, c, l, n, i, x, y \in Nat : Numbers(s, next, a, d, c, l, n, i, x, y)
<1>1. s.queue \in QueueStates
  BY StateFields
<1>2. /\ s.queue.accepted \in Nat /\ s.queue.dropped \in Nat /\ s.queue.cancelledOffers \in Nat
      /\ s.queue.taken \in Nat /\ s.queue.slid \in Nat /\ s.queue.discarded \in Nat
      /\ Len(s.queue.offers) \in Nat /\ Len(s.queue.items) \in Nat
  BY <1>1, QueueFields
<1>3. Numbers(s, next, s.queue.accepted, s.queue.dropped, s.queue.cancelledOffers,
              Len(s.queue.offers), s.queue.taken, Len(s.queue.items), s.queue.slid,
              s.queue.discarded)
  BY DEF SumsOK, Numbers
<1> QED
  BY <1>2, <1>3, Zenon

LEMMA NumbersSum ==
  ASSUME NEW s, NEW next, NEW a \in Nat, NEW d \in Nat, NEW c \in Nat, NEW l \in Nat,
         NEW n \in Nat, NEW i \in Nat, NEW x \in Nat, NEW y \in Nat,
         Numbers(s, next, a, d, c, l, n, i, x, y)
  PROVE  SumsOK(s, next)
BY DEF SumsOK, Numbers

\* The five things that may become of a value: it is refused, ...
LEMMA RefuseKeeps ==
  ASSUME NEW s, NEW next \in Nat, QueueOK(s, next), NEW v \in Values, v = next + 1, HandedOK(s, lost)
  PROVE  LET r == Refuse(s, v)
         IN QueueOK(r, v) /\ HandedOK(r, lost) /\ r.queue.offered = s.queue.offered
<1> DEFINE q == s.queue
<1>1. PICK r : r = Refuse(s, v)
  OBVIOUS
<1>2. /\ s \in States /\ q \in QueueStates /\ s.verdict \in [Values -> Verdicts]
      /\ RoomOK(s) /\ LineOK(s) /\ ToldOK(s, next) /\ SumsOK(s, next)
  BY QueueOKParts
<1>3. /\ r \in States /\ r.queue = [q EXCEPT !.dropped = q.dropped + 1]
      /\ r.verdict = [s.verdict EXCEPT ![v] = "refused"] /\ r.inbox = s.inbox
      /\ r.passed = s.passed /\ r.gone = s.gone /\ r.received = s.received
  BY <1>1, <1>2, RefuseFields
<1>4. /\ r.queue.items = q.items /\ r.queue.offers = q.offers /\ r.queue.takers = q.takers
      /\ r.queue.closed = q.closed /\ r.queue.offered = q.offered /\ r.queue.taken = q.taken
      /\ r.queue.accepted = q.accepted /\ r.queue.slid = q.slid
      /\ r.queue.discarded = q.discarded /\ r.queue.cancelledOffers = q.cancelledOffers
      /\ r.queue.dropped = q.dropped + 1
  BY <1>2, <1>3 DEF QueueStates
<1>5. Out(r) = Out(s) /\ Buffered(r) = Buffered(s) /\ Waiting(r) = Waiting(s)
  BY <1>3, <1>4 DEF Out, Buffered, Waiting
<1>6. RoomOK(r)
  BY <1>2, <1>4 DEF RoomOK, Full
<1>7. LineOK(r)
  BY <1>2, <1>3, <1>4, <1>5 DEF LineOK
<1>8. ToldOK(r, v)
  <2>1. s.gone \cap (Out(s) \cup Buffered(s)) = {}
    BY <1>2 DEF ToldOK
  <2> QED
    BY <1>3, <1>5, <2>1, ToldNew
<1>9. SumsOK(r, v)
  <2>1. s.verdict[v] # "accepted"
    BY SentBefore, <1>2 DEF ToldOK
  <2>2. Cardinality(Accepted(r)) = Cardinality(Accepted(s))
    <3>1. "refused" \in Verdicts
      BY DEF Verdicts
    <3> QED
      BY <1>2, <1>3, <2>1, <3>1, VerdictCount
  <2>3. PICK a, d, c, l, n, i, x, y \in Nat : Numbers(s, next, a, d, c, l, n, i, x, y)
    BY <1>2, SumsNumbers, Zenon
  <2>4. v = a + (d + 1) + c + l /\ a = n + i + x + y
    <3>1. next = a + d + c + l /\ a = n + i + x + y
      BY <2>3 DEF Numbers
    <3> HIDE DEF q
    <3> QED
      BY <3>1
  <2>5. Numbers(r, v, a, d + 1, c, l, n, i, x, y)
    BY <1>3, <1>4, <2>2, <2>3, <2>4 DEF Numbers
  <2>6. d + 1 \in Nat
    OBVIOUS
  <2> QED
    BY <2>5, <2>6, NumbersSum, Zenon
<1>10. HandedOK(r, lost)
  BY <1>3, <1>4, HandedSame
<1> QED
  BY <1>1, <1>3, <1>4, <1>6, <1>7, <1>8, <1>9, <1>10 DEF QueueOK

\* ... buffered, ...
LEMMA StoreKeeps ==
  ASSUME NEW s, NEW next \in Nat, QueueOK(s, next), NEW v \in Values, v = next + 1, HandedOK(s, lost),
         setting \in Settings,
         ~s.queue.closed, s.queue.takers = <<>>, ~Full(s.queue)
  PROVE  LET r == Store(s, v)
         IN QueueOK(r, v) /\ HandedOK(r, lost) /\ r.queue.offered = s.queue.offered
<1> DEFINE q == s.queue
<1>1. PICK r : r = Store(s, v)
  OBVIOUS
<1>2. /\ s \in States /\ q \in QueueStates /\ s.verdict \in [Values -> Verdicts]
      /\ q.items \in Seq(Values)
      /\ RoomOK(s) /\ LineOK(s) /\ ToldOK(s, next) /\ SumsOK(s, next)
  BY QueueOKParts
<1>3. /\ r \in States
      /\ r.queue = [q EXCEPT !.items = Append(q.items, v), !.accepted = q.accepted + 1]
      /\ r.verdict = [s.verdict EXCEPT ![v] = "accepted"] /\ r.inbox = s.inbox
      /\ r.passed = s.passed /\ r.gone = s.gone /\ r.received = s.received
  BY <1>1, <1>2, StoreFields
<1>4. /\ r.queue.items = Append(q.items, v) /\ r.queue.offers = q.offers
      /\ r.queue.takers = q.takers
      /\ r.queue.closed = q.closed /\ r.queue.offered = q.offered /\ r.queue.taken = q.taken
      /\ r.queue.accepted = q.accepted + 1 /\ r.queue.slid = q.slid
      /\ r.queue.discarded = q.discarded /\ r.queue.cancelledOffers = q.cancelledOffers
      /\ r.queue.dropped = q.dropped
  BY <1>2, <1>3 DEF QueueStates
<1>5. \A w \in Out(s) \cup Buffered(s) \cup s.gone \cup Waiting(s) : w < v
  BY SentBefore
<1>6. /\ Len(Append(q.items, v)) = Len(q.items) + 1
      /\ ToSet(Append(q.items, v)) = Buffered(s) \cup {v} /\ Rising(Append(q.items, v))
  <2>1. Rising(q.items) /\ Older(ToSet(q.items), {v})
    BY <1>2, <1>5 DEF LineOK, Older, Buffered
  <2> QED
    BY <1>2, <2>1, PlaceAppend DEF Buffered
<1>7. Out(r) = Out(s) /\ Buffered(r) = Buffered(s) \cup {v} /\ Waiting(r) = Waiting(s)
  BY <1>3, <1>4, <1>6 DEF Out, Buffered, Waiting
<1>8. q.offers = <<>> /\ Waiting(s) = {}
  <2>1. q.offers = <<>>
    BY <1>2 DEF RoomOK
  <2>2. ValuesOf(<<>>) = <<>>
    BY DEF ValuesOf
  <2> QED
    BY <2>1, <2>2 DEF Waiting, ToSet
<1>9. RoomOK(r)
  <2>1. capacity \in Nat /\ Len(q.items) \in Nat
    BY <1>2, QueueAssumption DEF capacity
  <2>2. Len(q.items) + 1 <= capacity
    BY <2>1 DEF Full
  <2> QED
    BY <1>2, <1>4, <1>6, <1>8, <2>2 DEF RoomOK
<1>10. LineOK(r)
  <2>1. ~q.closed => Older(s.gone, Buffered(s) \cup Waiting(s))
    BY <1>2 DEF LineOK
  <2>2. ~q.closed => Older(s.gone, Buffered(r) \cup Waiting(r))
    BY <1>5, <1>7, <2>1 DEF Older
  <2>3. Older(Out(r), Buffered(r)) /\ Older(Out(r), Waiting(r)) /\ Older(Buffered(r), Waiting(r))
    BY <1>2, <1>5, <1>7, <1>8 DEF LineOK, Older
  <2> QED
    BY <1>2, <1>3, <1>4, <1>6, <2>2, <2>3 DEF LineOK
<1>11. ToldOK(r, v)
  <2>1. s.gone \cap (Out(s) \cup Buffered(s)) = {} /\ v \notin s.gone
    BY <1>2, SentBefore DEF ToldOK
  <2>2. r.gone \cap (Out(r) \cup Buffered(r)) = {}
    BY <1>3, <1>7, <2>1
  <2>3. Out(r) \cup Buffered(r) \cup r.gone = Out(s) \cup Buffered(s) \cup s.gone \cup {v}
    BY <1>3, <1>7
  <2> QED
    BY <1>3, <1>7, <2>2, <2>3, ToldNew
<1>12. SumsOK(r, v)
  <2>1. s.verdict[v] # "accepted"
    BY SentBefore, <1>2 DEF ToldOK
  <2>2. PICK a, d, c, l, n, i, x, y \in Nat : Numbers(s, next, a, d, c, l, n, i, x, y)
    BY <1>2, SumsNumbers, Zenon
  <2>3. Cardinality(Accepted(r)) = a + 1
    <3>1. "accepted" \in Verdicts
      BY DEF Verdicts
    <3>2. Cardinality(Accepted(r)) = Cardinality(Accepted(s)) + 1
      BY <1>2, <1>3, <2>1, <3>1, VerdictCount
    <3> QED
      BY <2>2, <3>2 DEF Numbers
  <2>4. v = (a + 1) + d + c + l /\ a + 1 = n + (i + 1) + x + y
    <3>1. next = a + d + c + l /\ a = n + i + x + y
      BY <2>2 DEF Numbers
    <3> HIDE DEF q
    <3> QED
      BY <3>1
  <2>5. Numbers(r, v, a + 1, d, c, l, n, i + 1, x, y)
    BY <1>3, <1>4, <1>6, <2>2, <2>3, <2>4 DEF Numbers
  <2>6. a + 1 \in Nat /\ i + 1 \in Nat
    OBVIOUS
  <2> QED
    BY <2>5, <2>6, NumbersSum, Zenon
<1>13. HandedOK(r, lost)
  BY <1>3, <1>4, HandedSame
<1> QED
  BY <1>1, <1>3, <1>4, <1>9, <1>10, <1>11, <1>12, <1>13 DEF QueueOK

LEMMA NoneWait ==
  ASSUME NEW s, s.queue.offers = <<>>
  PROVE  Waiting(s) = {}
<1>1. ValuesOf(<<>>) = <<>>
  BY DEF ValuesOf
<1> QED
  BY <1>1 DEF Waiting, ToSet

\* ... buffered in the place of the oldest one, ...
LEMMA SlideKeeps ==
  ASSUME NEW s, NEW next \in Nat, QueueOK(s, next), NEW v \in Values, v = next + 1, HandedOK(s, lost),
         setting \in Settings,
         ~s.queue.closed, s.queue.takers = <<>>, Full(s.queue), strategy = "sliding"
  PROVE  LET r == Slide(s, v)
         IN QueueOK(r, v) /\ HandedOK(r, lost) /\ r.queue.offered = s.queue.offered
<1> DEFINE q == s.queue  w == Head(q.items)
<1>1. PICK r : r = Slide(s, v)
  OBVIOUS
<1>2. /\ s \in States /\ q \in QueueStates /\ s.verdict \in [Values -> Verdicts]
      /\ q.items \in Seq(Values)
      /\ RoomOK(s) /\ LineOK(s) /\ ToldOK(s, next) /\ SumsOK(s, next)
  BY QueueOKParts
<1>3. q.items # <<>> /\ q.offers = <<>> /\ Waiting(s) = {}
  <2>1. capacity \in Nat /\ capacity > 0
    BY QueueAssumption DEF capacity, strategy
  <2>2. Len(<<>>) = 0
    OBVIOUS
  <2>3. q.items # <<>>
    BY <2>1, <2>2 DEF Full
  <2>4. q.offers = <<>>
    BY <1>2 DEF RoomOK
  <2> QED
    BY <2>3, <2>4, NoneWait
<1>4. /\ r \in States
      /\ r.queue = [q EXCEPT !.items = Append(Tail(q.items), v), !.accepted = q.accepted + 1,
                             !.slid = q.slid + 1]
      /\ r.verdict = [s.verdict EXCEPT ![v] = "accepted"] /\ r.inbox = s.inbox
      /\ r.passed = s.passed /\ r.gone = s.gone \cup {w} /\ r.received = s.received
  BY <1>1, <1>2, <1>3, SlideFields
<1>5. /\ r.queue.items = Append(Tail(q.items), v) /\ r.queue.offers = q.offers
      /\ r.queue.takers = q.takers
      /\ r.queue.closed = q.closed /\ r.queue.offered = q.offered /\ r.queue.taken = q.taken
      /\ r.queue.accepted = q.accepted + 1 /\ r.queue.slid = q.slid + 1
      /\ r.queue.discarded = q.discarded /\ r.queue.cancelledOffers = q.cancelledOffers
      /\ r.queue.dropped = q.dropped
  BY <1>2, <1>4 DEF QueueStates
<1>6. \A u \in Out(s) \cup Buffered(s) \cup s.gone \cup Waiting(s) : u < v
  BY SentBefore
<1>7. PICK rest \in Seq(Values) :
        /\ rest = Tail(q.items) /\ Len(rest) = Len(q.items) - 1 /\ Len(q.items) > 0
        /\ ToSet(rest) = Buffered(s) \ {w} /\ Rising(rest) /\ w \in Buffered(s)
        /\ Older({w}, ToSet(rest))
  BY <1>2, <1>3, PlaceTail DEF LineOK, Buffered
<1>8. /\ Len(Append(rest, v)) = Len(rest) + 1
      /\ ToSet(Append(rest, v)) = ToSet(rest) \cup {v} /\ Rising(Append(rest, v))
  <2>1. Older(ToSet(rest), {v})
    BY <1>6, <1>7 DEF Older
  <2> QED
    BY <1>7, <2>1, PlaceAppend
<1>9. /\ Out(r) = Out(s) /\ Buffered(r) = (Buffered(s) \ {w}) \cup {v}
      /\ Waiting(r) = {} /\ Len(r.queue.items) = Len(q.items)
  <2>1. r.queue.items = Append(rest, v)
    BY <1>5, <1>7
  <2>2. Out(r) = Out(s) /\ Buffered(r) = (Buffered(s) \ {w}) \cup {v}
    BY <1>4, <1>7, <1>8, <2>1 DEF Out, Buffered
  <2>3. Waiting(r) = {}
    BY <1>3, <1>5, NoneWait
  <2>4. Len(q.items) \in Nat /\ Len(r.queue.items) = (Len(q.items) - 1) + 1
    BY <1>2, <1>7, <1>8, <2>1
  <2> QED
    BY <2>2, <2>3, <2>4
<1>10. RoomOK(r)
  BY <1>2, <1>3, <1>5, <1>9 DEF RoomOK
<1>11. LineOK(r)
  <2>1. Older(s.gone, Buffered(s)) /\ Older(Out(s), Buffered(s))
    BY <1>2, <1>3 DEF LineOK
  <2>2. Older(r.gone, Buffered(r) \cup Waiting(r))
    BY <1>4, <1>6, <1>7, <1>9, <2>1 DEF Older
  <2>3. Older(Out(r), Buffered(r)) /\ Older(Out(r), Waiting(r)) /\ Older(Buffered(r), Waiting(r))
    BY <1>6, <1>9, <2>1 DEF Older
  <2>4. Rising(r.passed) /\ Rising(r.queue.items) /\ Rising(ValuesOf(r.queue.offers))
    BY <1>2, <1>4, <1>5, <1>7, <1>8 DEF LineOK
  <2> QED
    BY <2>2, <2>3, <2>4 DEF LineOK
<1>12. ToldOK(r, v)
  <2>1. s.gone \cap (Out(s) \cup Buffered(s)) = {} /\ v \notin s.gone
    BY <1>2, <1>6 DEF ToldOK
  <2>2. w \notin Out(s) /\ w # v /\ w \in Values
    <3>1. Older(Out(s), Buffered(s)) /\ w \in Values /\ w \in Nat
      BY <1>2, <1>7, SentBefore DEF LineOK
    <3> QED
      BY <1>6, <1>7, <3>1 DEF Older
  <2>3. r.gone \cap (Out(r) \cup Buffered(r)) = {}
    BY <1>4, <1>6, <1>7, <1>9, <2>1, <2>2
  <2>4. Out(r) \cup Buffered(r) \cup r.gone = Out(s) \cup Buffered(s) \cup s.gone \cup {v}
    BY <1>4, <1>7, <1>9
  <2> QED
    BY <1>3, <1>4, <1>9, <2>3, <2>4, ToldNew
<1>13. SumsOK(r, v)
  <2>1. s.verdict[v] # "accepted"
    BY SentBefore, <1>2 DEF ToldOK
  <2>2. PICK a, d, c, l, n, i, x, y \in Nat : Numbers(s, next, a, d, c, l, n, i, x, y)
    BY <1>2, SumsNumbers, Zenon
  <2>3. Cardinality(Accepted(r)) = a + 1
    <3>1. "accepted" \in Verdicts
      BY DEF Verdicts
    <3>2. Cardinality(Accepted(r)) = Cardinality(Accepted(s)) + 1
      BY <1>2, <1>4, <2>1, <3>1, VerdictCount
    <3> QED
      BY <2>2, <3>2 DEF Numbers
  <2>4. v = (a + 1) + d + c + l /\ a + 1 = n + i + (x + 1) + y
    <3>1. next = a + d + c + l /\ a = n + i + x + y
      BY <2>2 DEF Numbers
    <3> HIDE DEF q
    <3> QED
      BY <3>1
  <2>5. Numbers(r, v, a + 1, d, c, l, n, i, x + 1, y)
    BY <1>4, <1>5, <1>9, <2>2, <2>3, <2>4 DEF Numbers
  <2>6. a + 1 \in Nat /\ x + 1 \in Nat
    OBVIOUS
  <2> QED
    BY <2>5, <2>6, NumbersSum, Zenon
<1>14. HandedOK(r, lost)
  BY <1>4, <1>5, HandedSame
<1> QED
  BY <1>1, <1>4, <1>5, <1>10, <1>11, <1>12, <1>13, <1>14 DEF QueueOK

\* ... put in the line of those that wait to be let in, ...
LEMMA WaitKeeps ==
  ASSUME NEW s, NEW next \in Nat, QueueOK(s, next), NEW v \in Values, v = next + 1, HandedOK(s, lost),
         NEW p \in Producers,
         ~s.queue.closed, s.queue.takers = <<>>, Full(s.queue), strategy = "backpressure"
  PROVE  LET r == Wait(s, p, v)
         IN QueueOK(r, v) /\ HandedOK(r, lost) /\ r.queue.offered = s.queue.offered
<1> DEFINE q == s.queue
<1>1. PICK r, o : r = Wait(s, p, v) /\ o = Offer(p, v)
  OBVIOUS
<1>2. /\ s \in States /\ q \in QueueStates /\ s.verdict \in [Values -> Verdicts]
      /\ q.offers \in Seq(Offers)
      /\ RoomOK(s) /\ LineOK(s) /\ ToldOK(s, next) /\ SumsOK(s, next)
  BY QueueOKParts
<1>3. /\ r \in States /\ r.queue = [q EXCEPT !.offers = Append(q.offers, o)]
      /\ r.verdict = [s.verdict EXCEPT ![v] = "pending"] /\ r.inbox = s.inbox
      /\ r.passed = s.passed /\ r.gone = s.gone /\ r.received = s.received
      /\ o \in Offers /\ o.value = v
  BY <1>1, <1>2, WaitFields
<1>4. /\ r.queue.items = q.items /\ r.queue.offers = Append(q.offers, o)
      /\ r.queue.takers = q.takers
      /\ r.queue.closed = q.closed /\ r.queue.offered = q.offered /\ r.queue.taken = q.taken
      /\ r.queue.accepted = q.accepted /\ r.queue.slid = q.slid
      /\ r.queue.discarded = q.discarded /\ r.queue.cancelledOffers = q.cancelledOffers
      /\ r.queue.dropped = q.dropped
  BY <1>2, <1>3 DEF QueueStates
<1>5. \A w \in Out(s) \cup Buffered(s) \cup s.gone \cup Waiting(s) : w < v
  BY SentBefore
<1>6. /\ Len(r.queue.offers) = Len(q.offers) + 1 /\ Waiting(r) = Waiting(s) \cup {v}
      /\ Rising(ValuesOf(r.queue.offers))
  <2>1. Rising(ValuesOf(q.offers)) /\ Older(ToSet(ValuesOf(q.offers)), {o.value})
    BY <1>2, <1>3, <1>5 DEF LineOK, Older, Waiting
  <2> QED
    BY <1>2, <1>3, <1>4, <2>1, OfferAppend DEF Waiting
<1>7. Out(r) = Out(s) /\ Buffered(r) = Buffered(s)
  BY <1>3, <1>4 DEF Out, Buffered
<1>8. RoomOK(r)
  BY <1>2, <1>4 DEF RoomOK, Full
<1>9. LineOK(r)
  <2>1. /\ Older(s.gone, Buffered(s) \cup Waiting(s)) /\ Older(Out(s), Buffered(s))
        /\ Older(Out(s), Waiting(s)) /\ Older(Buffered(s), Waiting(s))
    BY <1>2 DEF LineOK
  <2>2. Older(r.gone, Buffered(r) \cup Waiting(r))
    BY <1>3, <1>5, <1>6, <1>7, <2>1 DEF Older
  <2>3. Older(Out(r), Buffered(r)) /\ Older(Out(r), Waiting(r)) /\ Older(Buffered(r), Waiting(r))
    BY <1>5, <1>6, <1>7, <2>1 DEF Older
  <2> QED
    BY <1>2, <1>3, <1>4, <1>6, <2>2, <2>3 DEF LineOK
<1>10. ToldOK(r, v)
  <2>1. r.gone \cap (Out(r) \cup Buffered(r)) = {}
    BY <1>2, <1>3, <1>7 DEF ToldOK
  <2> QED
    BY <1>3, <1>6, <1>7, <2>1, ToldNew
<1>11. SumsOK(r, v)
  <2>1. s.verdict[v] # "accepted"
    BY SentBefore, <1>2 DEF ToldOK
  <2>2. PICK a, d, c, l, n, i, x, y \in Nat : Numbers(s, next, a, d, c, l, n, i, x, y)
    BY <1>2, SumsNumbers, Zenon
  <2>3. Cardinality(Accepted(r)) = a
    <3>1. "pending" \in Verdicts
      BY DEF Verdicts
    <3>2. Cardinality(Accepted(r)) = Cardinality(Accepted(s))
      BY <1>2, <1>3, <2>1, <3>1, VerdictCount
    <3> QED
      BY <2>2, <3>2 DEF Numbers
  <2>4. v = a + d + c + (l + 1) /\ a = n + i + x + y
    <3>1. next = a + d + c + l /\ a = n + i + x + y
      BY <2>2 DEF Numbers
    <3> HIDE DEF q
    <3> QED
      BY <3>1
  <2>5. Numbers(r, v, a, d, c, l + 1, n, i, x, y)
    BY <1>3, <1>4, <1>6, <2>2, <2>3, <2>4 DEF Numbers
  <2>6. l + 1 \in Nat
    OBVIOUS
  <2> QED
    BY <2>5, <2>6, NumbersSum, Zenon
<1>12. HandedOK(r, lost)
  BY <1>3, <1>4, HandedSame
<1> QED
  BY <1>1, <1>3, <1>4, <1>8, <1>9, <1>10, <1>11, <1>12 DEF QueueOK

\* A taker that was told nothing yet gets a value that nobody got.
LEMMA HandedMore ==
  ASSUME NEW s \in States, HandedOK(s, lost), NEW c \in Consumers, s.inbox[c] = None,
         NEW v \in Values, v \notin Out(s), NEW r, r.inbox = [s.inbox EXCEPT ![c] = v],
         Out(r) = Out(s) \cup {v}, r.received = s.received,
         IsInjective(r.queue.takers), ToSet(r.queue.takers) \subseteq ToSet(s.queue.takers) \ {c},
         ToSet(s.queue.takers) \subseteq Consumers
  PROVE  HandedOK(r, lost)
<1> DEFINE D == {s.inbox[d] : d \in Consumers} \cap Values
           E == {r.inbox[d] : d \in Consumers} \cap Values
<1>1. /\ s.inbox \in [Consumers -> Answers] /\ None \notin Values
      /\ \A d \in ToSet(s.queue.takers) : s.inbox[d] = None
      /\ \A d, e \in Consumers : s.inbox[d] = s.inbox[e] /\ s.inbox[d] \in Values => d = e
      /\ Out(s) = s.received \cup D \cup lost
      /\ s.received \cap (D \cup lost) = {} /\ D \cap lost = {}
  BY StateFields, QueueAssumption DEF HandedOK, Values
<1>2. \A d \in Consumers : r.inbox[d] = IF d = c THEN v ELSE s.inbox[d]
  BY <1>1
<1>3. v \notin D /\ v \notin s.received /\ v \notin lost
  BY <1>1
<1>4. E = D \cup {v}
  BY <1>1, <1>2
<1>5. \A d \in ToSet(r.queue.takers) : r.inbox[d] = None
  BY <1>1, <1>2
<1>6. ASSUME NEW d \in Consumers, NEW e \in Consumers,
             r.inbox[d] = r.inbox[e], r.inbox[d] \in Values
      PROVE  d = e
  <2>1. \A f \in Consumers : s.inbox[f] # v
    BY <1>3
  <2> QED
    BY <1>1, <1>2, <1>6, <2>1
<1> HIDE DEF D
<1>7. /\ Out(r) = r.received \cup E \cup lost
      /\ r.received \cap (E \cup lost) = {} /\ E \cap lost = {}
  BY <1>1, <1>3, <1>4
<1> QED
  BY <1>5, <1>6, <1>7 DEF HandedOK

\* ... or handed to the taker that has waited longest.
LEMMA HandOverKeeps ==
  ASSUME NEW s, NEW next \in Nat, QueueOK(s, next), NEW v \in Values, v = next + 1, HandedOK(s, lost),
         ~s.queue.closed, s.queue.takers # <<>>
  PROVE  LET r == HandOver(s, v)
         IN QueueOK(r, v) /\ HandedOK(r, lost) /\ r.queue.offered = s.queue.offered
<1> DEFINE q == s.queue
<1>1. PICK r, k : r = HandOver(s, v) /\ k = Head(q.takers)
  OBVIOUS
<1>2. /\ s \in States /\ q \in QueueStates /\ s.verdict \in [Values -> Verdicts]
      /\ s.passed \in Seq(Values) /\ q.takers \in Seq(Consumers)
      /\ RoomOK(s) /\ LineOK(s) /\ ToldOK(s, next) /\ SumsOK(s, next)
  BY QueueOKParts
<1>3. /\ r \in States
      /\ r.queue = [q EXCEPT !.takers = Tail(q.takers), !.taken = q.taken + 1,
                             !.accepted = q.accepted + 1]
      /\ r.verdict = [s.verdict EXCEPT ![v] = "accepted"] /\ r.inbox = [s.inbox EXCEPT ![k] = v]
      /\ r.passed = Append(s.passed, v) /\ r.gone = s.gone /\ r.received = s.received
  BY <1>1, <1>2, HandOverFields
<1>4. /\ r.queue.items = q.items /\ r.queue.offers = q.offers
      /\ r.queue.takers = Tail(q.takers)
      /\ r.queue.closed = q.closed /\ r.queue.offered = q.offered /\ r.queue.taken = q.taken + 1
      /\ r.queue.accepted = q.accepted + 1 /\ r.queue.slid = q.slid
      /\ r.queue.discarded = q.discarded /\ r.queue.cancelledOffers = q.cancelledOffers
      /\ r.queue.dropped = q.dropped
  BY <1>2, <1>3 DEF QueueStates
<1>5. \A w \in Out(s) \cup Buffered(s) \cup s.gone \cup Waiting(s) : w < v
  BY SentBefore
<1>6. q.items = <<>> /\ q.offers = <<>> /\ Waiting(s) = {} /\ Buffered(s) = {}
  <2>1. q.items = <<>> /\ q.offers = <<>>
    BY <1>2 DEF RoomOK
  <2> QED
    BY <2>1, NoneWait DEF Buffered, ToSet
<1>7. Len(r.passed) = Len(s.passed) + 1 /\ Out(r) = Out(s) \cup {v} /\ Rising(r.passed)
  <2>1. Rising(s.passed) /\ Older(ToSet(s.passed), {v})
    BY <1>2, <1>5 DEF LineOK, Older, Out
  <2> QED
    BY <1>2, <1>3, <2>1, PlaceAppend DEF Out
<1>8. Buffered(r) = {} /\ Waiting(r) = {}
  BY <1>4, <1>6 DEF Buffered, Waiting
<1>9. RoomOK(r)
  BY <1>2, <1>4, <1>6 DEF RoomOK
<1>10. LineOK(r)
  <2>1. Rising(r.queue.items) /\ Rising(ValuesOf(r.queue.offers))
    BY <1>2, <1>4 DEF LineOK
  <2>2. /\ Older(Out(r), Buffered(r)) /\ Older(Out(r), Waiting(r)) /\ Older(Buffered(r), Waiting(r))
        /\ Older(r.gone, Buffered(r) \cup Waiting(r))
    BY <1>8 DEF Older
  <2> QED
    BY <1>7, <2>1, <2>2 DEF LineOK
<1>11. ToldOK(r, v)
  <2>1. s.gone \cap (Out(s) \cup Buffered(s)) = {} /\ v \notin s.gone
    BY <1>2, SentBefore DEF ToldOK
  <2>2. r.gone \cap (Out(r) \cup Buffered(r)) = {}
    BY <1>3, <1>7, <1>8, <2>1
  <2>3. Out(r) \cup Buffered(r) \cup r.gone = Out(s) \cup Buffered(s) \cup s.gone \cup {v}
    BY <1>3, <1>6, <1>7, <1>8
  <2> QED
    BY <1>3, <1>6, <1>8, <2>2, <2>3, ToldNew
<1>12. SumsOK(r, v)
  <2>1. s.verdict[v] # "accepted"
    BY SentBefore, <1>2 DEF ToldOK
  <2>2. PICK a, d, c, l, n, i, x, y \in Nat : Numbers(s, next, a, d, c, l, n, i, x, y)
    BY <1>2, SumsNumbers, Zenon
  <2>3. Cardinality(Accepted(r)) = a + 1
    <3>1. "accepted" \in Verdicts
      BY DEF Verdicts
    <3>2. Cardinality(Accepted(r)) = Cardinality(Accepted(s)) + 1
      BY <1>2, <1>3, <2>1, <3>1, VerdictCount
    <3> QED
      BY <2>2, <3>2 DEF Numbers
  <2>4. v = (a + 1) + d + c + l /\ a + 1 = (n + 1) + i + x + y
    <3>1. next = a + d + c + l /\ a = n + i + x + y
      BY <2>2 DEF Numbers
    <3> HIDE DEF q
    <3> QED
      BY <3>1
  <2>5. Numbers(r, v, a + 1, d, c, l, n + 1, i, x, y)
    BY <1>3, <1>4, <1>7, <2>2, <2>3, <2>4 DEF Numbers
  <2>6. a + 1 \in Nat /\ n + 1 \in Nat
    OBVIOUS
  <2> QED
    BY <2>5, <2>6, NumbersSum, Zenon
<1>13. HandedOK(r, lost)
  <2>1. IsInjective(q.takers) /\ \A d \in ToSet(q.takers) : s.inbox[d] = None
    BY DEF HandedOK
  <2>2. /\ k \in Consumers /\ k \in ToSet(q.takers) /\ IsInjective(r.queue.takers)
        /\ ToSet(r.queue.takers) = ToSet(q.takers) \ {k}
    BY <1>1, <1>2, <1>4, <2>1, TailNode
  <2>3. ToSet(q.takers) \subseteq Consumers
    BY <1>2 DEF ToSet
  <2>4. v \notin Out(s)
    BY <1>5, SentBefore
  <2>5. s.inbox[k] = None /\ ToSet(r.queue.takers) \subseteq ToSet(q.takers) \ {k}
    BY <2>1, <2>2
  <2>6. s \in States /\ r.inbox = [s.inbox EXCEPT ![k] = v] /\ r.received = s.received
    BY <1>2, <1>3
  <2>7. k \in Consumers /\ IsInjective(r.queue.takers) /\ Out(r) = Out(s) \cup {v}
    BY <1>7, <2>2
  <2> QED
    BY <2>3, <2>4, <2>5, <2>6, <2>7, HandedMore, Zenon
<1> QED
  BY <1>1, <1>3, <1>4, <1>9, <1>10, <1>11, <1>12, <1>13 DEF QueueOK

\* One value of an offer, whatever the state of the queue.
LEMMA PutKeeps ==
  ASSUME NEW s, NEW next \in Nat, QueueOK(s, next), NEW v \in Values, v = next + 1, HandedOK(s, lost),
         setting \in Settings, NEW p \in Producers, NEW mayWait \in BOOLEAN
  PROVE  LET r == Put(s, p, v, mayWait)
         IN QueueOK(r, v) /\ HandedOK(r, lost) /\ r.queue.offered = s.queue.offered
<1> DEFINE r == Put(s, p, v, mayWait)
<1>1. strategy \in {"backpressure", "dropping", "sliding"}
  BY QueueAssumption DEF strategy
<1>2. \/ r = Refuse(s, v)
      \/ ~s.queue.closed /\ s.queue.takers # <<>> /\ r = HandOver(s, v)
      \/ ~s.queue.closed /\ s.queue.takers = <<>> /\ ~Full(s.queue) /\ r = Store(s, v)
      \/ ~s.queue.closed /\ s.queue.takers = <<>> /\ Full(s.queue) /\ strategy = "sliding"
         /\ r = Slide(s, v)
      \/ ~s.queue.closed /\ s.queue.takers = <<>> /\ Full(s.queue) /\ strategy = "backpressure"
         /\ r = Wait(s, p, v)
  BY <1>1 DEF Put
<1> HIDE DEF r
<1>3. QueueOK(r, v) /\ HandedOK(r, lost) /\ r.queue.offered = s.queue.offered
  BY <1>2, RefuseKeeps, HandOverKeeps, StoreKeeps, SlideKeeps, WaitKeeps
<1> QED
  BY <1>3 DEF r

-----------------------------------------------------------------------------
(* One value taken.                                                        *)

\* A take that finds an item, before a waiting offer is let in.
Dequeue(s) == [s EXCEPT !.queue.items = Tail(@), !.queue.taken = @ + 1,
                        !.passed = Append(@, Head(s.queue.items))]
LetIn(s) == [s EXCEPT !.queue.offers = Tail(@)]
Direct(s, v) == [s EXCEPT !.queue.offers = Tail(@), !.queue.accepted = @ + 1, !.queue.taken = @ + 1,
                          !.verdict[v] = "accepted", !.passed = Append(@, v)]

LEMMA DequeueFields ==
  ASSUME NEW s \in States, s.queue.items # <<>>
  PROVE  LET r == Dequeue(s)
         IN /\ r \in States
            /\ r.queue = [s.queue EXCEPT !.items = Tail(@), !.taken = @ + 1]
            /\ r.passed = Append(s.passed, Head(s.queue.items)) /\ r.verdict = s.verdict
            /\ r.inbox = s.inbox /\ r.gone = s.gone /\ r.received = s.received
<1>1. s.queue \in QueueStates
  BY StateFields
<1>2. s.queue.taken \in Nat /\ s.queue.items \in Seq(Values) /\ s.passed \in Seq(Values)
  BY <1>1, QueueFields, StateFields
<1>3. /\ s.queue.taken + 1 \in Nat /\ Tail(s.queue.items) \in Seq(Values)
      /\ Append(s.passed, Head(s.queue.items)) \in Seq(Values)
  <2>1. \A x \in Seq(Values) : x # <<>> => Tail(x) \in Seq(Values) /\ Head(x) \in Values
    OBVIOUS
  <2>2. \A x \in Seq(Values), w \in Values : Append(x, w) \in Seq(Values)
    OBVIOUS
  <2> QED
    BY <1>2, <2>1, <2>2
<1>4. PICK n \in Nat, x \in Seq(Values), y \in Seq(Values) :
        n = s.queue.taken + 1 /\ x = Tail(s.queue.items) /\ y = Append(s.passed, Head(s.queue.items))
  BY <1>3, Zenon
<1>5. [s.queue EXCEPT !.items = x, !.taken = n] \in QueueStates
  BY <1>1, <1>4 DEF QueueStates
<1>6. Dequeue(s) \in States
  BY <1>4, <1>5 DEF Dequeue, States
<1> QED
  BY <1>6 DEF Dequeue, States

LEMMA LetInFields ==
  ASSUME NEW s \in States, s.queue.offers # <<>>
  PROVE  LET r == LetIn(s)
         IN /\ r \in States /\ r.queue = [s.queue EXCEPT !.offers = Tail(@)]
            /\ r.passed = s.passed /\ r.verdict = s.verdict
            /\ r.inbox = s.inbox /\ r.gone = s.gone /\ r.received = s.received
<1>1. s.queue \in QueueStates
  BY StateFields
<1>2. s.queue.offers \in Seq(Offers)
  BY <1>1, QueueFields
<1>3. PICK x \in Seq(Offers) : x = Tail(s.queue.offers)
  <2>1. Tail(s.queue.offers) \in Seq(Offers)
    BY <1>2
  <2> QED
    BY <2>1, Zenon
<1>4. [s.queue EXCEPT !.offers = x] \in QueueStates
  BY <1>1, <1>3 DEF QueueStates
<1>5. LetIn(s) \in States
  BY <1>3, <1>4 DEF LetIn, States
<1> QED
  BY <1>5 DEF LetIn, States

LEMMA DirectFields ==
  ASSUME NEW s \in States, s.queue.offers # <<>>, NEW v \in Values
  PROVE  LET r == Direct(s, v)
         IN /\ r \in States
            /\ r.queue = [s.queue EXCEPT !.offers = Tail(@), !.accepted = @ + 1, !.taken = @ + 1]
            /\ r.passed = Append(s.passed, v) /\ r.verdict = [s.verdict EXCEPT ![v] = "accepted"]
            /\ r.inbox = s.inbox /\ r.gone = s.gone /\ r.received = s.received
<1>1. s.queue \in QueueStates
  BY StateFields
<1>2. /\ s.queue.taken \in Nat /\ s.queue.accepted \in Nat /\ s.queue.offers \in Seq(Offers)
      /\ s.passed \in Seq(Values)
  BY <1>1, QueueFields, StateFields
<1>3. /\ s.queue.taken + 1 \in Nat /\ s.queue.accepted + 1 \in Nat
      /\ Tail(s.queue.offers) \in Seq(Offers) /\ Append(s.passed, v) \in Seq(Values)
  <2>1. \A x \in Seq(Offers) : x # <<>> => Tail(x) \in Seq(Offers)
    OBVIOUS
  <2>2. \A x \in Seq(Values) : Append(x, v) \in Seq(Values)
    OBVIOUS
  <2> QED
    BY <1>2, <2>1, <2>2
<1>4. PICK n \in Nat, m \in Nat, x \in Seq(Offers), y \in Seq(Values) :
        n = s.queue.taken + 1 /\ m = s.queue.accepted + 1
        /\ x = Tail(s.queue.offers) /\ y = Append(s.passed, v)
  BY <1>3, Zenon
<1>5. [s.queue EXCEPT !.offers = x, !.accepted = m, !.taken = n] \in QueueStates
  BY <1>1, <1>4 DEF QueueStates
<1>6. "accepted" \in Verdicts
  BY DEF Verdicts
<1>7. Direct(s, v) \in States
  BY <1>4, <1>5, <1>6 DEF Direct, States
<1> QED
  BY <1>7 DEF Direct, States

LEMMA GetCases ==
  ASSUME NEW s
  PROVE  /\ s.queue.items # <<>> => Get(s) = Admit(Dequeue(s))
         /\ s.queue.items = <<>> => Get(s) = Direct(s, Head(s.queue.offers).value)
BY DEF Get, Dequeue, Direct

LEMMA AdmitCases ==
  ASSUME NEW s
  PROVE  /\ s.queue.offers # <<>> /\ ~Full(s.queue)
              => Admit(s) = Store(LetIn(s), Head(s.queue.offers).value)
         /\ s.queue.offers = <<>> => Admit(s) = s
BY DEF Admit, LetIn

LEMMA ToldSame ==
  ASSUME NEW s, NEW next, ToldOK(s, next), NEW r, r.verdict = s.verdict,
         Out(r) \cup Buffered(r) \cup r.gone = Out(s) \cup Buffered(s) \cup s.gone,
         Waiting(r) = Waiting(s), r.gone \cap (Out(r) \cup Buffered(r)) = {}
  PROVE  ToldOK(r, next)
BY DEF ToldOK

\* What a take leaves: the line without its first value, and the rest of the state.
TakenFrom(s, r, w) ==
  /\ w \in Values /\ w \notin Out(s) /\ r.passed = Append(s.passed, w) /\ Out(r) = Out(s) \cup {w}
  /\ r.inbox = s.inbox /\ r.received = s.received
  /\ r.queue.takers = s.queue.takers /\ r.queue.offered = s.queue.offered
  /\ Len(r.queue.items) + Len(r.queue.offers) = Len(s.queue.items) + Len(s.queue.offers) - 1

\* The oldest item goes out and nobody waits to be let in; or the oldest offer
\* that waits takes its room; or, with no room at all, its value goes out at once.
LEMMA ItemTaken ==
  ASSUME NEW s, NEW next \in Nat, QueueOK(s, next), setting \in Settings,
         s.queue.items # <<>>, s.queue.offers = <<>>
  PROVE  QueueOK(Get(s), next) /\ TakenFrom(s, Get(s), Head(s.queue.items))
<1> DEFINE q == s.queue
<1>1. PICK r, w : r = Get(s) /\ w = Head(q.items)
  OBVIOUS
<1>2. /\ s \in States /\ q \in QueueStates /\ s.verdict \in [Values -> Verdicts]
      /\ s.passed \in Seq(Values) /\ q.items \in Seq(Values)
      /\ RoomOK(s) /\ LineOK(s) /\ ToldOK(s, next) /\ SumsOK(s, next)
  BY QueueOKParts
<1>3. r = Dequeue(s)
  <2>1. Dequeue(s).queue = [q EXCEPT !.items = Tail(@), !.taken = @ + 1]
    BY <1>2, DequeueFields
  <2>2. Dequeue(s).queue.offers = <<>>
    BY <1>2, <2>1 DEF QueueStates
  <2> QED
    BY <1>1, <2>2, GetCases, AdmitCases
<1>4. /\ r \in States /\ r.queue = [q EXCEPT !.items = Tail(q.items), !.taken = q.taken + 1]
      /\ r.passed = Append(s.passed, w) /\ r.verdict = s.verdict
      /\ r.inbox = s.inbox /\ r.gone = s.gone /\ r.received = s.received
  BY <1>1, <1>2, <1>3, DequeueFields
<1>5. /\ r.queue.items = Tail(q.items) /\ r.queue.offers = q.offers /\ r.queue.takers = q.takers
      /\ r.queue.closed = q.closed /\ r.queue.offered = q.offered /\ r.queue.taken = q.taken + 1
      /\ r.queue.accepted = q.accepted /\ r.queue.slid = q.slid
      /\ r.queue.discarded = q.discarded /\ r.queue.cancelledOffers = q.cancelledOffers
      /\ r.queue.dropped = q.dropped
  BY <1>2, <1>4 DEF QueueStates
<1>6. /\ w \in Values /\ w \in Buffered(s) /\ Buffered(r) = Buffered(s) \ {w}
      /\ Len(r.queue.items) = Len(q.items) - 1 /\ Len(q.items) > 0
      /\ Rising(r.queue.items) /\ Older({w}, Buffered(r))
  BY <1>1, <1>2, <1>5, PlaceTail DEF LineOK, Buffered
<1>7. Out(r) = Out(s) \cup {w} /\ Rising(r.passed) /\ Len(r.passed) = Len(s.passed) + 1 /\ w \notin Out(s)
  <2>1. Rising(s.passed) /\ Older(Out(s), {w})
    BY <1>2, <1>6 DEF LineOK, Older
  <2>2. w \notin Out(s)
    BY <1>2, <1>6, <2>1, SentBefore DEF Older
  <2> QED
    BY <1>2, <1>4, <1>6, <2>1, <2>2, PlaceAppend DEF Out
<1>8. Waiting(r) = {} /\ Waiting(s) = {}
  BY <1>5, NoneWait
<1>9. RoomOK(r)
  <2>1. capacity \in Nat
    BY QueueAssumption DEF capacity
  <2>2. Len(q.items) \in Nat /\ q.takers = <<>> /\ ~q.closed /\ Len(q.items) <= capacity
    BY <1>2 DEF RoomOK
  <2>3. Len(q.items) - 1 <= capacity
    BY <2>1, <2>2
  <2> QED
    BY <1>5, <1>6, <2>2, <2>3 DEF RoomOK
<1>10. LineOK(r)
  <2>1. Older(Out(s), Buffered(s)) /\ ~q.closed => Older(s.gone, Buffered(s))
    BY <1>2 DEF LineOK, Older
  <2>2. Older(Out(r), Buffered(r)) /\ Older(Out(r), Waiting(r)) /\ Older(Buffered(r), Waiting(r))
    BY <1>2, <1>6, <1>7, <1>8 DEF LineOK, Older
  <2>3. ~q.closed => Older(r.gone, Buffered(r) \cup Waiting(r))
    BY <1>2, <1>4, <1>6, <1>8 DEF LineOK, Older
  <2>4. Rising(ValuesOf(r.queue.offers))
    BY <1>2, <1>5 DEF LineOK
  <2> QED
    BY <1>5, <1>6, <1>7, <2>2, <2>3, <2>4 DEF LineOK
<1>11. ToldOK(r, next)
  <2>1. s.gone \cap (Out(s) \cup Buffered(s)) = {}
    BY <1>2 DEF ToldOK
  <2>2. Out(r) \cup Buffered(r) = Out(s) \cup Buffered(s)
    BY <1>6, <1>7
  <2>3. r.gone \cap (Out(r) \cup Buffered(r)) = {}
        /\ Out(r) \cup Buffered(r) \cup r.gone = Out(s) \cup Buffered(s) \cup s.gone
    BY <1>4, <2>1, <2>2
  <2>4. Waiting(r) = Waiting(s)
    BY <1>8
  <2> QED
    BY <1>2, <1>4, <2>3, <2>4, ToldSame, Zenon
<1>12. SumsOK(r, next)
  <2>1. PICK a, d, c, l, n, i, x, y \in Nat : Numbers(s, next, a, d, c, l, n, i, x, y)
    BY <1>2, SumsNumbers, Zenon
  <2>2. Accepted(r) = Accepted(s)
    BY <1>4 DEF Accepted
  <2>3. next = a + d + c + l /\ a = (n + 1) + (i - 1) + x + y /\ i > 0
    <3>1. next = a + d + c + l /\ a = n + i + x + y /\ Len(q.items) = i
      BY <2>1 DEF Numbers
    <3>2. i > 0
      BY <1>6, <3>1
    <3> HIDE DEF q
    <3> QED
      BY <3>1, <3>2
  <2>4. Numbers(r, next, a, d, c, l, n + 1, i - 1, x, y)
    BY <1>4, <1>5, <1>6, <1>7, <2>1, <2>2, <2>3 DEF Numbers
  <2>5. n + 1 \in Nat /\ i - 1 \in Nat
    <3>1. i > 0
      BY <2>3
    <3> QED
      BY <3>1
  <2> QED
    BY <2>4, <2>5, NumbersSum, Zenon
<1>13. Len(r.queue.items) + Len(r.queue.offers) = Len(q.items) + Len(q.offers) - 1
  <2>1. Len(q.items) \in Nat /\ Len(q.offers) \in Nat
    BY <1>2, QueueFields
  <2>2. r.queue.offers = q.offers /\ Len(r.queue.items) = Len(q.items) - 1
    BY <1>5, <1>6
  <2> QED
    BY <2>1, <2>2
<1>14. TakenFrom(s, r, w)
  BY <1>4, <1>5, <1>6, <1>7, <1>13 DEF TakenFrom
<1> QED
  BY <1>1, <1>4, <1>9, <1>10, <1>11, <1>12, <1>14 DEF QueueOK

LEMMA ItemTakenOfferAdmitted ==
  ASSUME NEW s, NEW next \in Nat, QueueOK(s, next), setting \in Settings,
         s.queue.items # <<>>, s.queue.offers # <<>>
  PROVE  QueueOK(Get(s), next) /\ TakenFrom(s, Get(s), Head(s.queue.items))
<1> DEFINE q == s.queue
<1>1. PICK r, w, v, k, m : /\ r = Get(s) /\ w = Head(q.items) /\ v = Head(q.offers).value
                           /\ k = Dequeue(s) /\ m = LetIn(k)
  OBVIOUS
<1>2. /\ s \in States /\ q \in QueueStates /\ s.verdict \in [Values -> Verdicts]
      /\ s.passed \in Seq(Values) /\ q.items \in Seq(Values) /\ q.offers \in Seq(Offers)
      /\ RoomOK(s) /\ LineOK(s) /\ ToldOK(s, next) /\ SumsOK(s, next)
  BY QueueOKParts
<1>3. /\ Len(q.items) = capacity /\ capacity \in Nat /\ Len(q.items) \in Nat
      /\ q.takers = <<>> /\ ~q.closed /\ strategy = "backpressure"
  <2>1. capacity \in Nat /\ Len(q.items) \in Nat
    BY <1>2, QueueAssumption DEF capacity
  <2>2. Len(q.items) <= capacity /\ Len(q.items) >= capacity /\ strategy = "backpressure"
    BY <1>2 DEF RoomOK, Full
  <2>3. q.takers = <<>> /\ ~q.closed
    BY <1>2 DEF RoomOK
  <2> QED
    BY <2>1, <2>2, <2>3
<1>4. /\ w \in Values /\ w \in Buffered(s) /\ Tail(q.items) \in Seq(Values)
      /\ ToSet(Tail(q.items)) = Buffered(s) \ {w}
      /\ Len(Tail(q.items)) = Len(q.items) - 1 /\ Len(q.items) > 0
      /\ Rising(Tail(q.items)) /\ Older({w}, ToSet(Tail(q.items)))
  BY <1>1, <1>2, PlaceTail DEF LineOK, Buffered
<1>5. /\ v \in Values /\ v \in Waiting(s) /\ Len(Tail(q.offers)) = Len(q.offers) - 1
      /\ Len(q.offers) > 0 /\ ToSet(ValuesOf(Tail(q.offers))) = Waiting(s) \ {v}
      /\ Rising(ValuesOf(Tail(q.offers))) /\ Older({v}, ToSet(ValuesOf(Tail(q.offers))))
  BY <1>1, <1>2, OfferTail DEF LineOK, Waiting
<1>6. /\ k \in States /\ k.queue = [q EXCEPT !.items = Tail(q.items), !.taken = q.taken + 1]
      /\ k.passed = Append(s.passed, w) /\ k.verdict = s.verdict
      /\ k.inbox = s.inbox /\ k.gone = s.gone /\ k.received = s.received
      /\ k.queue.offers = q.offers /\ k.queue.items = Tail(q.items)
  <2>1. /\ k \in States /\ k.queue = [q EXCEPT !.items = Tail(q.items), !.taken = q.taken + 1]
        /\ k.passed = Append(s.passed, w) /\ k.verdict = s.verdict
        /\ k.inbox = s.inbox /\ k.gone = s.gone /\ k.received = s.received
    BY <1>1, <1>2, DequeueFields
  <2>2. k.queue.offers = q.offers /\ k.queue.items = Tail(q.items)
    BY <1>2, <2>1 DEF QueueStates
  <2> QED
    BY <2>1, <2>2
<1>7. r = Store(m, v)
  <2>1. ~Full(k.queue)
    BY <1>3, <1>4, <1>6 DEF Full
  <2>2. r = Admit(k)
    BY <1>1, GetCases
  <2> QED
    BY <1>1, <1>6, <2>1, <2>2, AdmitCases
<1>8. /\ m \in States /\ m.queue = [k.queue EXCEPT !.offers = Tail(k.queue.offers)]
      /\ m.passed = k.passed /\ m.verdict = k.verdict
      /\ m.inbox = k.inbox /\ m.gone = k.gone /\ m.received = k.received
  BY <1>1, <1>6, LetInFields
<1>9. /\ r \in States
      /\ r.queue = [m.queue EXCEPT !.items = Append(m.queue.items, v),
                                   !.accepted = m.queue.accepted + 1]
      /\ r.verdict = [s.verdict EXCEPT ![v] = "accepted"] /\ r.inbox = s.inbox
      /\ r.passed = Append(s.passed, w) /\ r.gone = s.gone /\ r.received = s.received
  <2>1. m \in States /\ v \in Values
    BY <1>5, <1>8
  <2>2. /\ r \in States
        /\ r.queue = [m.queue EXCEPT !.items = Append(m.queue.items, v),
                                     !.accepted = m.queue.accepted + 1]
        /\ r.verdict = [m.verdict EXCEPT ![v] = "accepted"] /\ r.inbox = m.inbox
        /\ r.passed = m.passed /\ r.gone = m.gone /\ r.received = m.received
    BY <1>7, <2>1, StoreFields
  <2> QED
    BY <1>6, <1>8, <2>2
<1>10. /\ r.queue.items = Append(Tail(q.items), v) /\ r.queue.offers = Tail(q.offers)
       /\ r.queue.takers = q.takers
       /\ r.queue.closed = q.closed /\ r.queue.offered = q.offered /\ r.queue.taken = q.taken + 1
       /\ r.queue.accepted = q.accepted + 1 /\ r.queue.slid = q.slid
       /\ r.queue.discarded = q.discarded /\ r.queue.cancelledOffers = q.cancelledOffers
       /\ r.queue.dropped = q.dropped
  <2>1. /\ k.queue \in QueueStates /\ k.queue.items = Tail(q.items) /\ k.queue.offers = q.offers
        /\ k.queue.takers = q.takers /\ k.queue.closed = q.closed /\ k.queue.offered = q.offered
        /\ k.queue.taken = q.taken + 1 /\ k.queue.accepted = q.accepted /\ k.queue.slid = q.slid
        /\ k.queue.discarded = q.discarded /\ k.queue.cancelledOffers = q.cancelledOffers
        /\ k.queue.dropped = q.dropped
    BY <1>2, <1>6, StateFields DEF QueueStates
  <2>2. /\ m.queue \in QueueStates /\ m.queue.items = k.queue.items
        /\ m.queue.offers = Tail(k.queue.offers)
        /\ m.queue.takers = k.queue.takers /\ m.queue.closed = k.queue.closed
        /\ m.queue.offered = k.queue.offered /\ m.queue.taken = k.queue.taken
        /\ m.queue.accepted = k.queue.accepted /\ m.queue.slid = k.queue.slid
        /\ m.queue.discarded = k.queue.discarded
        /\ m.queue.cancelledOffers = k.queue.cancelledOffers /\ m.queue.dropped = k.queue.dropped
    BY <1>8, <2>1, StateFields DEF QueueStates
  <2>3. /\ r.queue.items = Append(m.queue.items, v) /\ r.queue.offers = m.queue.offers
        /\ r.queue.takers = m.queue.takers /\ r.queue.closed = m.queue.closed
        /\ r.queue.offered = m.queue.offered /\ r.queue.taken = m.queue.taken
        /\ r.queue.accepted = m.queue.accepted + 1 /\ r.queue.slid = m.queue.slid
        /\ r.queue.discarded = m.queue.discarded
        /\ r.queue.cancelledOffers = m.queue.cancelledOffers /\ r.queue.dropped = m.queue.dropped
    BY <1>9, <2>2 DEF QueueStates
  <2> QED
    BY <2>1, <2>2, <2>3
<1>11. /\ Older(Out(s), Buffered(s)) /\ Older(Out(s), Waiting(s)) /\ Older(Buffered(s), Waiting(s))
       /\ Older(s.gone, Buffered(s) \cup Waiting(s)) /\ Rising(s.passed)
  BY <1>2, <1>3 DEF LineOK
<1>12. /\ Len(r.queue.items) = Len(q.items) /\ Buffered(r) = (Buffered(s) \ {w}) \cup {v}
       /\ Rising(r.queue.items)
  <2>1. Older(ToSet(Tail(q.items)), {v})
    BY <1>4, <1>5, <1>11 DEF Older
  <2>2. PICK x \in Seq(Values) : x = Tail(q.items)
    BY <1>4
  <2>3. /\ Len(Append(x, v)) = Len(x) + 1 /\ ToSet(Append(x, v)) = ToSet(x) \cup {v}
        /\ Rising(Append(x, v))
    BY <1>4, <1>5, <2>1, <2>2, PlaceAppend
  <2>4. r.queue.items = Append(x, v) /\ Len(x) = Len(q.items) - 1 /\ ToSet(x) = Buffered(s) \ {w}
    BY <1>4, <1>10, <2>2
  <2>5. Len(r.queue.items) = Len(q.items)
    BY <1>3, <2>3, <2>4
  <2>6. Buffered(r) = (Buffered(s) \ {w}) \cup {v}
    BY <2>3, <2>4 DEF Buffered
  <2> QED
    BY <2>3, <2>4, <2>5, <2>6
<1>13. Out(r) = Out(s) \cup {w} /\ Rising(r.passed) /\ Len(r.passed) = Len(s.passed) + 1 /\ w \notin Out(s)
  <2>1. Older(Out(s), {w})
    BY <1>4, <1>11 DEF Older
  <2>2. w \notin Out(s)
    BY <1>4, <2>1, SentBefore DEF Older
  <2> QED
    BY <1>2, <1>4, <1>9, <1>11, <2>1, <2>2, PlaceAppend DEF Out
<1>14. Waiting(r) = Waiting(s) \ {v} /\ Rising(ValuesOf(r.queue.offers))
       /\ Len(r.queue.offers) = Len(q.offers) - 1
  BY <1>5, <1>10 DEF Waiting
<1>15. RoomOK(r)
  BY <1>2, <1>3, <1>10, <1>12 DEF RoomOK, Full
<1>16. LineOK(r)
  <2>1. Older({w}, Buffered(s) \ {w}) /\ Older({v}, Waiting(s) \ {v})
    BY <1>4, <1>5 DEF Waiting
  <2>2. Older(Out(r), Buffered(r))
    BY <1>4, <1>5, <1>11, <1>12, <1>13, <2>1 DEF Older
  <2>3. Older(Out(r), Waiting(r)) /\ Older(Buffered(r), Waiting(r))
    BY <1>4, <1>5, <1>11, <1>12, <1>13, <1>14, <2>1 DEF Older
  <2>4. Older(r.gone, Buffered(r) \cup Waiting(r))
    BY <1>4, <1>5, <1>9, <1>11, <1>12, <1>14 DEF Older
  <2> QED
    BY <1>12, <1>13, <1>14, <2>2, <2>3, <2>4 DEF LineOK
<1>17. ToldOK(r, next)
  <2>1. s.gone \cap (Out(s) \cup Buffered(s)) = {} /\ v \notin s.gone
    BY <1>2, <1>5, SentBefore DEF ToldOK
  <2>2. Out(r) \cup Buffered(r) = Out(s) \cup Buffered(s) \cup {v}
    BY <1>4, <1>12, <1>13
  <2>3. r.gone \cap (Out(r) \cup Buffered(r)) = {}
    BY <1>9, <2>1, <2>2
  <2>4. Out(r) \cup Buffered(r) \cup r.gone = Out(s) \cup Buffered(s) \cup s.gone \cup {v}
    BY <1>9, <2>2
  <2> QED
    BY <1>5, <1>9, <1>14, <2>3, <2>4, ToldMoved
<1>18. SumsOK(r, next)
  <2>1. s.verdict[v] # "accepted"
    BY <1>2, <1>5 DEF ToldOK
  <2>2. PICK a, d, c, l, n, i, x, y \in Nat : Numbers(s, next, a, d, c, l, n, i, x, y)
    BY <1>2, SumsNumbers, Zenon
  <2>3. Cardinality(Accepted(r)) = a + 1
    <3>1. "accepted" \in Verdicts
      BY DEF Verdicts
    <3>2. Cardinality(Accepted(r)) = Cardinality(Accepted(s)) + 1
      BY <1>2, <1>5, <1>9, <2>1, <3>1, VerdictCount
    <3> QED
      BY <2>2, <3>2 DEF Numbers
  <2>4. next = (a + 1) + d + c + (l - 1) /\ a + 1 = (n + 1) + i + x + y /\ l > 0
    <3>1. next = a + d + c + l /\ a = n + i + x + y /\ Len(q.offers) = l
      BY <2>2 DEF Numbers
    <3>2. l > 0
      BY <1>5, <3>1
    <3> HIDE DEF q
    <3> QED
      BY <3>1, <3>2
  <2>5. Numbers(r, next, a + 1, d, c, l - 1, n + 1, i, x, y)
    BY <1>9, <1>10, <1>12, <1>13, <1>14, <2>2, <2>3, <2>4 DEF Numbers
  <2>6. a + 1 \in Nat /\ n + 1 \in Nat /\ l - 1 \in Nat
    <3>1. l > 0
      BY <2>4
    <3> QED
      BY <3>1
  <2> QED
    BY <2>5, <2>6, NumbersSum, Zenon
<1>19. Len(r.queue.items) + Len(r.queue.offers) = Len(q.items) + Len(q.offers) - 1
  <2>1. Len(q.offers) \in Nat
    BY <1>2
  <2> QED
    BY <1>3, <1>12, <1>14, <2>1
<1>20. TakenFrom(s, r, w)
  BY <1>4, <1>9, <1>10, <1>13, <1>19 DEF TakenFrom
<1> QED
  BY <1>1, <1>9, <1>15, <1>16, <1>17, <1>18, <1>20 DEF QueueOK

LEMMA OfferTaken ==
  ASSUME NEW s, NEW next \in Nat, QueueOK(s, next),
         s.queue.items = <<>>, s.queue.offers # <<>>
  PROVE  QueueOK(Get(s), next) /\ TakenFrom(s, Get(s), Head(s.queue.offers).value)
<1> DEFINE q == s.queue
<1>1. PICK r, v : r = Get(s) /\ v = Head(q.offers).value
  OBVIOUS
<1>2. /\ s \in States /\ q \in QueueStates /\ s.verdict \in [Values -> Verdicts]
      /\ s.passed \in Seq(Values) /\ q.offers \in Seq(Offers)
      /\ RoomOK(s) /\ LineOK(s) /\ ToldOK(s, next) /\ SumsOK(s, next)
  BY QueueOKParts
<1>3. q.takers = <<>> /\ ~q.closed /\ Full(q) /\ strategy = "backpressure" /\ Buffered(s) = {}
  BY <1>2 DEF RoomOK, Buffered, ToSet
<1>4. /\ v \in Values /\ v \in Waiting(s) /\ Len(Tail(q.offers)) = Len(q.offers) - 1
      /\ Len(q.offers) > 0 /\ ToSet(ValuesOf(Tail(q.offers))) = Waiting(s) \ {v}
      /\ Rising(ValuesOf(Tail(q.offers))) /\ Older({v}, Waiting(s) \ {v})
  BY <1>1, <1>2, OfferTail DEF LineOK, Waiting
<1>5. /\ r \in States
      /\ r.queue = [q EXCEPT !.offers = Tail(q.offers), !.accepted = q.accepted + 1,
                             !.taken = q.taken + 1]
      /\ r.verdict = [s.verdict EXCEPT ![v] = "accepted"] /\ r.inbox = s.inbox
      /\ r.passed = Append(s.passed, v) /\ r.gone = s.gone /\ r.received = s.received
  <2>1. r = Direct(s, v)
    BY <1>1, GetCases
  <2>2. s \in States /\ v \in Values
    BY <1>2, <1>4
  <2> QED
    BY <2>1, <2>2, DirectFields
<1>6. /\ r.queue.items = q.items /\ r.queue.offers = Tail(q.offers)
      /\ r.queue.takers = q.takers
      /\ r.queue.closed = q.closed /\ r.queue.offered = q.offered /\ r.queue.taken = q.taken + 1
      /\ r.queue.accepted = q.accepted + 1 /\ r.queue.slid = q.slid
      /\ r.queue.discarded = q.discarded /\ r.queue.cancelledOffers = q.cancelledOffers
      /\ r.queue.dropped = q.dropped
  BY <1>2, <1>5 DEF QueueStates
<1>7. /\ Older(Out(s), Waiting(s)) /\ Older(s.gone, Waiting(s)) /\ Rising(s.passed)
  BY <1>2, <1>3 DEF LineOK, Older
<1>8. Out(r) = Out(s) \cup {v} /\ Rising(r.passed) /\ Len(r.passed) = Len(s.passed) + 1 /\ v \notin Out(s)
  <2>1. Older(Out(s), {v})
    BY <1>4, <1>7 DEF Older
  <2>2. v \notin Out(s)
    BY <1>4, SentBefore
  <2> QED
    BY <1>2, <1>4, <1>5, <1>7, <2>1, <2>2, PlaceAppend DEF Out
<1>9. /\ Buffered(r) = {} /\ Waiting(r) = Waiting(s) \ {v} /\ Rising(ValuesOf(r.queue.offers))
      /\ Len(r.queue.offers) = Len(q.offers) - 1
  BY <1>3, <1>4, <1>6 DEF Waiting, Buffered
<1>10. RoomOK(r)
  BY <1>2, <1>3, <1>6 DEF RoomOK, Full
<1>11. LineOK(r)
  <2>1. /\ Older(Out(r), Buffered(r)) /\ Older(Buffered(r), Waiting(r))
        /\ Older(r.gone, Buffered(r) \cup Waiting(r))
    BY <1>5, <1>7, <1>9 DEF Older
  <2>2. Older(Out(r), Waiting(r))
    BY <1>4, <1>7, <1>8, <1>9 DEF Older
  <2>3. Rising(r.queue.items)
    BY <1>2, <1>6 DEF LineOK
  <2> QED
    BY <1>8, <1>9, <2>1, <2>2, <2>3 DEF LineOK
<1>12. ToldOK(r, next)
  <2>1. s.gone \cap Out(s) = {} /\ v \notin s.gone
    BY <1>2, <1>4, SentBefore DEF ToldOK
  <2>2. r.gone \cap (Out(r) \cup Buffered(r)) = {}
    BY <1>5, <1>8, <1>9, <2>1
  <2>3. Out(r) \cup Buffered(r) \cup r.gone = Out(s) \cup Buffered(s) \cup s.gone \cup {v}
    BY <1>3, <1>5, <1>8, <1>9
  <2> QED
    BY <1>4, <1>5, <1>9, <2>2, <2>3, ToldMoved
<1>13. SumsOK(r, next)
  <2>1. s.verdict[v] # "accepted"
    BY <1>2, <1>4 DEF ToldOK
  <2>2. PICK a, d, c, l, n, i, x, y \in Nat : Numbers(s, next, a, d, c, l, n, i, x, y)
    BY <1>2, SumsNumbers, Zenon
  <2>3. Cardinality(Accepted(r)) = a + 1
    <3>1. "accepted" \in Verdicts
      BY DEF Verdicts
    <3>2. Cardinality(Accepted(r)) = Cardinality(Accepted(s)) + 1
      <4>1. s \in States /\ v \in Values /\ r.verdict = [s.verdict EXCEPT ![v] = "accepted"]
        BY <1>2, <1>4, <1>5
      <4> QED
        BY <2>1, <3>1, <4>1, VerdictCount
    <3> QED
      BY <2>2, <3>2 DEF Numbers
  <2>4. next = (a + 1) + d + c + (l - 1) /\ a + 1 = (n + 1) + i + x + y /\ l > 0
    <3>1. next = a + d + c + l /\ a = n + i + x + y /\ Len(q.offers) = l
      BY <2>2 DEF Numbers
    <3>2. l > 0
      BY <1>4, <3>1
    <3> HIDE DEF q
    <3> QED
      BY <3>1, <3>2
  <2>5. Numbers(r, next, a + 1, d, c, l - 1, n + 1, i, x, y)
    BY <1>5, <1>6, <1>8, <1>9, <2>2, <2>3, <2>4 DEF Numbers
  <2>6. a + 1 \in Nat /\ n + 1 \in Nat /\ l - 1 \in Nat
    <3>1. l > 0
      BY <2>4
    <3> QED
      BY <3>1
  <2> QED
    BY <2>5, <2>6, NumbersSum, Zenon
<1>14. Len(r.queue.items) + Len(r.queue.offers) = Len(q.items) + Len(q.offers) - 1
  <2>1. Len(q.offers) \in Nat /\ Len(q.items) = 0
    BY <1>2
  <2> QED
    BY <1>6, <1>9, <2>1
<1>15. TakenFrom(s, r, v)
  BY <1>4, <1>5, <1>6, <1>8, <1>14 DEF TakenFrom
<1> QED
  BY <1>1, <1>5, <1>10, <1>11, <1>12, <1>13, <1>15 DEF QueueOK

\* One value of a take: what was kept is kept, and the value handed out is new.
LEMMA GetKeeps ==
  ASSUME NEW s, NEW next \in Nat, QueueOK(s, next), setting \in Settings,
         s.queue.items # <<>> \/ s.queue.offers # <<>>
  PROVE  QueueOK(Get(s), next) /\ \E w \in Values : TakenFrom(s, Get(s), w)
<1>1. \A w : TakenFrom(s, Get(s), w) => w \in Values
  BY DEF TakenFrom
<1> QED
  BY <1>1, ItemTaken, ItemTakenOfferAdmitted, OfferTaken

-----------------------------------------------------------------------------
(* Who got what.                                                           *)

LEMMA SameLine ==
  ASSUME NEW s, NEW next \in Nat, QueueOK(s, next), NEW r \in States, r.queue = s.queue,
         r.verdict = s.verdict, r.passed = s.passed, r.gone = s.gone
  PROVE  QueueOK(r, next)
<1>1. RoomOK(s) /\ LineOK(s) /\ ToldOK(s, next) /\ SumsOK(s, next)
  BY QueueOKParts
<1>2. RoomOK(r)
  BY <1>1 DEF RoomOK
<1>3. LineOK(r)
  BY <1>1 DEF LineOK, Out, Buffered, Waiting
<1>4. ToldOK(r, next)
  BY <1>1 DEF ToldOK, Out, Buffered, Waiting
<1>5. SumsOK(r, next)
  BY <1>1 DEF SumsOK, Accepted
<1> QED
  BY <1>2, <1>3, <1>4, <1>5 DEF QueueOK

\* An answer without a value comes or goes.
LEMMA HandedAnswer ==
  ASSUME NEW s \in States, NEW l, HandedOK(s, l), NEW c \in Consumers,
         s.inbox[c] \in {None, Closed}, NEW x \in {None, Closed}, c \notin ToSet(s.queue.takers),
         NEW r, r.inbox = [s.inbox EXCEPT ![c] = x], r.passed = s.passed,
         r.received = s.received, r.queue.takers = s.queue.takers,
         ToSet(s.queue.takers) \subseteq Consumers
  PROVE  HandedOK(r, l)
<1> DEFINE D == {s.inbox[d] : d \in Consumers} \cap Values
           E == {r.inbox[d] : d \in Consumers} \cap Values
<1>1. s.inbox \in [Consumers -> Answers] /\ None \notin Values /\ Closed \notin Values
  BY StateFields, QueueAssumption DEF Values
<1>2. \A d \in Consumers : r.inbox[d] = IF d = c THEN x ELSE s.inbox[d]
  BY <1>1
<1>3. D = E
  BY <1>1, <1>2
<1>4. /\ IsInjective(s.queue.takers) /\ \A d \in ToSet(s.queue.takers) : s.inbox[d] = None
      /\ \A d, e \in Consumers : s.inbox[d] = s.inbox[e] /\ s.inbox[d] \in Values => d = e
      /\ Out(s) = s.received \cup D \cup l
      /\ s.received \cap (D \cup l) = {} /\ D \cap l = {}
  BY DEF HandedOK
<1>5. \A d, e \in Consumers : r.inbox[d] = r.inbox[e] /\ r.inbox[d] \in Values => d = e
  BY <1>1, <1>2, <1>4
<1>6. \A d \in ToSet(r.queue.takers) : r.inbox[d] = None
  BY <1>1, <1>2, <1>4
<1>7. Out(r) = Out(s)
  BY DEF Out
<1>8. /\ Out(r) = r.received \cup E \cup l
      /\ r.received \cap (E \cup l) = {} /\ E \cap l = {}
  BY <1>3, <1>4, <1>7
<1> QED
  BY <1>4, <1>5, <1>6, <1>8 DEF HandedOK

\* A fiber sees its value, or is interrupted before.
LEMMA HandedSeen ==
  ASSUME NEW s \in States, NEW l, HandedOK(s, l), NEW c \in Consumers,
         NEW v \in Values, s.inbox[c] = v,
         NEW r, r.inbox = [s.inbox EXCEPT ![c] = None], r.passed = s.passed,
         r.queue.takers = s.queue.takers, ToSet(s.queue.takers) \subseteq Consumers,
         NEW m, \/ r.received = s.received \cup {v} /\ m = l
                \/ r.received = s.received /\ m = l \cup {v}
  PROVE  HandedOK(r, m)
<1> DEFINE D == {s.inbox[d] : d \in Consumers} \cap Values
           E == {r.inbox[d] : d \in Consumers} \cap Values
<1>1. s.inbox \in [Consumers -> Answers] /\ None \notin Values
  BY StateFields, QueueAssumption DEF Values
<1>2. \A d \in Consumers : r.inbox[d] = IF d = c THEN None ELSE s.inbox[d]
  BY <1>1
<1>3. /\ IsInjective(s.queue.takers) /\ \A d \in ToSet(s.queue.takers) : s.inbox[d] = None
      /\ \A d, e \in Consumers : s.inbox[d] = s.inbox[e] /\ s.inbox[d] \in Values => d = e
      /\ Out(s) = s.received \cup D \cup l
      /\ s.received \cap (D \cup l) = {} /\ D \cap l = {}
  BY DEF HandedOK
<1>4. v \in D /\ E = D \ {v}
  <2>1. v \in D
    OBVIOUS
  <2>2. \A d \in Consumers : d # c => s.inbox[d] # v
    BY <1>3
  <2> QED
    BY <1>1, <1>2, <2>1, <2>2
<1>5. \A d, e \in Consumers : r.inbox[d] = r.inbox[e] /\ r.inbox[d] \in Values => d = e
  BY <1>1, <1>2, <1>3
<1>6. \A d \in ToSet(r.queue.takers) : r.inbox[d] = None
  BY <1>1, <1>2, <1>3
<1>7. Out(r) = Out(s)
  BY DEF Out
<1> HIDE DEF D, E
<1>8. /\ Out(r) = r.received \cup E \cup m
      /\ r.received \cap (E \cup m) = {} /\ E \cap m = {}
  BY <1>3, <1>4, <1>7
<1> QED
  BY <1>3, <1>5, <1>6, <1>8 DEF HandedOK, E

\* The line of takers changes, among those that were told nothing.
LEMMA HandedLine ==
  ASSUME NEW s \in States, NEW l, HandedOK(s, l),
         NEW r, r.inbox = s.inbox, r.passed = s.passed, r.received = s.received,
         IsInjective(r.queue.takers), \A d \in ToSet(r.queue.takers) : s.inbox[d] = None
  PROVE  HandedOK(r, l)
BY DEF HandedOK, Out

-----------------------------------------------------------------------------
(* The steps of the queue.                                                 *)

LEMMA BecomesState ==
  ASSUME NEW r \in States, Becomes(r)
  PROVE  State' = r
<1>1. r = [queue |-> r.queue, verdict |-> r.verdict, inbox |-> r.inbox, passed |-> r.passed,
           gone |-> r.gone, received |-> r.received]
  BY DEF States
<1> QED
  BY <1>1 DEF Becomes, State

\* From the state a handler works on to the variables.
LEMMA StepKeeps ==
  ASSUME NEW r, Becomes(r), setting' = setting, setting \in Settings, lost' \subseteq Values,
         QueueOK(r, r.queue.offered), HandedOK(r, lost')
  PROVE  QueueInv'
<1>1. r \in States
  BY DEF QueueOK
<1>2. PICK t : t = State'
  OBVIOUS
<1>3. t = r /\ State' = r /\ queue' = r.queue
  BY <1>1, <1>2, BecomesState DEF Becomes
<1>4. RoomOK(State)'
  <2>1. RoomOK(r)
    BY DEF QueueOK
  <2> QED
    BY <1>3, <2>1 DEF RoomOK, Full, capacity, strategy
<1>5. LineOK(State)' /\ ToldOK(State, queue.offered)' /\ SumsOK(State, queue.offered)'
  BY <1>3 DEF QueueOK
<1>6. HandedOK(State, lost)'
  BY <1>3
<1>7. (State \in States)'
  BY <1>1, <1>3
<1> QED
  BY <1>4, <1>5, <1>6, <1>7 DEF QueueInv, QueueOK

LEMMA InvParts ==
  ASSUME QueueInv
  PROVE  /\ setting \in Settings /\ lost \subseteq Values /\ State \in States
         /\ QueueOK(State, queue.offered) /\ HandedOK(State, lost)
         /\ State.queue = queue /\ State.verdict = verdict /\ State.inbox = inbox
         /\ State.passed = passed /\ State.gone = gone /\ State.received = received
         /\ queue \in QueueStates /\ queue.offered \in Nat /\ queue.items \in Seq(Values)
         /\ queue.offers \in Seq(Offers) /\ queue.takers \in Seq(Consumers)
         /\ inbox \in [Consumers -> Answers] /\ ToSet(queue.takers) \subseteq Consumers
<1>1. /\ setting \in Settings /\ lost \subseteq Values /\ State \in States
      /\ QueueOK(State, queue.offered) /\ HandedOK(State, lost)
  BY DEF QueueInv, QueueOK
<1>2. /\ State.queue = queue /\ State.verdict = verdict /\ State.inbox = inbox
      /\ State.passed = passed /\ State.gone = gone /\ State.received = received
  BY DEF State
<1>3. queue \in QueueStates /\ inbox \in [Consumers -> Answers]
  BY <1>1, <1>2, StateFields
<1>4. /\ queue.offered \in Nat /\ queue.items \in Seq(Values)
      /\ queue.offers \in Seq(Offers) /\ queue.takers \in Seq(Consumers)
  BY <1>3, QueueFields
<1>5. ToSet(queue.takers) \subseteq Consumers
  BY <1>4 DEF ToSet
<1> QED
  BY <1>1, <1>2, <1>3, <1>4, <1>5

\* The offers are counted before their values are put.
LEMMA CountedKeeps ==
  ASSUME QueueInv, NEW n \in Nat
  PROVE  /\ QueueOK(Counted(n), queue.offered) /\ HandedOK(Counted(n), lost)
         /\ Counted(n).queue.offered = queue.offered + n
<1> DEFINE s == State
<1>1. PICK m, r : m \in Nat /\ m = queue.offered + n /\ r = Counted(n)
  <2>1. queue.offered + n \in Nat
    BY InvParts
  <2> QED
    BY <2>1, Zenon
<1>2. /\ s \in States /\ s.queue = queue /\ queue \in QueueStates
      /\ QueueOK(s, queue.offered) /\ HandedOK(s, lost) /\ queue.offered \in Nat
  BY InvParts
<1>3. [s.queue EXCEPT !.offered = m] \in QueueStates
  BY <1>1, <1>2 DEF QueueStates
<1> HIDE DEF s
<1>4. r = [s EXCEPT !.queue.offered = m]
  BY <1>1, <1>2 DEF Counted, s, States
<1>5. /\ r \in States /\ r.queue = [s.queue EXCEPT !.offered = m] /\ r.verdict = s.verdict
      /\ r.inbox = s.inbox /\ r.passed = s.passed /\ r.gone = s.gone /\ r.received = s.received
  BY <1>2, <1>3, <1>4 DEF States
<1>6. /\ r.queue.items = s.queue.items /\ r.queue.offers = s.queue.offers
      /\ r.queue.takers = s.queue.takers
      /\ r.queue.closed = s.queue.closed /\ r.queue.offered = m
      /\ r.queue.taken = s.queue.taken
      /\ r.queue.accepted = s.queue.accepted /\ r.queue.slid = s.queue.slid
      /\ r.queue.discarded = s.queue.discarded
      /\ r.queue.cancelledOffers = s.queue.cancelledOffers /\ r.queue.dropped = s.queue.dropped
  BY <1>2, <1>5 DEF QueueStates
<1>7. /\ RoomOK(s) /\ LineOK(s) /\ ToldOK(s, queue.offered) /\ SumsOK(s, queue.offered)
  BY <1>2, QueueOKParts
<1>8. Out(r) = Out(s) /\ Buffered(r) = Buffered(s) /\ Waiting(r) = Waiting(s)
  BY <1>5, <1>6 DEF Out, Buffered, Waiting
<1>9. RoomOK(r)
  BY <1>6, <1>7 DEF RoomOK, Full
<1>10. LineOK(r)
  BY <1>5, <1>6, <1>7, <1>8 DEF LineOK
<1>11. ToldOK(r, queue.offered)
  BY <1>5, <1>7, <1>8 DEF ToldOK
<1>12. SumsOK(r, queue.offered)
  BY <1>5, <1>6, <1>7 DEF SumsOK, Accepted
<1>13. HandedOK(r, lost)
  BY <1>2, <1>5, <1>6, HandedSame
<1> QED
  BY <1>1, <1>5, <1>6, <1>9, <1>10, <1>11, <1>12, <1>13 DEF QueueOK

\* offer()
LEMMA OfferOneStep ==
  ASSUME QueueInv, NEW p \in Producers, OfferOne(p)
  PROVE  QueueInv'
<1>1. PICK v, s : v = queue.offered + 1 /\ s = Counted(1)
  OBVIOUS
<1>2. PICK r : r = Put(s, p, v, TRUE)
  OBVIOUS
<1>3. Becomes(r) /\ setting' = setting /\ lost' = lost /\ queue.offered < MaxOffers
  BY <1>1, <1>2 DEF OfferOne
<1>4. v \in Values /\ queue.offered \in Nat /\ v = queue.offered + 1
  BY <1>1, <1>3, InvParts, QueueAssumption DEF Values
<1>5. QueueOK(s, queue.offered) /\ HandedOK(s, lost) /\ s.queue.offered = v
  BY <1>1, CountedKeeps
<1>6. QueueOK(r, v) /\ HandedOK(r, lost) /\ r.queue.offered = v
  <2>1. setting \in Settings /\ TRUE \in BOOLEAN
    BY InvParts
  <2> QED
    BY <1>2, <1>4, <1>5, <2>1, PutKeeps
<1> QED
  BY <1>3, <1>6, InvParts, StepKeeps

\* The values of a batch, put one after another.
Puts(f, s, p, b, n) ==
  [i \in 0..n |-> IF i = 0 THEN s ELSE Put(f[i - 1], p, b + i, FALSE)]

LEMMA PutsExist ==
  ASSUME NEW s, NEW p, NEW b, NEW n \in Nat
  PROVE  \E f : f = Puts(f, s, p, b, n)
<1> DEFINE bad == {k \in Nat : ~\E f : f = Puts(f, s, p, b, k)}
<1> SUFFICES ASSUME bad # {} PROVE FALSE
  OBVIOUS
<1>1. PICK k \in bad : \A j \in bad : k <= j
  <2>1. bad \subseteq Nat
    OBVIOUS
  <2> HIDE DEF bad
  <2> QED
    BY <2>1, LeastNumber
<1>2. k \in Nat /\ ~\E f : f = Puts(f, s, p, b, k)
  BY <1>1
<1>3. CASE k = 0
  <2> DEFINE g == [i \in 0..0 |-> s]
  <2>1. g = Puts(g, s, p, b, 0)
    BY DEF Puts
  <2> QED
    BY <1>2, <1>3, <2>1
<1>4. CASE k # 0
  <2>1. PICK m \in Nat : k = m + 1
    <3>1. k - 1 \in Nat /\ k = (k - 1) + 1
      BY <1>2, <1>4
    <3> QED
      BY <3>1
  <2>2. m \notin bad
    BY <1>1, <1>2, <2>1
  <2>3. PICK f : f = Puts(f, s, p, b, m)
    BY <2>2
  <2>4. \A i \in 0..m : f[i] = IF i = 0 THEN s ELSE Put(f[i - 1], p, b + i, FALSE)
    BY <2>3, Zenon DEF Puts
  <2> DEFINE g == [i \in 0..(m + 1) |-> IF i <= m THEN f[i] ELSE Put(f[m], p, b + i, FALSE)]
  <2>5. \A i \in 0..(m + 1) : g[i] = IF i <= m THEN f[i] ELSE Put(f[m], p, b + i, FALSE)
    OBVIOUS
  <2>6. \A i \in 0..m : g[i] = f[i]
    BY <2>5
  <2>7. ASSUME NEW i \in 0..(m + 1)
        PROVE  g[i] = IF i = 0 THEN s ELSE Put(g[i - 1], p, b + i, FALSE)
    <3>1. CASE i = m + 1
      <4>1. ~(i <= m) /\ i # 0 /\ i - 1 = m /\ m \in 0..m
        BY <3>1
      <4>2. g[i] = Put(f[m], p, b + i, FALSE) /\ g[i - 1] = f[m]
        BY <2>5, <2>6, <4>1
      <4> QED
        BY <4>1, <4>2
    <3>2. CASE i = 0
      <4>1. 0 \in 0..m
        OBVIOUS
      <4> QED
        BY <2>4, <2>6, <3>2, <4>1
    <3>3. CASE i # 0 /\ i # m + 1
      <4>1. i \in 0..m /\ i - 1 \in 0..m
        BY <3>3
      <4>2. g[i] = f[i] /\ g[i - 1] = f[i - 1]
        BY <2>6, <4>1
      <4> QED
        BY <2>4, <3>3, <4>1, <4>2
    <3> QED
      BY <3>1, <3>2, <3>3
  <2>8. g = [i \in 0..(m + 1) |-> g[i]]
    OBVIOUS
  <2> HIDE DEF g
  <2>9. g = Puts(g, s, p, b, m + 1)
    BY <2>7, <2>8 DEF Puts
  <2> QED
    BY <1>2, <2>1, <2>9
<1> QED
  BY <1>3, <1>4

\* The values of a batch are put one after the other.
LEMMA PutsKeep ==
  ASSUME NEW s, NEW b \in Nat, NEW p \in Producers, NEW n \in Nat, b + n <= MaxOffers,
         QueueOK(s, b), HandedOK(s, lost), setting \in Settings,
         NEW f, f = Puts(f, s, p, b, n)
  PROVE  QueueOK(f[n], b + n) /\ HandedOK(f[n], lost) /\ f[n].queue.offered = s.queue.offered
<1> DEFINE Good(k) == /\ QueueOK(f[k], b + k) /\ HandedOK(f[k], lost)
                      /\ f[k].queue.offered = s.queue.offered
           bad == {k \in 0..n : ~Good(k)}
<1>1. \A i \in 0..n : f[i] = IF i = 0 THEN s ELSE Put(f[i - 1], p, b + i, FALSE)
  BY Zenon DEF Puts
<1> SUFFICES ASSUME bad # {} PROVE FALSE
  OBVIOUS
<1>2. PICK k \in bad : \A j \in bad : k <= j
  <2>1. bad \subseteq Nat
    OBVIOUS
  <2> HIDE DEF bad
  <2> QED
    BY <2>1, LeastNumber
<1>3. k \in 0..n /\ k \in Nat /\ ~Good(k)
  BY <1>2
<1>4. k # 0
  <2>1. f[0] = s /\ b + 0 = b
    <3>1. 0 \in 0..n /\ b + 0 = b
      OBVIOUS
    <3> QED
      BY <1>1, <3>1, Zenon
  <2>2. Good(0)
    BY <2>1
  <2> QED
    BY <1>3, <2>2
<1>5. PICK m \in Nat : k = m + 1 /\ m \in 0..n
  <2>1. k - 1 \in Nat /\ k = (k - 1) + 1 /\ k - 1 \in 0..n
    BY <1>3, <1>4
  <2> QED
    BY <2>1
<1>6. Good(m)
  <2>1. m \notin bad
    BY <1>2, <1>5
  <2> QED
    BY <1>5, <2>1
<1>7. PICK t, next, v : t = f[m] /\ next \in Nat /\ next = b + m /\ v = b + k
  <2>1. b + m \in Nat
    OBVIOUS
  <2> QED
    BY <2>1, Zenon
<1>8. v \in Values /\ v = next + 1
  BY <1>3, <1>5, <1>7, QueueAssumption DEF Values
<1>9. f[k] = Put(t, p, v, FALSE)
  <2>1. k - 1 = m
    BY <1>5
  <2> QED
    BY <1>1, <1>3, <1>4, <1>7, <2>1
<1>10. QueueOK(t, next) /\ HandedOK(t, lost) /\ t.queue.offered = s.queue.offered
  BY <1>6, <1>7, Zenon
<1>11. QueueOK(f[k], v) /\ HandedOK(f[k], lost) /\ f[k].queue.offered = t.queue.offered
  <2>1. FALSE \in BOOLEAN /\ next \in Nat
    BY <1>7
  <2>2. LET r == Put(t, p, v, FALSE)
        IN QueueOK(r, v) /\ HandedOK(r, lost) /\ r.queue.offered = t.queue.offered
    BY <1>8, <1>10, <2>1, PutKeeps
  <2> QED
    BY <1>9, <2>2
<1>12. Good(k)
  BY <1>7, <1>10, <1>11, Zenon
<1> QED
  BY <1>3, <1>12

\* offerBatch()
LEMMA OfferBatchStep ==
  ASSUME QueueInv, NEW p \in Producers, OfferBatch(p)
  PROVE  QueueInv'
<1>1. PICK s, b, n : s = Counted(BatchSize) /\ b = queue.offered /\ n = BatchSize
  OBVIOUS
<1>2. b \in Nat /\ n \in Nat /\ b + n <= MaxOffers
  BY <1>1, InvParts, QueueAssumption DEF OfferBatch
<1>3. PICK f : f = Puts(f, s, p, b, n) /\ Becomes(f[n])
  <2>1. Becomes((CHOOSE f : f = Puts(f, s, p, b, n))[n])
    BY <1>1, Zenon DEF OfferBatch, Puts
  <2>2. \E f : f = Puts(f, s, p, b, n)
    BY <1>2, PutsExist
  <2> QED
    BY <2>1, <2>2, Zenon
<1>4. setting' = setting /\ lost' = lost
  BY DEF OfferBatch
<1>5. QueueOK(s, b) /\ HandedOK(s, lost) /\ s.queue.offered = b + n /\ setting \in Settings
  BY <1>1, <1>2, CountedKeeps, InvParts
<1>6. PICK r : r = f[n]
  OBVIOUS
<1>7. QueueOK(r, b + n) /\ HandedOK(r, lost) /\ r.queue.offered = b + n
  BY <1>2, <1>3, <1>5, <1>6, PutsKeep
<1> QED
  BY <1>3, <1>4, <1>5, <1>6, <1>7, InvParts, StepKeeps

\* The values of a takeBatch, got one after another.
Gets(f, s, n) == [i \in 0..n |-> IF i = 0 THEN s ELSE Get(f[i - 1])]

LEMMA GetsExist ==
  ASSUME NEW s, NEW n \in Nat
  PROVE  \E f : f = Gets(f, s, n)
<1> DEFINE bad == {k \in Nat : ~\E f : f = Gets(f, s, k)}
<1> SUFFICES ASSUME bad # {} PROVE FALSE
  OBVIOUS
<1>1. PICK k \in bad : \A j \in bad : k <= j
  <2>1. bad \subseteq Nat
    OBVIOUS
  <2> HIDE DEF bad
  <2> QED
    BY <2>1, LeastNumber
<1>2. k \in Nat /\ ~\E f : f = Gets(f, s, k)
  BY <1>1
<1>3. CASE k = 0
  <2> DEFINE g == [i \in 0..0 |-> s]
  <2>1. g = Gets(g, s, 0)
    BY DEF Gets
  <2> QED
    BY <1>2, <1>3, <2>1
<1>4. CASE k # 0
  <2>1. PICK m \in Nat : k = m + 1
    <3>1. k - 1 \in Nat /\ k = (k - 1) + 1
      BY <1>2, <1>4
    <3> QED
      BY <3>1
  <2>2. m \notin bad
    BY <1>1, <1>2, <2>1
  <2>3. PICK f : f = Gets(f, s, m)
    BY <2>2
  <2>4. \A i \in 0..m : f[i] = IF i = 0 THEN s ELSE Get(f[i - 1])
    BY <2>3, Zenon DEF Gets
  <2> DEFINE g == [i \in 0..(m + 1) |-> IF i <= m THEN f[i] ELSE Get(f[m])]
  <2>5. \A i \in 0..(m + 1) : g[i] = IF i <= m THEN f[i] ELSE Get(f[m])
    OBVIOUS
  <2>6. \A i \in 0..m : g[i] = f[i]
    BY <2>5
  <2>7. ASSUME NEW i \in 0..(m + 1)
        PROVE  g[i] = IF i = 0 THEN s ELSE Get(g[i - 1])
    <3>1. CASE i = m + 1
      <4>1. ~(i <= m) /\ i # 0 /\ i - 1 = m /\ m \in 0..m
        BY <3>1
      <4>2. g[i] = Get(f[m]) /\ g[i - 1] = f[m]
        BY <2>5, <2>6, <4>1
      <4> QED
        BY <4>1, <4>2
    <3>2. CASE i = 0
      <4>1. 0 \in 0..m
        OBVIOUS
      <4> QED
        BY <2>4, <2>6, <3>2, <4>1
    <3>3. CASE i # 0 /\ i # m + 1
      <4>1. i \in 0..m /\ i - 1 \in 0..m
        BY <3>3
      <4>2. g[i] = f[i] /\ g[i - 1] = f[i - 1]
        BY <2>6, <4>1
      <4> QED
        BY <2>4, <3>3, <4>1, <4>2
    <3> QED
      BY <3>1, <3>2, <3>3
  <2>8. g = [i \in 0..(m + 1) |-> g[i]]
    OBVIOUS
  <2> HIDE DEF g
  <2>9. g = Gets(g, s, m + 1)
    BY <2>7, <2>8 DEF Gets
  <2> QED
    BY <1>2, <2>1, <2>9
<1> QED
  BY <1>3, <1>4

Amount(s) == Len(s.queue.items) + Len(s.queue.offers)
GotFrom(s, r, k) ==
  /\ r.inbox = s.inbox /\ r.received = s.received /\ r.queue.takers = s.queue.takers
  /\ r.queue.offered = s.queue.offered /\ Out(s) \subseteq Out(r) /\ Amount(r) = Amount(s) - k

LEMMA GotOneMore ==
  ASSUME NEW s, NEW r, NEW m \in Nat, NEW next \in Nat, QueueOK(r, next), setting \in Settings,
         GotFrom(s, r, m), m < Amount(s), Amount(s) \in Nat
  PROVE  QueueOK(Get(r), next) /\ GotFrom(s, Get(r), m + 1)
<1>1. PICK g : g = Get(r)
  OBVIOUS
<1>2. PICK x \in Nat, y \in Nat : x = Len(r.queue.items) /\ y = Len(r.queue.offers)
  <2>1. r.queue.items \in Seq(Values) /\ r.queue.offers \in Seq(Offers)
    BY QueueOKParts
  <2> QED
    BY <2>1
<1>3. Amount(r) = x + y /\ x + y = Amount(s) - m
  BY <1>2 DEF Amount, GotFrom
<1>4. r.queue.items # <<>> \/ r.queue.offers # <<>>
  <2>1. x + y > 0
    BY <1>3
  <2>2. Len(<<>>) = 0
    OBVIOUS
  <2>3. ASSUME r.queue.items = <<>>, r.queue.offers = <<>> PROVE FALSE
    <3>1. x = 0 /\ y = 0
      BY <1>2, <2>2, <2>3
    <3> QED
      BY <2>1, <3>1
  <2> QED
    BY <2>3
<1>5. QueueOK(g, next) /\ \E w \in Values : TakenFrom(r, g, w)
  BY <1>1, <1>4, GetKeeps
<1>6. PICK w : TakenFrom(r, g, w)
  BY <1>5
<1>7. Amount(g) = Amount(s) - (m + 1)
  <2>1. Amount(g) = x + y - 1
    BY <1>2, <1>6 DEF TakenFrom, Amount
  <2> QED
    BY <1>3, <2>1
<1>8. /\ g.inbox = s.inbox /\ g.received = s.received /\ g.queue.takers = s.queue.takers
      /\ g.queue.offered = s.queue.offered /\ Out(s) \subseteq Out(g)
  BY <1>6 DEF TakenFrom, GotFrom
<1>9. GotFrom(s, g, m + 1)
  BY <1>7, <1>8 DEF GotFrom
<1> QED
  BY <1>1, <1>5, <1>9

\* The values of a batch are taken one after the other.
LEMMA GetsKeep ==
  ASSUME NEW s, NEW next \in Nat, NEW n \in Nat, QueueOK(s, next), setting \in Settings,
         Amount(s) \in Nat, n <= Amount(s), NEW f, f = Gets(f, s, n)
  PROVE  QueueOK(f[n], next) /\ GotFrom(s, f[n], n)
<1> DEFINE Good(k) == QueueOK(f[k], next) /\ GotFrom(s, f[k], k)
           bad == {k \in 0..n : ~Good(k)}
<1>1. \A i \in 0..n : f[i] = IF i = 0 THEN s ELSE Get(f[i - 1])
  BY Zenon DEF Gets
<1> SUFFICES ASSUME bad # {} PROVE FALSE
  OBVIOUS
<1>2. PICK k \in bad : \A j \in bad : k <= j
  <2>1. bad \subseteq Nat
    OBVIOUS
  <2> HIDE DEF bad
  <2> QED
    BY <2>1, LeastNumber
<1>3. k \in 0..n /\ k \in Nat /\ ~Good(k)
  BY <1>2
<1>4. k # 0
  <2>1. f[0] = s
    <3>1. 0 \in 0..n
      OBVIOUS
    <3> QED
      BY <1>1, <3>1, Zenon
  <2>2. Amount(s) = Amount(s) - 0
    OBVIOUS
  <2>3. Good(0)
    BY <2>1, <2>2 DEF GotFrom
  <2> QED
    BY <1>3, <2>3
<1>5. PICK m \in Nat : k = m + 1 /\ m \in 0..n
  <2>1. k - 1 \in Nat /\ k = (k - 1) + 1 /\ k - 1 \in 0..n
    BY <1>3, <1>4
  <2> QED
    BY <2>1
<1>6. Good(m)
  <2>1. m \notin bad
    BY <1>2, <1>5
  <2> QED
    BY <1>5, <2>1
<1>7. PICK r : r = f[m]
  OBVIOUS
<1>8. f[k] = Get(r)
  <2>1. k - 1 = m
    BY <1>5
  <2> QED
    BY <1>1, <1>3, <1>4, <1>7, <2>1
<1>9. QueueOK(r, next) /\ GotFrom(s, r, m) /\ m < Amount(s)
  <2>1. m < Amount(s)
    BY <1>3, <1>5
  <2> QED
    BY <1>6, <1>7, <2>1, Zenon
<1>10. QueueOK(Get(r), next) /\ GotFrom(s, Get(r), m + 1)
  BY <1>9, GotOneMore
<1>11. Good(k)
  BY <1>5, <1>8, <1>10
<1> QED
  BY <1>3, <1>11

LEMMA AvailableNumber ==
  ASSUME QueueInv
  PROVE  /\ Available \in Nat /\ Available = Amount(State)
         /\ Available = 0 <=> queue.items = <<>> /\ queue.offers = <<>>
<1>1. queue.items \in Seq(Values) /\ queue.offers \in Seq(Offers) /\ State.queue = queue
  BY InvParts
<1>2. PICK x \in Nat, y \in Nat : x = Len(queue.items) /\ y = Len(queue.offers)
  BY <1>1
<1>3. Available = x + y /\ Amount(State) = x + y
  BY <1>1, <1>2 DEF Available, Amount
<1>4. x = 0 <=> queue.items = <<>>
  BY <1>1, <1>2, EmptySeq
<1>5. y = 0 <=> queue.offers = <<>>
  BY <1>1, <1>2, EmptySeq
<1>6. x + y = 0 <=> x = 0 /\ y = 0
  OBVIOUS
<1> QED
  BY <1>3, <1>4, <1>5, <1>6

\* takeBatch()
LEMMA TakeBatchStep ==
  ASSUME QueueInv, NEW c \in Consumers, TakeBatch(c)
  PROVE  QueueInv'
<1> DEFINE size == IF BatchSize < Available THEN BatchSize ELSE Available
           fresh(t) == ToSet(t.passed) \ ToSet(passed)
           left(t) == [t EXCEPT !.received = @ \cup fresh(t)]
<1>1. PICK s, next : s = State /\ next = queue.offered
  OBVIOUS
<1>2. /\ s \in States /\ QueueOK(s, next) /\ HandedOK(s, lost) /\ next \in Nat
      /\ setting \in Settings /\ lost \subseteq Values /\ s.passed = passed /\ s.queue = queue
      /\ s.queue.offered = next
  BY <1>1, InvParts
<1>3. Amount(s) \in Nat /\ Available = Amount(s)
  BY <1>1, AvailableNumber
<1>4. PICK n \in Nat : n = size /\ n <= Amount(s)
  BY <1>3, QueueAssumption
<1>5. PICK f : f = Gets(f, s, n) /\ Becomes(left(f[n]))
  <2>1. Becomes(left((CHOOSE f : f = Gets(f, State, size))[size]))
    BY Zenon DEF TakeBatch, Gets
  <2>2. \E f : f = Gets(f, s, n)
    BY <1>4, GetsExist
  <2> HIDE DEF size, left
  <2> QED
    BY <1>1, <1>4, <2>1, <2>2, Zenon
<1>6. setting' = setting /\ lost' = lost
  BY DEF TakeBatch
<1>7. PICK t, r : t = f[n] /\ r = left(t)
  OBVIOUS
<1>8. QueueOK(t, next) /\ GotFrom(s, t, n)
  BY <1>2, <1>3, <1>4, <1>5, <1>7, GetsKeep
<1>9. t \in States /\ t.received \subseteq Values /\ t.passed \in Seq(Values)
  <2>1. t \in States
    BY <1>2, <1>8, QueueOKParts
  <2> QED
    BY <2>1, StateFields
<1>10. PICK new : new = Out(t) \ Out(s) /\ new \subseteq Values
  <2>1. ToSet(t.passed) \subseteq Values
    BY <1>9, ValuesSeq
  <2> QED
    BY <2>1 DEF Out
<1>11. r = [t EXCEPT !.received = t.received \cup new]
  BY <1>2, <1>7, <1>9, <1>10 DEF Out, States
<1>12. /\ r \in States /\ r.queue = t.queue /\ r.verdict = t.verdict /\ r.passed = t.passed
       /\ r.gone = t.gone /\ r.inbox = t.inbox /\ r.received = t.received \cup new
  <2>1. t.received \cup new \subseteq Values
    BY <1>9, <1>10
  <2> QED
    BY <1>9, <1>11, <2>1 DEF States
<1>13. QueueOK(r, next)
  BY <1>2, <1>8, <1>12, SameLine
<1>14. HandedOK(r, lost)
  <2> DEFINE D == {s.inbox[d] : d \in Consumers} \cap Values
             E == {r.inbox[d] : d \in Consumers} \cap Values
  <2>1. /\ r.inbox = s.inbox /\ r.queue.takers = s.queue.takers
        /\ r.received = s.received \cup new /\ Out(r) = Out(t) /\ Out(s) \subseteq Out(t)
    BY <1>8, <1>12 DEF GotFrom, Out
  <2>2. /\ IsInjective(s.queue.takers) /\ \A d \in ToSet(s.queue.takers) : s.inbox[d] = None
        /\ \A d, e \in Consumers : s.inbox[d] = s.inbox[e] /\ s.inbox[d] \in Values => d = e
        /\ Out(s) = s.received \cup D \cup lost
        /\ s.received \cap (D \cup lost) = {} /\ D \cap lost = {}
    BY <1>2 DEF HandedOK
  <2>3. D = E
    BY <2>1
  <2> HIDE DEF D, E
  <2>4. /\ Out(r) = r.received \cup E \cup lost
        /\ r.received \cap (E \cup lost) = {} /\ E \cap lost = {}
    BY <1>10, <2>1, <2>2, <2>3
  <2> QED
    BY <2>1, <2>2, <2>4 DEF HandedOK, E
<1>15. r.queue.offered = next
  BY <1>2, <1>8, <1>12 DEF GotFrom
<1> QED
  BY <1>2, <1>5, <1>6, <1>7, <1>13, <1>14, <1>15, StepKeeps

\* take(): a value, the news that the queue is closed, or a place in the line.
LEMMA TakeStep ==
  ASSUME QueueInv, NEW c \in Consumers, Take(c)
  PROVE  QueueInv'
<1> DEFINE s == State  next == queue.offered
<1>1. /\ s \in States /\ QueueOK(s, next) /\ HandedOK(s, lost) /\ next \in Nat
      /\ setting \in Settings /\ lost \subseteq Values /\ s.passed = passed /\ s.queue = queue
      /\ s.queue.offered = next /\ s.inbox = inbox /\ ToSet(queue.takers) \subseteq Consumers
      /\ queue \in QueueStates /\ queue.takers \in Seq(Consumers)
  BY InvParts
<1>2. /\ setting' = setting /\ lost' = lost /\ s.inbox[c] = None /\ c \notin ToSet(queue.takers)
  BY <1>1 DEF Take, MayTake
<1>3. Available = 0 => queue.items = <<>> /\ queue.offers = <<>>
  BY AvailableNumber
<1>4. Available > 0 => queue.items # <<>> \/ queue.offers # <<>>
  BY AvailableNumber
<1> HIDE DEF s, next
<1>5. CASE Available > 0 /\ Becomes(LET t == Get(State) IN Answered(t, c, Last(t.passed)))
  <2>1. PICK t : t = Get(s)
    OBVIOUS
  <2>2. QueueOK(t, next) /\ \E w \in Values : TakenFrom(s, t, w)
    BY <1>1, <1>4, <1>5, <2>1, GetKeeps
  <2>3. PICK w \in Values : TakenFrom(s, t, w)
    BY <2>2
  <2>4. /\ w \notin Out(s) /\ t.passed = Append(s.passed, w) /\ Out(t) = Out(s) \cup {w}
        /\ t.inbox = s.inbox /\ t.received = s.received /\ t.queue.takers = s.queue.takers
        /\ t.queue.offered = next
    BY <1>1, <2>3 DEF TakenFrom
  <2>5. Last(t.passed) = w
    <3>1. s.passed \in Seq(Values)
      BY <1>1, StateFields
    <3>2. Len(Append(s.passed, w)) = Len(s.passed) + 1 /\ Append(s.passed, w)[Len(s.passed) + 1] = w
      BY <3>1
    <3> QED
      BY <2>4, <3>2 DEF Last
  <2>6. PICK r : r = [t EXCEPT !.inbox[c] = w] /\ Becomes(r)
    BY <1>5, <2>1, <2>5 DEF Answered, s
  <2>7. t \in States /\ w \in Answers
    BY <1>1, <2>2, QueueOKParts DEF Answers
  <2>8. /\ r \in States /\ r.queue = t.queue /\ r.verdict = t.verdict /\ r.passed = t.passed
        /\ r.gone = t.gone /\ r.received = t.received /\ r.inbox = [t.inbox EXCEPT ![c] = w]
    BY <2>6, <2>7 DEF States
  <2>9. QueueOK(r, next)
    BY <1>1, <2>2, <2>8, SameLine
  <2>10. HandedOK(r, lost)
    <3>1. r.inbox = [s.inbox EXCEPT ![c] = w] /\ r.received = s.received
          /\ Out(r) = Out(s) \cup {w} /\ r.queue.takers = s.queue.takers
      BY <2>4, <2>8 DEF Out
    <3>2. IsInjective(r.queue.takers)
      BY <1>1, <3>1 DEF HandedOK
    <3>3. ToSet(r.queue.takers) \subseteq ToSet(s.queue.takers) \ {c}
          /\ ToSet(s.queue.takers) \subseteq Consumers
      BY <1>1, <1>2, <3>1
    <3>4. s \in States /\ HandedOK(s, lost) /\ s.inbox[c] = None /\ w \notin Out(s)
      BY <1>1, <1>2, <2>4
    <3> QED
      BY <3>1, <3>2, <3>3, <3>4, HandedMore, Zenon
  <2> QED
    BY <1>1, <1>2, <2>4, <2>6, <2>8, <2>9, <2>10, StepKeeps
<1>6. CASE Available = 0 /\ queue.closed /\ Becomes(Answered(State, c, Closed))
  <2>1. PICK r : r = [s EXCEPT !.inbox[c] = Closed] /\ Becomes(r)
    BY <1>6 DEF Answered, s
  <2>2. Closed \in Answers
    BY DEF Answers
  <2>3. /\ r \in States /\ r.queue = s.queue /\ r.verdict = s.verdict /\ r.passed = s.passed
        /\ r.gone = s.gone /\ r.received = s.received /\ r.inbox = [s.inbox EXCEPT ![c] = Closed]
    BY <1>1, <2>1, <2>2 DEF States
  <2>4. QueueOK(r, next)
    BY <1>1, <2>3, SameLine
  <2>5. HandedOK(r, lost)
    <3>1. s.inbox[c] \in {None, Closed} /\ Closed \in {None, Closed}
          /\ c \notin ToSet(s.queue.takers) /\ ToSet(s.queue.takers) \subseteq Consumers
      BY <1>1, <1>2
    <3>2. r.queue.takers = s.queue.takers /\ s \in States /\ HandedOK(s, lost)
      BY <1>1, <2>3
    <3> QED
      BY <2>3, <3>1, <3>2, HandedAnswer, Zenon
  <2> QED
    BY <1>1, <1>2, <2>1, <2>3, <2>4, <2>5, StepKeeps
<1>7. CASE /\ Available = 0 /\ ~queue.closed
           /\ Becomes([State EXCEPT !.queue.takers = Append(@, c)])
  <2>1. PICK x : x = Append(queue.takers, c)
    OBVIOUS
  <2>2. /\ x \in Seq(Consumers) /\ ToSet(x) = ToSet(queue.takers) \cup {c} /\ IsInjective(x)
    <3>1. IsInjective(queue.takers)
      BY <1>1 DEF HandedOK
    <3> QED
      BY <1>1, <1>2, <2>1, <3>1, AppendNode
  <2>3. PICK r : r = [s EXCEPT !.queue.takers = x] /\ Becomes(r)
    BY <1>1, <1>7, <2>1 DEF s, States
  <2>4. [queue EXCEPT !.takers = x] \in QueueStates
    BY <1>1, <2>2 DEF QueueStates
  <2>5. /\ r \in States /\ r.queue = [queue EXCEPT !.takers = x] /\ r.verdict = s.verdict
        /\ r.passed = s.passed /\ r.gone = s.gone /\ r.received = s.received /\ r.inbox = s.inbox
    BY <1>1, <2>3, <2>4 DEF States
  <2>6. /\ r.queue.items = queue.items /\ r.queue.offers = queue.offers
        /\ r.queue.takers = x
        /\ r.queue.closed = queue.closed /\ r.queue.offered = queue.offered
        /\ r.queue.taken = queue.taken
        /\ r.queue.accepted = queue.accepted /\ r.queue.slid = queue.slid
        /\ r.queue.discarded = queue.discarded
        /\ r.queue.cancelledOffers = queue.cancelledOffers /\ r.queue.dropped = queue.dropped
    BY <1>1, <2>5 DEF QueueStates
  <2>7. /\ RoomOK(s) /\ LineOK(s) /\ ToldOK(s, next) /\ SumsOK(s, next)
    BY <1>1, QueueOKParts
  <2>8. Out(r) = Out(s) /\ Buffered(r) = Buffered(s) /\ Waiting(r) = Waiting(s)
    BY <1>1, <2>5, <2>6 DEF Out, Buffered, Waiting
  <2>9. RoomOK(r)
    BY <1>1, <1>3, <1>7, <2>6, <2>7 DEF RoomOK
  <2>10. LineOK(r)
    BY <1>1, <2>5, <2>6, <2>7, <2>8 DEF LineOK
  <2>11. ToldOK(r, next)
    BY <2>5, <2>7, <2>8 DEF ToldOK
  <2>12. SumsOK(r, next)
    BY <1>1, <2>5, <2>6, <2>7 DEF SumsOK, Accepted
  <2>13. HandedOK(r, lost)
    <3>1. IsInjective(r.queue.takers) /\ \A d \in ToSet(r.queue.takers) : s.inbox[d] = None
      BY <1>1, <1>2, <2>2, <2>6 DEF HandedOK
    <3> QED
      BY <1>1, <2>5, <3>1, HandedLine
  <2>14. QueueOK(r, next) /\ r.queue.offered = next
    BY <1>1, <2>5, <2>6, <2>9, <2>10, <2>11, <2>12 DEF QueueOK
  <2> QED
    BY <1>1, <1>2, <2>3, <2>13, <2>14, StepKeeps
<1> QED
  BY <1>5, <1>6, <1>7 DEF Take

\* The fiber of a taker goes on, with its answer, ...
LEMMA ResumeStep ==
  ASSUME QueueInv, NEW c \in Consumers, Resume(c)
  PROVE  QueueInv'
<1> DEFINE s == State  next == queue.offered
           seen == IF inbox[c] = Closed THEN received ELSE received \cup {inbox[c]}
<1>1. /\ s \in States /\ QueueOK(s, next) /\ HandedOK(s, lost) /\ next \in Nat
      /\ setting \in Settings /\ lost \subseteq Values /\ s.received = received
      /\ s.queue.offered = next /\ s.inbox = inbox /\ ToSet(s.queue.takers) \subseteq Consumers
      /\ inbox \in [Consumers -> Answers]
  BY InvParts
<1>2. setting' = setting /\ lost' = lost /\ inbox[c] # None
  BY DEF Resume
<1>3. inbox[c] = Closed \/ inbox[c] \in Values
  BY <1>1, <1>2 DEF Answers
<1>4. Closed \notin Values /\ None \in Answers
  BY QueueAssumption DEF Values, Answers
<1>5. c \notin ToSet(s.queue.takers)
  BY <1>1, <1>2 DEF HandedOK
<1>6. PICK new : new = seen
  OBVIOUS
<1>7. new \subseteq Values
  BY <1>1, <1>3, <1>6, StateFields
<1>8. PICK r : r = [s EXCEPT !.inbox[c] = None, !.received = new] /\ Becomes(r)
  <2>1. [State EXCEPT !.inbox[c] = None,
                      !.received = IF inbox[c] = Closed THEN @ ELSE @ \cup {inbox[c]}]
         = [s EXCEPT !.inbox[c] = None, !.received = new]
    BY <1>1, <1>6 DEF States
  <2> QED
    BY <2>1 DEF Resume
<1> HIDE DEF s, next
<1>9. /\ r \in States /\ r.queue = s.queue /\ r.verdict = s.verdict /\ r.passed = s.passed
      /\ r.gone = s.gone /\ r.received = new /\ r.inbox = [s.inbox EXCEPT ![c] = None]
  BY <1>1, <1>4, <1>7, <1>8 DEF States
<1>10. QueueOK(r, next)
  BY <1>1, <1>9, SameLine
<1>11. HandedOK(r, lost)
  <2>1. CASE inbox[c] = Closed
    <3>1. /\ s.inbox[c] \in {None, Closed} /\ None \in {None, Closed}
          /\ r.queue.takers = s.queue.takers /\ r.received = s.received
      BY <1>1, <1>6, <1>9, <2>1
    <3> QED
      BY <1>1, <1>5, <1>9, <3>1, HandedAnswer, Zenon
  <2>2. CASE inbox[c] \in Values
    <3>1. PICK v \in Values : v = inbox[c]
      BY <2>2
    <3>2. r.received = s.received \cup {v} /\ s.inbox[c] = v /\ r.queue.takers = s.queue.takers
      BY <1>1, <1>4, <1>6, <1>9, <3>1
    <3>3. PICK m : m = lost
      OBVIOUS
    <3>4. r.inbox = [s.inbox EXCEPT ![c] = None] /\ r.passed = s.passed
      BY <1>9
    <3>5. s \in States /\ HandedOK(s, lost) /\ ToSet(s.queue.takers) \subseteq Consumers
      BY <1>1
    <3>6. HandedOK(r, m)
      BY <3>2, <3>3, <3>4, <3>5, HandedSeen
    <3> QED
      BY <3>3, <3>6
  <2> QED
    BY <1>3, <2>1, <2>2
<1> QED
  BY <1>1, <1>2, <1>8, <1>9, <1>10, <1>11, StepKeeps

\* ... or is interrupted: out of the line, or with an answer it never sees.
LEMMA InterruptConsumerStep ==
  ASSUME QueueInv, NEW c \in Consumers, InterruptConsumer(c)
  PROVE  QueueInv'
<1> DEFINE s == State  next == queue.offered
<1>1. /\ s \in States /\ QueueOK(s, next) /\ HandedOK(s, lost) /\ next \in Nat
      /\ setting \in Settings /\ lost \subseteq Values /\ s.queue = queue
      /\ s.queue.offered = next /\ s.inbox = inbox /\ ToSet(s.queue.takers) \subseteq Consumers
      /\ inbox \in [Consumers -> Answers] /\ queue \in QueueStates
      /\ queue.takers \in Seq(Consumers)
  BY InvParts
<1>2. CASE /\ c \in ToSet(queue.takers)
           /\ Becomes([State EXCEPT !.queue.takers = RemoveFirst(@, c)])
           /\ UNCHANGED <<setting, lost>>
  <2>1. PICK x : x = RemoveFirst(queue.takers, c)
    OBVIOUS
  <2>2. x \in Seq(Consumers) /\ ToSet(x) = ToSet(queue.takers) \ {c} /\ IsInjective(x)
    <3>1. IsInjective(queue.takers)
      BY <1>1 DEF HandedOK
    <3> QED
      BY <1>1, <2>1, <3>1, RemoveFirstNode
  <2>3. PICK r : r = [s EXCEPT !.queue.takers = x] /\ Becomes(r)
    BY <1>1, <1>2, <2>1 DEF States
  <2>4. [queue EXCEPT !.takers = x] \in QueueStates
    BY <1>1, <2>2 DEF QueueStates
  <2> HIDE DEF s, next
  <2>5. /\ r \in States /\ r.queue = [queue EXCEPT !.takers = x] /\ r.verdict = s.verdict
        /\ r.passed = s.passed /\ r.gone = s.gone /\ r.received = s.received /\ r.inbox = s.inbox
    BY <1>1, <2>3, <2>4 DEF States
  <2>6. /\ r.queue.items = queue.items /\ r.queue.offers = queue.offers
        /\ r.queue.takers = x
        /\ r.queue.closed = queue.closed /\ r.queue.offered = queue.offered
        /\ r.queue.taken = queue.taken
        /\ r.queue.accepted = queue.accepted /\ r.queue.slid = queue.slid
        /\ r.queue.discarded = queue.discarded
        /\ r.queue.cancelledOffers = queue.cancelledOffers /\ r.queue.dropped = queue.dropped
    BY <1>1, <2>5 DEF QueueStates
  <2>7. /\ RoomOK(s) /\ LineOK(s) /\ ToldOK(s, next) /\ SumsOK(s, next)
    BY <1>1, QueueOKParts
  <2>8. Out(r) = Out(s) /\ Buffered(r) = Buffered(s) /\ Waiting(r) = Waiting(s)
    BY <1>1, <2>5, <2>6 DEF Out, Buffered, Waiting
  <2>9. RoomOK(r)
    <3>1. queue.takers # <<>>
      BY <1>2 DEF ToSet
    <3> QED
      BY <1>1, <2>6, <2>7, <3>1 DEF RoomOK, Full
  <2>10. LineOK(r)
    BY <1>1, <2>5, <2>6, <2>7, <2>8 DEF LineOK
  <2>11. ToldOK(r, next)
    BY <2>5, <2>7, <2>8 DEF ToldOK
  <2>12. SumsOK(r, next)
    <3>1. Accepted(r) = Accepted(s)
      BY <2>5 DEF Accepted
    <3> QED
      BY <1>1, <2>5, <2>6, <2>7, <3>1 DEF SumsOK
  <2>13. HandedOK(r, lost)
    <3>1. IsInjective(r.queue.takers) /\ \A d \in ToSet(r.queue.takers) : s.inbox[d] = None
      BY <1>1, <2>2, <2>6 DEF HandedOK
    <3> QED
      BY <1>1, <2>5, <3>1, HandedLine
  <2>14. QueueOK(r, next) /\ r.queue.offered = next
    BY <1>1, <2>5, <2>6, <2>9, <2>10, <2>11, <2>12 DEF QueueOK
  <2> QED
    BY <1>1, <1>2, <2>3, <2>13, <2>14, StepKeeps
<1>3. CASE /\ inbox[c] # None /\ lost' = lost \cup ({inbox[c]} \ {Closed})
           /\ Becomes([State EXCEPT !.inbox[c] = None]) /\ UNCHANGED setting
  <2>1. inbox[c] = Closed \/ inbox[c] \in Values
    BY <1>1, <1>3 DEF Answers
  <2>2. Closed \notin Values /\ None \in Answers
    BY QueueAssumption DEF Values, Answers
  <2>3. c \notin ToSet(s.queue.takers)
    BY <1>1, <1>3 DEF HandedOK
  <2>4. PICK r : r = [s EXCEPT !.inbox[c] = None] /\ Becomes(r)
    BY <1>3
  <2> HIDE DEF s, next
  <2>5. /\ r \in States /\ r.queue = s.queue /\ r.verdict = s.verdict /\ r.passed = s.passed
        /\ r.gone = s.gone /\ r.received = s.received /\ r.inbox = [s.inbox EXCEPT ![c] = None]
    BY <1>1, <2>2, <2>4 DEF States
  <2>6. QueueOK(r, next)
    BY <1>1, <2>5, SameLine
  <2>7. PICK m : m = lost'
    OBVIOUS
  <2>8. HandedOK(r, m) /\ m \subseteq Values
    <3>1. CASE inbox[c] = Closed
      <4>1. /\ s.inbox[c] \in {None, Closed} /\ None \in {None, Closed}
            /\ r.queue.takers = s.queue.takers /\ m = lost
        BY <1>1, <1>3, <2>5, <2>7, <3>1
      <4>2. HandedOK(r, lost)
        BY <1>1, <2>3, <2>5, <4>1, HandedAnswer, Zenon
      <4> QED
        BY <1>1, <4>1, <4>2
    <3>2. CASE inbox[c] \in Values
      <4>1. PICK v \in Values : v = inbox[c]
        BY <3>2
      <4>2. /\ m = lost \cup {v} /\ s.inbox[c] = v /\ r.queue.takers = s.queue.takers
            /\ r.received = s.received
        BY <1>1, <1>3, <2>2, <2>5, <2>7, <4>1
      <4>3. r.inbox = [s.inbox EXCEPT ![c] = None] /\ r.passed = s.passed
        BY <2>5
      <4>4. s \in States /\ HandedOK(s, lost) /\ ToSet(s.queue.takers) \subseteq Consumers
        BY <1>1
      <4>5. HandedOK(r, m)
        BY <4>2, <4>3, <4>4, HandedSeen
      <4> QED
        BY <1>1, <4>2, <4>5
    <3> QED
      BY <2>1, <3>1, <3>2
  <2>9. QueueOK(r, r.queue.offered) /\ HandedOK(r, lost') /\ lost' \subseteq Values
    BY <1>1, <2>5, <2>6, <2>7, <2>8
  <2> QED
    BY <1>1, <1>3, <2>4, <2>9, StepKeeps
<1> QED
  BY <1>2, <1>3 DEF InterruptConsumer

\* The canceler of an offer that waits.
LEMMA InterruptProducerStep ==
  ASSUME QueueInv, NEW p \in Producers, InterruptProducer(p)
  PROVE  QueueInv'
<1> DEFINE s == State  next == queue.offered
<1>1. /\ s \in States /\ QueueOK(s, next) /\ HandedOK(s, lost) /\ next \in Nat
      /\ setting \in Settings /\ lost \subseteq Values /\ s.queue = queue
      /\ queue \in QueueStates /\ queue.offers \in Seq(Offers)
      /\ s.verdict \in [Values -> Verdicts]
  BY InvParts, StateFields
<1>2. PICK i \in DOMAIN queue.offers : Becomes(CancelOffer(State, i))
  BY DEF InterruptProducer
<1>3. setting' = setting /\ lost' = lost
  BY DEF InterruptProducer
<1>4. RoomOK(s) /\ LineOK(s) /\ ToldOK(s, next) /\ SumsOK(s, next)
  BY <1>1, QueueOKParts
<1>5. PICK v, x, m : /\ v = queue.offers[i].value /\ x = RemoveAt(queue.offers, i)
                     /\ m = queue.cancelledOffers + 1
  OBVIOUS
<1>6. /\ v \in Values /\ v \in Waiting(s) /\ x \in Seq(Offers)
      /\ Len(x) = Len(queue.offers) - 1 /\ Len(queue.offers) > 0
      /\ ToSet(ValuesOf(x)) = Waiting(s) \ {v} /\ Rising(ValuesOf(x))
  <2>1. Rising(ValuesOf(queue.offers)) /\ Waiting(s) = ToSet(ValuesOf(queue.offers))
    BY <1>1, <1>4 DEF LineOK, Waiting
  <2> QED
    BY <1>1, <1>2, <1>5, <2>1, OfferRemove
<1>7. PICK r : /\ r = [s EXCEPT !.queue.offers = x, !.queue.cancelledOffers = m,
                                !.verdict[v] = "cancelled"]
               /\ Becomes(r)
  <2>1. CancelOffer(State, i) = [s EXCEPT !.queue.offers = x, !.queue.cancelledOffers = m,
                                          !.verdict[v] = "cancelled"]
    BY <1>1, <1>5 DEF CancelOffer, States
  <2> QED
    BY <1>2, <2>1
<1>8. m \in Nat /\ "cancelled" \in Verdicts
  BY <1>1, <1>5, QueueFields DEF Verdicts
<1>9. [queue EXCEPT !.offers = x, !.cancelledOffers = m] \in QueueStates
  BY <1>1, <1>6, <1>8 DEF QueueStates
<1> HIDE DEF s, next
<1>10. /\ r \in States /\ r.queue = [queue EXCEPT !.offers = x, !.cancelledOffers = m]
       /\ r.verdict = [s.verdict EXCEPT ![v] = "cancelled"]
       /\ r.passed = s.passed /\ r.gone = s.gone /\ r.received = s.received /\ r.inbox = s.inbox
  BY <1>1, <1>7, <1>8, <1>9 DEF States
<1>11. /\ r.queue.items = queue.items /\ r.queue.offers = x
       /\ r.queue.takers = queue.takers
       /\ r.queue.closed = queue.closed /\ r.queue.offered = queue.offered
       /\ r.queue.taken = queue.taken
       /\ r.queue.accepted = queue.accepted /\ r.queue.slid = queue.slid
       /\ r.queue.discarded = queue.discarded
       /\ r.queue.cancelledOffers = m /\ r.queue.dropped = queue.dropped
  BY <1>1, <1>10 DEF QueueStates
<1>12. Out(r) = Out(s) /\ Buffered(r) = Buffered(s) /\ Waiting(r) = Waiting(s) \ {v}
  BY <1>1, <1>6, <1>10, <1>11 DEF Out, Buffered, Waiting
<1>13. RoomOK(r)
  <2>1. queue.offers # <<>>
    <3>1. Len(<<>>) = 0
      OBVIOUS
    <3> QED
      BY <1>6, <3>1
  <2> QED
    BY <1>1, <1>4, <1>11, <2>1 DEF RoomOK, Full
<1>14. LineOK(r)
  BY <1>1, <1>4, <1>6, <1>10, <1>11, <1>12 DEF LineOK, Older
<1>15. ToldOK(r, next)
  <2>1. s.gone \cap (Out(s) \cup Buffered(s)) = {}
    BY <1>4 DEF ToldOK
  <2>2. r.gone \cap (Out(r) \cup Buffered(r)) = {}
    BY <1>10, <1>12, <2>1
  <2>3. Out(r) \cup Buffered(r) \cup r.gone = Out(s) \cup Buffered(s) \cup s.gone
    BY <1>10, <1>12
  <2> QED
    BY <1>1, <1>6, <1>10, <1>12, <2>2, <2>3, ToldMoved
<1>16. SumsOK(r, next)
  <2>1. s.verdict[v] # "accepted"
    BY <1>4, <1>6 DEF ToldOK
  <2>2. PICK a, d, c, l, n, j, y, z \in Nat : Numbers(s, next, a, d, c, l, n, j, y, z)
    BY <1>1, <1>4, SumsNumbers, Zenon
  <2>3. Cardinality(Accepted(r)) = a
    <3>1. Cardinality(Accepted(r)) = Cardinality(Accepted(s))
      <4>1. s \in States /\ v \in Values /\ "cancelled" \in Verdicts /\ "cancelled" # "accepted"
        BY <1>1, <1>6, <1>8
      <4>2. r.verdict = [s.verdict EXCEPT ![v] = "cancelled"]
        BY <1>10
      <4> QED
        BY <2>1, <4>1, <4>2, VerdictCount
    <3> QED
      BY <2>2, <3>1 DEF Numbers
  <2>4. next = a + d + (c + 1) + (l - 1) /\ a = n + j + y + z /\ l > 0 /\ m = c + 1
    <3>1. /\ next = a + d + c + l /\ a = n + j + y + z /\ Len(queue.offers) = l
          /\ queue.cancelledOffers = c
      BY <1>1, <2>2 DEF Numbers
    <3>2. l > 0 /\ m = c + 1
      BY <1>5, <1>6, <3>1
    <3> QED
      BY <3>1, <3>2
  <2>5. Numbers(r, next, a, d, c + 1, l - 1, n, j, y, z)
    BY <1>1, <1>6, <1>10, <1>11, <2>2, <2>3, <2>4 DEF Numbers
  <2>6. c + 1 \in Nat /\ l - 1 \in Nat
    <3>1. l > 0
      BY <2>4
    <3> QED
      BY <3>1
  <2> QED
    BY <2>5, <2>6, NumbersSum, Zenon
<1>17. HandedOK(r, lost)
  BY <1>1, <1>10, <1>11, HandedSame
<1>18. QueueOK(r, next) /\ r.queue.offered = next
  BY <1>10, <1>11, <1>13, <1>14, <1>15, <1>16 DEF QueueOK, next
<1> QED
  BY <1>1, <1>3, <1>7, <1>17, <1>18, StepKeeps

\* The shutdown empties every place: the offers that wait are refused, the items
\* gone, and the takers told that the queue is closed.
LEMMA ShutdownQueueStep ==
  ASSUME QueueInv, ShutdownQueue
  PROVE  QueueInv'
<1> DEFINE s == State  next == queue.offered
<1>1. /\ s \in States /\ QueueOK(s, next) /\ HandedOK(s, lost) /\ next \in Nat
      /\ setting \in Settings /\ lost \subseteq Values /\ s.queue = queue
      /\ queue \in QueueStates /\ queue.offers \in Seq(Offers) /\ queue.items \in Seq(Values)
      /\ s.verdict \in [Values -> Verdicts] /\ s.inbox \in [Consumers -> Answers]
      /\ s.passed \in Seq(Values) /\ s.gone \subseteq Values
  BY InvParts, StateFields
<1>2. Becomes(CloseAll(State)) /\ setting' = setting /\ lost' = lost
  BY DEF ShutdownQueue
<1>3. RoomOK(s) /\ LineOK(s) /\ ToldOK(s, next) /\ SumsOK(s, next)
  BY <1>1, QueueOKParts
<1>4. Len(queue.offers) \in Nat /\ Len(queue.items) \in Nat
  BY <1>1
<1>5. PICK d, e, g, x, y :
         /\ d = queue.dropped + Len(queue.offers) /\ e = queue.discarded + Len(queue.items)
         /\ g = s.gone \cup Buffered(s)
         /\ x = [v \in Values |-> IF v \in Waiting(s) THEN "refused" ELSE s.verdict[v]]
         /\ y = [c \in Consumers |-> IF c \in ToSet(queue.takers) THEN Closed ELSE s.inbox[c]]
  OBVIOUS
<1>6. d \in Nat /\ e \in Nat
  BY <1>1, <1>4, <1>5, QueueFields
<1>7. Buffered(s) \subseteq Values /\ Waiting(s) \subseteq Values /\ Out(s) \subseteq Values
  <2>1. s.queue.items \in Seq(Values) /\ ValuesOf(s.queue.offers) \in Seq(Values)
    BY <1>1, ValuesOfLine
  <2> QED
    BY <1>1, <2>1, ValuesSeq DEF Buffered, Waiting, Out
<1>8. g \subseteq Values
  BY <1>1, <1>5, <1>7
<1>9. x \in [Values -> Verdicts] /\ \A v \in Values : x[v] = IF v \in Waiting(s) THEN "refused"
                                                            ELSE s.verdict[v]
  <2>1. "refused" \in Verdicts
    BY DEF Verdicts
  <2> QED
    BY <1>1, <1>5, <2>1
<1>10. y \in [Consumers -> Answers]
       /\ \A c \in Consumers : y[c] = IF c \in ToSet(queue.takers) THEN Closed ELSE s.inbox[c]
  <2>1. Closed \in Answers
    BY DEF Answers
  <2> QED
    BY <1>1, <1>5, <2>1
<1>11. PICK q : q = [queue EXCEPT !.closed = TRUE, !.takers = <<>>, !.items = <<>>,
                                  !.offers = <<>>, !.dropped = d, !.discarded = e]
  OBVIOUS
<1>12. q \in QueueStates
  <2>1. <<>> \in Seq(Values) /\ <<>> \in Seq(Offers) /\ <<>> \in Seq(Consumers) /\ TRUE \in BOOLEAN
    OBVIOUS
  <2> QED
    BY <1>1, <1>6, <1>11, <2>1 DEF QueueStates
<1>13. /\ q.items = <<>> /\ q.offers = <<>> /\ q.takers = <<>> /\ q.closed = TRUE
       /\ q.offered = queue.offered /\ q.taken = queue.taken /\ q.accepted = queue.accepted
       /\ q.slid = queue.slid /\ q.discarded = e /\ q.dropped = d
       /\ q.cancelledOffers = queue.cancelledOffers
  BY <1>1, <1>11 DEF QueueStates
<1>14. PICK r : r = CloseAll(State)
  OBVIOUS
<1>15. /\ r.queue = q /\ r.verdict = x /\ r.inbox = y /\ r.gone = g
       /\ r.passed = s.passed /\ r.received = s.received /\ r \in States
  <2>1. PICK t : t = s
    OBVIOUS
  <2>2. t \in States /\ t.queue = queue
    BY <1>1, <2>1
  <2>3. r = [t EXCEPT !.queue = q, !.gone = g, !.verdict = x, !.inbox = y]
    <3>1. r = CloseAll(t)
      BY <1>14, <2>1
    <3>2. ToSet(ValuesOf(t.queue.offers)) = Waiting(s) /\ ToSet(t.queue.items) = Buffered(s)
      BY <2>1 DEF Waiting, Buffered
    <3>3. /\ x = [v \in Values |-> IF v \in ToSet(ValuesOf(t.queue.offers)) THEN "refused"
                                 ELSE t.verdict[v]]
          /\ y = [c \in Consumers |-> IF c \in ToSet(t.queue.takers) THEN Closed ELSE t.inbox[c]]
      BY <1>5, <2>1, <2>2, <3>2
    <3>4. /\ d = t.queue.dropped + Len(t.queue.offers)
          /\ e = t.queue.discarded + Len(t.queue.items) /\ g = t.gone \cup ToSet(t.queue.items)
      BY <1>5, <2>1, <2>2, <3>2
    <3>5. CloseAll(t) = [t EXCEPT !.queue.closed = TRUE, !.queue.takers = <<>>,
                                  !.queue.items = <<>>, !.queue.offers = <<>>,
                                  !.queue.dropped = d, !.queue.discarded = e, !.gone = g,
                                  !.verdict = x, !.inbox = y]
      BY <2>2, <3>3, <3>4 DEF CloseAll, States
    <3> QED
      BY <1>11, <2>2, <3>1, <3>5 DEF States
  <2>4. t.passed = s.passed /\ t.received = s.received
    BY <2>1
  <2> QED
    BY <1>8, <1>9, <1>10, <1>12, <2>2, <2>3, <2>4 DEF States
<1> HIDE DEF s, next
<1>16. ToSet(<<>>) = {} /\ Len(<<>>) = 0 /\ ValuesOf(<<>>) = <<>>
  BY DEF ToSet, ValuesOf
<1>17. Out(r) = Out(s) /\ Buffered(r) = {} /\ Waiting(r) = {}
  BY <1>13, <1>15, <1>16 DEF Out, Buffered, Waiting
<1>18. RoomOK(r)
  <2>1. 0 <= capacity
    BY <1>1, QueueAssumption DEF capacity
  <2> QED
    BY <1>13, <1>15, <1>16, <2>1 DEF RoomOK
<1>19. LineOK(r)
  <2>1. Rising(<<>>)
    BY DEF Rising
  <2> QED
    BY <1>3, <1>13, <1>15, <1>16, <1>17, <2>1 DEF LineOK, Older
<1>20. ToldOK(r, next)
  <2>1. Out(s) \cap Buffered(s) = {}
    <3>1. \A v \in Values : ~(v < v)
      BY DEF Values
    <3> QED
      BY <1>3, <1>7, <3>1 DEF LineOK, Older
  <2>2. r.gone \cap (Out(r) \cup Buffered(r)) = {}
    BY <1>3, <1>5, <1>15, <1>17, <2>1 DEF ToldOK
  <2>3. ASSUME NEW v \in Values
        PROVE  /\ r.verdict[v] = "accepted" <=> v \in Out(r) \cup Buffered(r) \cup r.gone
               /\ r.verdict[v] = "pending" <=> v \in Waiting(r)
               /\ r.verdict[v] = "unsent" <=> v > next
    <3>1. /\ s.verdict[v] = "accepted" <=> v \in Out(s) \cup Buffered(s) \cup s.gone
          /\ s.verdict[v] = "pending" <=> v \in Waiting(s)
          /\ s.verdict[v] = "unsent" <=> v > next
      BY <1>3 DEF ToldOK
    <3>2. r.verdict[v] = IF v \in Waiting(s) THEN "refused" ELSE s.verdict[v]
      BY <1>9, <1>15
    <3>3. v \in Out(r) \cup Buffered(r) \cup r.gone <=> v \in Out(s) \cup Buffered(s) \cup s.gone
      BY <1>5, <1>15, <1>17
    <3> QED
      BY <1>17, <3>1, <3>2, <3>3
  <2> QED
    BY <2>2, <2>3 DEF ToldOK
<1>21. SumsOK(r, next)
  <2>1. Accepted(r) = Accepted(s)
    <3>1. \A v \in Waiting(s) : s.verdict[v] = "pending"
      BY <1>3, <1>7 DEF ToldOK
    <3>2. \A v \in Values : r.verdict[v] = "accepted" <=> s.verdict[v] = "accepted"
      BY <1>9, <1>15, <3>1
    <3> QED
      BY <3>2 DEF Accepted
  <2>2. PICK a, b, c, l, n, i, j, k \in Nat : Numbers(s, next, a, b, c, l, n, i, j, k)
    BY <1>1, <1>3, SumsNumbers, Zenon
  <2>3. /\ next = a + b + c + l /\ a = n + i + j + k /\ d = b + l /\ e = k + i
    BY <1>1, <1>5, <2>2 DEF Numbers
  <2>4. Numbers(r, next, a, d, c, 0, n, 0, j, e)
    <3>1. next = a + d + c + 0 /\ a = n + 0 + j + e
      BY <2>3
    <3> QED
      BY <1>1, <1>13, <1>15, <1>16, <2>1, <2>2, <3>1 DEF Numbers
  <2>5. 0 \in Nat
    OBVIOUS
  <2> QED
    BY <1>6, <2>4, <2>5, NumbersSum, Zenon
<1>22. HandedOK(r, lost)
  <2> DEFINE D == {s.inbox[c] : c \in Consumers} \cap Values
             E == {r.inbox[c] : c \in Consumers} \cap Values
  <2>1. None \notin Values /\ Closed \notin Values
    BY QueueAssumption DEF Values
  <2>2. /\ \A c \in ToSet(queue.takers) : s.inbox[c] = None
        /\ \A c, f \in Consumers : s.inbox[c] = s.inbox[f] /\ s.inbox[c] \in Values => c = f
        /\ Out(s) = s.received \cup D \cup lost
        /\ s.received \cap (D \cup lost) = {} /\ D \cap lost = {}
    BY <1>1 DEF HandedOK
  <2>3. \A c \in Consumers :
           r.inbox[c] = IF c \in ToSet(queue.takers) THEN Closed ELSE s.inbox[c]
    BY <1>10, <1>15
  <2>4. \A c, f \in Consumers : r.inbox[c] = r.inbox[f] /\ r.inbox[c] \in Values => c = f
    BY <2>1, <2>2, <2>3
  <2>5. D = E
    BY <2>1, <2>2, <2>3
  <2>6. IsInjective(r.queue.takers) /\ ToSet(r.queue.takers) = {}
    BY <1>13, <1>15, <1>16 DEF IsInjective
  <2>7. /\ Out(r) = r.received \cup E \cup lost
        /\ r.received \cap (E \cup lost) = {} /\ E \cap lost = {}
    BY <1>15, <1>17, <2>2, <2>5
  <2> QED
    BY <2>4, <2>6, <2>7 DEF HandedOK
<1>23. QueueOK(r, r.queue.offered) /\ lost' \subseteq Values
  BY <1>1, <1>2, <1>13, <1>15, <1>18, <1>19, <1>20, <1>21 DEF QueueOK, next
<1> QED
  BY <1>1, <1>2, <1>14, <1>22, <1>23, StepKeeps

LEMMA QueueInitHolds ==
  ASSUME QueueInit
  PROVE  QueueInv
<1>1. PICK s : s = State
  OBVIOUS
<1>2. /\ s.queue = queue /\ s.verdict = [v \in Values |-> "unsent"]
      /\ s.inbox = [c \in Consumers |-> None] /\ s.passed = <<>> /\ s.gone = {} /\ s.received = {}
      /\ lost = {} /\ setting \in Settings /\ queue.offered = 0
  BY <1>1 DEF State, QueueInit
<1>3. /\ s.queue.items = <<>> /\ s.queue.offers = <<>> /\ s.queue.takers = <<>>
      /\ s.queue.closed = FALSE /\ s.queue.offered = 0 /\ s.queue.accepted = 0
      /\ s.queue.dropped = 0 /\ s.queue.slid = 0 /\ s.queue.discarded = 0
      /\ s.queue.taken = 0 /\ s.queue.cancelledOffers = 0
  BY <1>2 DEF QueueInit
<1>4. s \in States
  <2>1. /\ <<>> \in Seq(Values) /\ <<>> \in Seq(Offers) /\ <<>> \in Seq(Consumers)
        /\ FALSE \in BOOLEAN /\ 0 \in Nat
    OBVIOUS
  <2>2. s.queue \in QueueStates
    BY <1>2, <2>1 DEF QueueInit, QueueStates
  <2>3. "unsent" \in Verdicts /\ None \in Answers
    BY DEF Verdicts, Answers
  <2>4. s.verdict \in [Values -> Verdicts] /\ s.inbox \in [Consumers -> Answers]
    BY <1>2, <2>3
  <2>5. s = [queue |-> s.queue, verdict |-> s.verdict, inbox |-> s.inbox, passed |-> s.passed,
             gone |-> s.gone, received |-> s.received]
    BY <1>1, <1>2 DEF State
  <2>6. /\ s.passed \in Seq(Values) /\ s.gone \in SUBSET Values /\ s.received \in SUBSET Values
    BY <1>2, <2>1
  <2> QED
    BY <2>2, <2>4, <2>5, <2>6 DEF States
<1>5. ToSet(<<>>) = {} /\ Len(<<>>) = 0 /\ ValuesOf(<<>>) = <<>> /\ Rising(<<>>)
      /\ IsInjective(<<>>)
  BY DEF ToSet, ValuesOf, Rising, IsInjective
<1>6. Out(s) = {} /\ Buffered(s) = {} /\ Waiting(s) = {} /\ Accepted(s) = {}
  <2>1. Out(s) = {} /\ Buffered(s) = {} /\ Waiting(s) = {}
    BY <1>2, <1>3, <1>5 DEF Out, Buffered, Waiting
  <2>2. \A v \in Values : s.verdict[v] # "accepted"
    BY <1>2
  <2> QED
    BY <2>1, <2>2 DEF Accepted
<1>7. RoomOK(s)
  <2>1. 0 <= capacity
    BY <1>2, QueueAssumption DEF capacity
  <2> QED
    BY <1>3, <1>5, <2>1 DEF RoomOK
<1>8. LineOK(s)
  BY <1>2, <1>3, <1>5, <1>6 DEF LineOK, Older
<1>9. ToldOK(s, 0)
  <2>1. \A v \in Values : s.verdict[v] = "unsent" /\ v > 0
    BY <1>2, QueueAssumption DEF Values
  <2> QED
    BY <1>2, <1>6, <2>1 DEF ToldOK
<1>10. SumsOK(s, 0)
  BY <1>2, <1>3, <1>5, <1>6, FS_EmptySet DEF SumsOK
<1>11. HandedOK(s, lost)
  <2> DEFINE D == {s.inbox[c] : c \in Consumers} \cap Values
  <2>1. None \notin Values
    BY QueueAssumption DEF Values
  <2>2. \A c \in Consumers : s.inbox[c] = None
    BY <1>2
  <2>3. D = {}
    BY <2>1, <2>2
  <2>4. IsInjective(s.queue.takers) /\ ToSet(s.queue.takers) = {}
    BY <1>3, <1>5
  <2>5. s.received = {} /\ lost = {}
    BY <1>2
  <2> QED
    BY <1>6, <2>1, <2>2, <2>3, <2>4, <2>5 DEF HandedOK
<1> QED
  BY <1>1, <1>2, <1>4, <1>7, <1>8, <1>9, <1>10, <1>11 DEF QueueInv, QueueOK

\* Every step keeps the invariant.
LEMMA QueueStep ==
  ASSUME QueueInv, [QueueNext]_queueVars
  PROVE  QueueInv'
<1>1. ASSUME NEW p \in Producers, OfferOne(p) \/ OfferBatch(p) \/ InterruptProducer(p)
      PROVE  QueueInv'
  BY <1>1, OfferOneStep, OfferBatchStep, InterruptProducerStep
<1>2. ASSUME NEW c \in Consumers, Take(c) \/ TakeBatch(c) \/ Resume(c) \/ InterruptConsumer(c)
      PROVE  QueueInv'
  BY <1>2, TakeStep, TakeBatchStep, ResumeStep, InterruptConsumerStep
<1>3. CASE ShutdownQueue
  BY <1>3, ShutdownQueueStep
<1>4. CASE UNCHANGED queueVars
  <2>1. PICK s : s = State
    OBVIOUS
  <2>2. s \in States /\ QueueOK(s, queue.offered) /\ HandedOK(s, lost) /\ s.queue = queue
        /\ setting \in Settings /\ lost \subseteq Values
    BY <2>1, InvParts
  <2>3. Becomes(s) /\ setting' = setting /\ lost' = lost
    BY <1>4, <2>1 DEF queueVars, Becomes, State
  <2> QED
    BY <2>2, <2>3, StepKeeps
<1> QED
  BY <1>1, <1>2, <1>3, <1>4 DEF QueueNext

LEMMA QueueInvAlways == QueueSpec => []QueueInv
<1>1. QueueInit => QueueInv
  BY QueueInitHolds
<1>2. QueueInv /\ [QueueNext]_queueVars => QueueInv'
  BY QueueStep
<1> QED
  BY <1>1, <1>2, PTL DEF QueueSpec

\* The state of an invariant queue, in the words of its properties.
LEMMA QueueInvExact ==
  ASSUME QueueInv
  PROVE  Exact
<1>1. PICK s : s = State
  OBVIOUS
<1>2. /\ s \in States /\ QueueOK(s, queue.offered) /\ HandedOK(s, lost) /\ s.queue = queue
      /\ s.verdict = verdict /\ s.inbox = inbox /\ s.passed = passed /\ s.gone = gone
      /\ s.received = received /\ queue.offered \in Nat /\ setting \in Settings
      /\ lost \subseteq Values /\ queue \in QueueStates
  BY <1>1, InvParts
<1>3. RoomOK(s) /\ LineOK(s) /\ ToldOK(s, queue.offered) /\ SumsOK(s, queue.offered)
  BY <1>2, QueueOKParts
<1>4. queue.items \in Seq(Values) /\ queue.offers \in Seq(Offers)
      /\ queue.takers \in Seq(Consumers) /\ passed \in Seq(Values)
  BY <1>2, QueueFields, StateFields
<1>5. TypeOK
  BY <1>1, <1>2, <1>3 DEF TypeOK, RoomOK
<1>6. NobodyWaitsInVain
  <2>1. Len(<<>>) = 0
    OBVIOUS
  <2>2. queue.items = <<>> /\ queue.offers = <<>> => Available = 0
    BY <2>1 DEF Available
  <2> QED
    BY <1>2, <1>3, <2>2 DEF RoomOK, NobodyWaitsInVain
<1>7. HandedOnce
  <2> DEFINE D == {inbox[c] : c \in Consumers} \cap Values
             E == {inbox[c] : c \in Consumers} \ {None, Closed}
  <2>1. D = E
    <3>1. None \notin Values /\ Closed \notin Values
      BY QueueAssumption DEF Values
    <3>2. \A c \in Consumers : inbox[c] \in Values \cup {None, Closed}
      BY <1>2, StateFields DEF Answers
    <3> QED
      BY <3>1, <3>2
  <2>2. ToSet(passed) = received \cup D \cup lost /\ received \cap (D \cup lost) = {}
        /\ D \cap lost = {}
    BY <1>2 DEF HandedOK, Out
  <2> HIDE DEF D
  <2>3. ToSet(passed) = received \cup E \cup lost /\ received \cap (E \cup lost) = {}
        /\ E \cap lost = {}
    BY <2>1, <2>2
  <2> QED
    BY <2>3 DEF HandedOnce
<1>8. VerdictsTold
  <2> DEFINE A == {v \in Values : verdict[v] = "accepted"}
             P == {v \in Values : verdict[v] = "pending"}
  <2>1. Out(s) = ToSet(passed) /\ Buffered(s) = ToSet(queue.items)
        /\ Waiting(s) = ToSet(ValuesOf(queue.offers)) /\ Accepted(s) = A
    BY <1>2 DEF Out, Buffered, Waiting, Accepted
  <2>2. /\ ToSet(passed) \subseteq Values /\ ToSet(queue.items) \subseteq Values
        /\ ToSet(ValuesOf(queue.offers)) \subseteq Values /\ gone \subseteq Values
    BY <1>2, <1>4, StateFields, ValuesOfLine, ValuesSeq
  <2>3. \A v \in Values :
           /\ verdict[v] = "accepted" <=> v \in ToSet(passed) \cup ToSet(queue.items) \cup gone
           /\ verdict[v] = "pending" <=> v \in ToSet(ValuesOf(queue.offers))
    BY <1>2, <1>3, <2>1 DEF ToldOK
  <2>4. A = ToSet(passed) \cup ToSet(queue.items) \cup gone
    BY <2>2, <2>3
  <2>5. P = ToSet(ValuesOf(queue.offers))
    BY <2>2, <2>3
  <2>6. gone \cap ToSet(passed \o queue.items) = {}
    <3>1. ToSet(passed \o queue.items) = ToSet(passed) \cup ToSet(queue.items)
      BY <1>4, ConcatSet
    <3> QED
      BY <1>2, <1>3, <2>1, <3>1 DEF ToldOK
  <2>7. /\ queue.offered = queue.accepted + queue.dropped + queue.cancelledOffers
                           + Len(queue.offers)
        /\ queue.accepted = queue.taken + Len(queue.items) + queue.slid + queue.discarded
        /\ queue.accepted = Cardinality(A) /\ queue.taken = Len(passed)
    BY <1>2, <1>3, <2>1 DEF SumsOK
  <2> HIDE DEF A, P
  <2> QED
    BY <2>4, <2>5, <2>6, <2>7 DEF VerdictsTold, A, P
<1> QED
  BY <1>5, <1>6, <1>7, <1>8 DEF Exact, Accounted

LEMMA QueueInvInOrder ==
  ASSUME QueueInv
  PROVE  FirstInFirstOut
<1>1. PICK s : s = State
  OBVIOUS
<1>2. /\ QueueOK(s, queue.offered) /\ s.queue = queue /\ s.passed = passed /\ s.gone = gone
      /\ queue.offered \in Nat
  BY <1>1, InvParts
<1>3. LineOK(s) /\ s.passed \in Seq(Values) /\ s.queue.items \in Seq(Values)
      /\ s.queue.offers \in Seq(Offers)
  BY <1>2, QueueOKParts
<1>4. PICK a, b, c : a = passed /\ b = queue.items /\ c = ValuesOf(queue.offers)
  OBVIOUS
<1>5. a \in Seq(Nat) /\ b \in Seq(Nat) /\ c \in Seq(Nat)
  <2>1. a \in Seq(Values) /\ b \in Seq(Values) /\ c \in Seq(Values)
    BY <1>2, <1>3, <1>4, ValuesOfLine
  <2> QED
    BY <2>1, ValuesSeq
<1>6. /\ Rising(a) /\ Rising(b) /\ Rising(c) /\ Older(ToSet(a), ToSet(b))
      /\ Older(ToSet(a), ToSet(c)) /\ Older(ToSet(b), ToSet(c))
      /\ ~queue.closed => Older(gone, ToSet(b))
  BY <1>2, <1>3, <1>4 DEF LineOK, Out, Buffered, Waiting, Older
<1>7. a \o b \in Seq(Nat) /\ Rising(a \o b) /\ ToSet(a \o b) = ToSet(a) \cup ToSet(b)
  BY <1>5, <1>6, RisingConcat, ConcatSet
<1>8. Rising(a \o b \o c)
  <2>1. PICK d : d = a \o b
    OBVIOUS
  <2>2. Older(ToSet(d), ToSet(c))
    BY <1>6, <1>7, <2>1 DEF Older
  <2> QED
    BY <1>5, <1>6, <1>7, <2>1, <2>2, RisingConcat
<1> QED
  BY <1>4, <1>6, <1>8 DEF FirstInFirstOut, Rising, Older

\* Nobody waits for what is there, and no value is lost, handed out twice or
\* reported wrongly: for any producers and consumers, any capacity and strategy
\* (but a sliding queue of capacity 0, which QueueAssumption leaves out), and
\* however many values are offered, alone or in batches.  (The handlers of
\* makeQueue() and the canceler of a waiting offer or take, queue.ts.)
THEOREM ExactTheorem == QueueSpec => []Exact
<1>1. QueueInv => Exact
  BY QueueInvExact
<1> QED
  BY <1>1, QueueInvAlways, PTL

\* The values handed out, those buffered and those that wait to be let in are in
\* the order in which they were offered, whatever was dropped, slid, cancelled
\* or refused in between.
THEOREM FirstInFirstOutTheorem == QueueSpec => []FirstInFirstOut
<1>1. QueueInv => FirstInFirstOut
  BY QueueInvInOrder
<1> QED
  BY <1>1, QueueInvAlways, PTL

=============================================================================
