------------------------------- MODULE Fiber -------------------------------
(***************************************************************************)
(* One RuntimeFiber of core/runtime/fiber.ts: the evaluator, its stack of  *)
(* continuations, interruption and interruptibility, the asynchronous      *)
(* callback shared by all Async nodes, finalizers and joiners.             *)
(*                                                                         *)
(* The program the fiber evaluates is not fixed: whenever the evaluator    *)
(* comes to a node it has not seen, the node may be of any kind, up to     *)
(* MaxOps nodes.  The environment holds the scheduler queue, the external  *)
(* operations behind Async nodes, other fibers that interrupt this one,    *)
(* and callers of join().                                                  *)
(*                                                                         *)
(* JavaScript runs one turn at a time.  phase says whose turn it is: while *)
(* it is not "idle" only this fiber runs, one node, one finalizer or one   *)
(* joiner per action.                                                      *)
(***************************************************************************)
EXTENDS Integers, SequencesExt, FiniteSetsExt

CONSTANTS Joiners,       \* callers of join()
          None,          \* no exit yet
          MaxOps,        \* bound: nodes of the program, besides Succeed and Fail
          MaxAnswers,    \* bound: times an operation calls its callback
          MayDrop,       \* may the scheduler answer "dropped"
          SelfInterrupt  \* may the fiber's own code call its interrupt()

ASSUME BoundsAssumption == /\ MaxOps \in Nat /\ MaxAnswers \in Nat
                           /\ MayDrop \in BOOLEAN /\ SelfInterrupt \in BOOLEAN

VARIABLES
  runState,    \* Queued, Running, Suspended or Done
  entries,     \* boundStep tasks of this fiber in the scheduler queue
  phase,       \* idle, eval, closing (in notify, finalizers), publishing (joiners)
  setsDone,    \* after publishing: does the caller of notify set Done
  code,        \* current: "next" unseen node, "value" Succeed, "async" suspended node
  fuel,        \* nodes the program may still have
  stack,       \* continuation frames, last is innermost
  depth,       \* interruptibilityDepth
  interrupted, \* the flag interrupt() raises
  ref,         \* value of a FiberRef, 0 outside every locally region
  node,        \* how many Async nodes the evaluator came to; the last one is current
  registered,  \* per Async node: how many times register() was called for it
  answered,    \* per Async node: how many times its operation called back
  resolved,    \* _syncResolved: the current Async node has its answer
  resumes,     \* <<waiting node, answering operation>> of every accepted answer
  cancelable,  \* Async nodes that suspended the fiber and returned a canceler
  cancelled,   \* Async nodes whose canceler was called
  finalizers,  \* fiberFinalizers: 0 a user's, k > 0 the armed canceler of node k
  closing,     \* the exit notify() was called with
  result,      \* the exit the fiber published
  waiting,     \* joiners registered and not yet told
  told,        \* per joiner: the exit it got
  ownInterrupt \* history: the interrupt came from the fiber's own code

evalVars  == <<code, fuel, stack, depth, ref>>
asyncVars == <<node, registered, answered, resolved, resumes, cancelable, cancelled>>
exitVars  == <<closing, result, waiting, told>>
fiberVars == <<runState, entries, phase, setsDone, evalVars, interrupted, asyncVars,
               finalizers, exitVars>>
vars == <<fiberVars, ownInterrupt>>

-----------------------------------------------------------------------------
(***************************************************************************)
(* Causes and exits (core/types/effect.ts).  A cause is abstracted to the  *)
(* set of kinds of its leaves; Then is union.  The empty set is a success. *)
(***************************************************************************)
Success   == {}
Fail      == {"fail"}
Die       == {"die"}
Interrupt == {"interrupt"}
Exits     == SUBSET {"fail", "die", "interrupt"}

IsFailureOnly(cause)     == cause = Fail
IsInterruptedOnly(cause) == cause = Interrupt
Then(first, second)      == first \union second

ASSUME NoneAssumption == \A exit \in Exits : exit # None

Nodes == 1..MaxOps
Frame(tag, prev, shields) == [tag |-> tag, prev |-> prev, shields |-> shields]
Frames == [tag : {"SuccessCont", "FoldCont", "InterruptibilityCont", "FiberRefCont"},
           prev : 0..MaxOps, shields : BOOLEAN]

Push(frame) == stack' = Append(stack, frame)
FramesFrom(i, tag) == {j \in i..Len(stack) : stack[j].tag = tag}

\* Popping the frames from i on leaves at new what was now: the outermost of the
\* popped frames of this kind restores the value it saved.
Restored(i, tag, now, new) ==
  LET S == FramesFrom(i, tag)
  IN  \/ S = {} /\ new = now
      \/ \E k \in S : (\A m \in S : k <= m) /\ new = stack[k].prev

\* Mutant: the depth is not restored.
MutUnwindKeepsDepth(i) ==
  /\ stack' = SubSeq(stack, 1, i - 1)
  /\ depth' = depth
  /\ \E r \in 0..MaxOps : Restored(i, "FiberRefCont", ref, r) /\ ref' = r

\* Frames i.. are popped.
Unwind(i) ==
  /\ stack' = SubSeq(stack, 1, i - 1)
  /\ \E d \in 0..MaxOps : Restored(i, "InterruptibilityCont", depth, d) /\ depth' = d
  /\ \E r \in 0..MaxOps : Restored(i, "FiberRefCont", ref, r) /\ ref' = r

\* notify(exit) starts: finalizers run before anything else does.
Close(exit, done) ==
  /\ closing' = exit
  /\ phase' = "closing"
  /\ setsDone' = done

NoClose == UNCHANGED <<closing, setsDone>>

\* Mutant: schedule() forgets that the fiber may be queued already.
MutScheduleQueuesAgain(then) ==
  /\ runState' = "Queued"
  /\ entries' = entries + 1
  /\ phase' = then
  /\ NoClose

(***************************************************************************)
(* schedule(): nothing when already queued or done, otherwise one more     *)
(* entry in the queue; a refusal by the scheduler ends the fiber at once.  *)
(***************************************************************************)
Schedule(then) ==
  \/ /\ runState \in {"Queued", "Done"}
     /\ phase' = then
     /\ NoClose /\ UNCHANGED <<runState, entries>>
  \/ /\ runState \in {"Running", "Suspended"}
     /\ runState' = "Queued"
     /\ entries' = entries + 1
     /\ phase' = then
     /\ NoClose
  \/ /\ MayDrop /\ runState \in {"Running", "Suspended"}
     /\ runState' = "Done"
     /\ UNCHANGED entries
     /\ IF closing = None THEN Close(Die, TRUE) ELSE phase' = then /\ NoClose

\* The flag is raised and the region frame at j is the border of the shield.
Pending(j) == interrupted /\ stack[j].prev = 0

\* s is the innermost frame that takes a value, 0 when there is none.
TakesValue(s) ==
  LET S == FramesFrom(1, "SuccessCont") \union FramesFrom(1, "FoldCont")
  IN  /\ s \in S \union {0}
      /\ s = 0 => S = {}
      /\ \A j \in S : j <= s

\* Mutant: the end of the program does not look at the flag.
MutOnSuccessIgnoresFlag ==
  \E s \in 0..Len(stack) :
    /\ TakesValue(s)
    /\ Unwind(IF s = 0 THEN 1 ELSE s)
    /\ IF s = 0 THEN Close(Success, TRUE) /\ UNCHANGED code
                ELSE code' = "next" /\ phase' = "eval" /\ NoClose

(***************************************************************************)
(* onSuccess: pop to the next SuccessCont or FoldCont.  Leaving the        *)
(* outermost shielded region with the flag raised ends the fiber there,    *)
(* with the frames below still on the stack.                               *)
(***************************************************************************)
OnSuccess ==
  \E s \in 0..Len(stack) :
    LET borders == {j \in FramesFrom(s + 1, "InterruptibilityCont") : Pending(j)}
    IN  /\ TakesValue(s)
        /\ \/ /\ \E j \in borders : (\A k \in borders : k <= j) /\ Unwind(j)
              /\ Close(Interrupt, TRUE)
              /\ UNCHANGED code
           \/ /\ borders = {} /\ s = 0
              /\ Unwind(1)
              /\ Close(IF interrupted /\ depth' = 0 THEN Interrupt ELSE Success, TRUE)
              /\ UNCHANGED code
           \/ /\ borders = {} /\ s > 0
              /\ Unwind(s)
              /\ \/ code' = "next" /\ phase' = "eval" /\ NoClose
                 \/ Close(Die, TRUE) /\ UNCHANGED code     \* the continuation throws

(***************************************************************************)
(* onCause: a FoldCont handles a cause made of failures only.  A shielded  *)
(* region left with the flag raised adds Interrupt to the cause, so frames *)
(* outside it no longer handle it.  A handler that throws hands a failure  *)
(* to the frames outside it, up to none: then the cause is unhandled.      *)
(***************************************************************************)
PendingAbove(i) == \E j \in FramesFrom(i + 1, "InterruptibilityCont") : Pending(j)

Handlers(cause) ==
  {i \in FramesFrom(1, "FoldCont") : IsFailureOnly(cause) /\ ~PendingAbove(i)}

Handled(cause) == \E i \in Handlers(cause) : Unwind(i) /\ code' = "next"

Unhandled(cause, done) ==
  /\ Unwind(1)
  /\ UNCHANGED code
  /\ Close(IF PendingAbove(0) /\ ~IsInterruptedOnly(cause) THEN Then(cause, Interrupt)
                                                           ELSE cause, done)

OnCause(cause) == \/ Handled(cause) /\ phase' = "eval" /\ NoClose
                  \/ Unhandled(cause, TRUE)

-----------------------------------------------------------------------------
\* fork() has queued the first step.
Init ==
  /\ runState = "Queued" /\ entries = 1 /\ phase = "idle" /\ setsDone = FALSE
  /\ code = "next" /\ fuel = MaxOps /\ stack = <<>> /\ depth = 0 /\ ref = 0
  /\ interrupted = FALSE
  /\ node = 0 /\ resolved = FALSE /\ resumes = {} /\ cancelable = {} /\ cancelled = {}
  /\ registered = [k \in Nodes |-> 0] /\ answered = [k \in Nodes |-> 0]
  /\ finalizers = <<>>
  /\ closing = None /\ result = None /\ waiting = {} /\ told = [j \in Joiners |-> None]
  /\ ownInterrupt = FALSE

\* boundStep is taken from the queue: nothing for a finished fiber, the unwinding
\* for an interrupted one, else the evaluator loop.
BeginStep ==
  /\ phase = "idle" /\ entries > 0
  /\ entries' = entries - 1
  /\ IF runState = "Done" \/ result # None
     THEN /\ runState' = "Done"
          /\ UNCHANGED <<phase, setsDone, evalVars, closing>>
     ELSE /\ runState' = "Running"
          /\ UNCHANGED fuel
          /\ IF interrupted /\ depth = 0
             THEN OnCause(Interrupt)
             ELSE phase' = "eval" /\ UNCHANGED <<setsDone, code, stack, depth, ref, closing>>
  /\ UNCHANGED <<interrupted, asyncVars, finalizers, result, waiting, told>>

\* The operation budget of a step is spent: back to the queue.
Yield ==
  /\ phase = "eval"
  /\ Schedule("idle")
  /\ UNCHANGED <<evalVars, interrupted, asyncVars, finalizers, result, waiting, told>>

Quiet == UNCHANGED <<runState, entries, interrupted, asyncVars, finalizers, result,
                     waiting, told>>

\* A Succeed node, or a value delivered by the callback.
EvalSucceed ==
  /\ phase = "eval" /\ code \in {"next", "value"}
  /\ OnSuccess
  /\ UNCHANGED fuel /\ Quiet

EvalFail ==
  /\ phase = "eval" /\ code = "next"
  /\ OnCause(Fail)
  /\ UNCHANGED fuel /\ Quiet

Spend == phase = "eval" /\ code = "next" /\ fuel > 0 /\ fuel' = fuel - 1
StayInLoop == phase' = "eval" /\ code' = "next" /\ NoClose

\* FlatMap and Fold push a continuation.
EvalBind ==
  /\ Spend /\ StayInLoop
  /\ \E tag \in {"SuccessCont", "FoldCont"} : Push(Frame(tag, 0, FALSE))
  /\ UNCHANGED <<depth, ref>> /\ Quiet

\* A thunk that throws under a FlatMap, in the synchronous trampoline, is a defect
\* that ends the fiber on the spot; the body of a mask that throws unwinds.
EvalThrow ==
  /\ Spend
  /\ \/ Close(Die, TRUE) /\ UNCHANGED <<code, stack, depth, ref>>
     \/ OnCause(Die)
  /\ Quiet

EnterRegion(newDepth) ==
  /\ depth' = newDepth
  /\ Push(Frame("InterruptibilityCont", depth, newDepth > 0))

\* uninterruptible(e), interruptible(e), and uninterruptibleMask(body).
EvalInterruptibility ==
  /\ Spend /\ StayInLoop
  /\ \E newDepth \in {depth + 1, 0} : EnterRegion(newDepth)
  /\ UNCHANGED ref /\ Quiet

\* restore(e) inside a mask: back to the depth the mask was entered at.
EvalRestore ==
  /\ Spend /\ StayInLoop
  /\ \E j \in FramesFrom(1, "InterruptibilityCont") : EnterRegion(stack[j].prev)
  /\ UNCHANGED ref /\ Quiet

EvalLocally ==
  /\ Spend /\ StayInLoop
  /\ Push(Frame("FiberRefCont", ref, FALSE))
  /\ ref' = ref + 1
  /\ UNCHANGED depth /\ Quiet

\* A thunk that registers a finalizer on the current fiber.
EvalAddFinalizer ==
  /\ Spend
  /\ finalizers' = Append(finalizers, 0)
  /\ OnSuccess
  /\ UNCHANGED <<runState, entries, interrupted, asyncVars, result, waiting, told>>

\* interrupt(): raise the flag once, and queue a step unless shielded.
DoInterrupt(then) ==
  /\ result = None /\ ~interrupted
  /\ interrupted' = TRUE
  /\ IF depth = 0 THEN Schedule(then)
                  ELSE phase' = then /\ NoClose /\ UNCHANGED <<runState, entries>>

\* The fiber's own code interrupts it, by itself or by closing its own scope.
EvalSelfInterrupt ==
  /\ SelfInterrupt
  /\ Spend
  /\ DoInterrupt("eval")
  /\ UNCHANGED <<code, stack, depth, ref, asyncVars, finalizers, result, waiting, told>>

(***************************************************************************)
(* An Async node: the shared callback state is reset and register() is     *)
(* called.  It answers at once, or the fiber suspends; the canceler it may *)
(* return becomes a transient finalizer.  A node that is stepped again     *)
(* while it is suspended is registered again.                              *)
(***************************************************************************)
EvalAsync ==
  /\ phase = "eval"
  /\ \/ code = "async" /\ UNCHANGED <<fuel, node>>
     \/ code = "next" /\ fuel > 0 /\ fuel' = fuel - 1 /\ node' = node + 1
  /\ registered' = [registered EXCEPT ![node'] = @ + 1]
  /\ \/ \* resolved synchronously
        /\ resolved' = TRUE
        /\ answered' = [answered EXCEPT ![node'] = @ + 1]
        /\ resumes' = resumes \union {<<node', node'>>}
        /\ OnSuccess \/ OnCause(Fail)
        /\ UNCHANGED <<runState, finalizers, cancelable>>
     \/ \* suspended
        /\ resolved' = FALSE
        /\ runState' = "Suspended" /\ phase' = "idle" /\ code' = "async"
        /\ \/ finalizers' = Append(finalizers, node') /\ cancelable' = cancelable \union {node'}
           \/ UNCHANGED <<finalizers, cancelable>>
        /\ NoClose
        /\ UNCHANGED <<answered, resumes, stack, depth, ref>>
  /\ UNCHANGED <<entries, interrupted, cancelled, result, waiting, told>>

\* _asyncDetach: the newest canceler of node k is disarmed.
Detach(k) ==
  \/ k \notin ToSet(finalizers) /\ UNCHANGED finalizers
  \/ \E i \in DOMAIN finalizers :
       /\ finalizers[i] = k
       /\ \A j \in DOMAIN finalizers : finalizers[j] = k => j <= i
       /\ finalizers' = RemoveAt(finalizers, i)

(***************************************************************************)
(* An operation calls back.  All nodes share one callback: the guard is    *)
(* the flag of the node that is current now.                               *)
(***************************************************************************)
Answer(k) ==
  /\ phase = "idle"
  /\ answered[k] < MaxAnswers * registered[k]
  /\ answered' = [answered EXCEPT ![k] = @ + 1]
  /\ IF resolved \/ closing # None
     THEN UNCHANGED <<runState, entries, phase, setsDone, evalVars, resolved, resumes,
                      finalizers, closing>>
     ELSE /\ resolved' = TRUE
          /\ resumes' = resumes \union {<<node, k>>}
          /\ Detach(node)
          /\ UNCHANGED fuel
          /\ \/ code' = "value" /\ Schedule("idle") /\ UNCHANGED <<stack, depth, ref>>
             \/ Handled(Fail) /\ Schedule("idle")
             \/ Unhandled(Fail, FALSE) /\ UNCHANGED <<runState, entries>>
  /\ UNCHANGED <<interrupted, node, registered, cancelable, cancelled, result, waiting, told>>

\* Another fiber, a scope or a caller interrupts this one.
InterruptCall ==
  /\ phase = "idle"
  /\ DoInterrupt("idle")
  /\ UNCHANGED <<evalVars, asyncVars, finalizers, result, waiting, told>>

JoinCall(j) ==
  /\ phase = "idle" /\ j \notin waiting /\ told[j] = None
  /\ IF result # None
     THEN told' = [told EXCEPT ![j] = result] /\ UNCHANGED waiting
     ELSE waiting' = waiting \union {j} /\ UNCHANGED told
  /\ UNCHANGED <<runState, entries, phase, setsDone, evalVars, interrupted, asyncVars,
                 finalizers, closing, result>>

(***************************************************************************)
(* notify(): finalizers newest first, then the result, then the joiners.   *)
(* A canceler only runs when its node has no answer; a user's finalizer    *)
(* may call interrupt() on the closing fiber.                              *)
(***************************************************************************)
RunFinalizer ==
  /\ phase = "closing" /\ finalizers # <<>>
  /\ LET n == finalizers[Len(finalizers)]
     IN  /\ finalizers' = SubSeq(finalizers, 1, Len(finalizers) - 1)
         /\ IF n > 0
            THEN /\ resolved' = TRUE
                 /\ cancelled' = IF resolved THEN cancelled ELSE cancelled \union {n}
                 /\ UNCHANGED <<runState, entries, phase, setsDone, interrupted, closing>>
            ELSE /\ \/ DoInterrupt("closing")
                    \/ UNCHANGED <<runState, entries, phase, setsDone, interrupted, closing>>
                 /\ UNCHANGED <<resolved, cancelled>>
  /\ UNCHANGED <<evalVars, node, registered, answered, resumes, cancelable, result, waiting,
                 told>>

Publish ==
  /\ phase = "closing" /\ finalizers = <<>>
  /\ result' = closing
  /\ phase' = "publishing"
  /\ UNCHANGED <<runState, entries, setsDone, evalVars, interrupted, asyncVars, finalizers,
                 closing, waiting, told>>

\* Mutant: the list of joiners is cleared after the first one is told.
MutNotifyFirst(j) ==
  /\ phase = "publishing" /\ j \in waiting
  /\ waiting' = {}
  /\ told' = [told EXCEPT ![j] = result]
  /\ UNCHANGED <<runState, entries, phase, setsDone, evalVars, interrupted, asyncVars,
                 finalizers, closing, result>>

NotifyJoiner(j) ==
  /\ phase = "publishing" /\ j \in waiting
  /\ waiting' = waiting \ {j}
  /\ told' = [told EXCEPT ![j] = result]
  /\ UNCHANGED <<runState, entries, phase, setsDone, evalVars, interrupted, asyncVars,
                 finalizers, closing, result>>

EndTurn ==
  /\ phase = "publishing" /\ waiting = {}
  /\ phase' = "idle"
  /\ runState' = IF setsDone THEN "Done" ELSE runState
  /\ UNCHANGED <<entries, setsDone, evalVars, interrupted, asyncVars, finalizers, exitVars>>

Eval == \/ EvalSucceed \/ EvalFail \/ EvalBind \/ EvalThrow \/ EvalInterruptibility
        \/ EvalRestore \/ EvalLocally \/ EvalAddFinalizer \/ EvalSelfInterrupt \/ EvalAsync

Notify == RunFinalizer \/ Publish \/ (\E j \in Joiners : NotifyJoiner(j)) \/ EndTurn


\* The scheduler has nothing of this fiber: it is over, or waits for an answer.
Quiescent == phase = "idle" /\ entries = 0

Step == \/ BeginStep \/ Yield \/ Eval \/ Notify
        \/ InterruptCall
        \/ \E k \in Nodes : Answer(k)
        \/ \E j \in Joiners : JoinCall(j)

\* While the evaluator runs, only the fiber's own code can raise the flag.
NoteOwnInterrupt == ownInterrupt' = (ownInterrupt \/ (phase = "eval" /\ interrupted' # interrupted))

Next == \/ Step /\ NoteOwnInterrupt
        \/ Quiescent /\ UNCHANGED vars

Spec == Init /\ [][Next]_vars

\* The scheduler runs what is queued, a turn goes on to its end, and every step
\* evaluates at least one node before it yields (the budget is positive).
Scheduling == WF_fiberVars(BeginStep) /\ WF_fiberVars(Notify) /\ SF_fiberVars(Eval)
\* The operation the fiber is suspended on answers.
Answering == WF_fiberVars(\E k \in Nodes : k = node /\ Answer(k))
FairSpec == Spec /\ Scheduling /\ Answering

-----------------------------------------------------------------------------
TypeOK ==
  /\ runState \in {"Queued", "Running", "Suspended", "Done"}
  /\ entries \in Nat
  /\ phase \in {"idle", "eval", "closing", "publishing"}
  /\ setsDone \in BOOLEAN
  /\ code \in {"next", "value", "async"}
  /\ fuel \in 0..MaxOps
  /\ stack \in Seq(Frames)
  /\ depth \in 0..MaxOps
  /\ interrupted \in BOOLEAN
  /\ ref \in 0..MaxOps
  /\ node \in 0..MaxOps
  /\ registered \in [Nodes -> Nat] /\ answered \in [Nodes -> Nat]
  /\ resolved \in BOOLEAN
  /\ resumes \subseteq Nodes \X Nodes
  /\ cancelable \subseteq Nodes /\ cancelled \subseteq Nodes
  /\ finalizers \in Seq(0..MaxOps)
  /\ closing \in Exits \union {None} /\ result \in Exits \union {None}
  /\ waiting \subseteq Joiners
  /\ told \in [Joiners -> Exits \union {None}]
  /\ ownInterrupt \in BOOLEAN

\* Regions nest: the depth is positive exactly when the innermost open region
\* shields, and every frame saved the depth of the region around it.  Whoever
\* leaves a region, by value, failure or restore, lands in the right mode.
ShieldedBelow(n) ==
  \E i \in FramesFrom(1, "InterruptibilityCont") :
    i < n /\ stack[i].shields /\ \A j \in FramesFrom(i + 1, "InterruptibilityCont") : j >= n
MaskDiscipline ==
  closing = None =>
    /\ depth > 0 <=> ShieldedBelow(Len(stack) + 1)
    /\ \A i \in FramesFrom(1, "InterruptibilityCont") : stack[i].prev > 0 <=> ShieldedBelow(i)

\* fiber.ts:251 "ya termino o ya esta en cola: no hacer nada" (over or already
\* queued: do nothing): the queue holds one entry of a queued fiber and none of
\* a suspended one, so nobody steps a fiber that waits for an answer.
OneEntry ==
  phase = "idle" /\ result = None => entries = IF runState = "Queued" THEN 1 ELSE 0

\* That is so as long as the fiber's own code does not interrupt it, whoever else
\* does, also when the scheduler drops a step or operations answer twice.
OneEntryFromOutside == ~ownInterrupt => OneEntry

\* fiber.ts:129 "already handled (double-call guard)": what a suspended node
\* resumes with is the answer of its own operation, never of an earlier one.
OwnAnswer == \A r \in resumes : r[1] = r[2]

\* That is so as long as no operation calls back twice: neither by itself, nor because
\* its node was stepped again while it was suspended and started it a second time.
AnswersOnce == \A k \in Nodes : answered[k] <= 1
OwnAnswerIfOnce == AnswersOnce => OwnAnswer

\* No canceler runs for an operation whose answer was taken; and when the fiber is
\* over, every operation that can be cancelled was cancelled or had answered.
AnsweredOrCancelled ==
  /\ \A k \in cancelled : <<k, k>> \notin resumes
  /\ AnswersOnce /\ result # None =>
       \A k \in cancelable : k \in cancelled \/ <<k, k>> \in resumes

\* The finalizers find the FiberRef value of the outermost region after a value
\* returned and after a typed failure, whatever regions were left on the way.
\* (A thunk that throws ends the fiber with its frames still on the stack.)
RefRestoredOnReturn ==
  closing # None /\ (closing = Success \/ "fail" \in closing) => ref = 0

\* Whatever a region set (the mode, the FiberRef value) is undone when it is left,
\* on each of the paths that leave it.
RegionsRestored == TypeOK /\ MaskDiscipline /\ RefRestoredOnReturn

\* Steps, answers and cancelers pair up: one queued step, the answer of the node
\* that waits, and a canceler for exactly those that never answered.
AnswersMatch == OneEntryFromOutside /\ OwnAnswerIfOnce /\ AnsweredOrCancelled

\* The fiber is a promise of one exit, see FiberContract.  With it: an interrupt
\* that came before the end is not lost, whatever regions, handlers and late
\* answers lie in between; the fiber does not end in a success.
Contract == INSTANCE FiberContract
              WITH committed <- closing, exit <- result, requested <- interrupted
ImplementsContract == Contract!Spec

\* When operations answer, everyone who joined is told.
EveryJoinerTold == \A j \in Joiners : (j \in waiting) ~> (told[j] # None)
-----------------------------------------------------------------------------
(* The inductive invariant of FiberProofs *)

\* What the program can still do bounds what it can still count up.
WithinFuel(n) == n + fuel <= MaxOps
FuelBounds ==
  /\ WithinFuel(depth) /\ WithinFuel(ref) /\ WithinFuel(node)
  /\ \A i \in 1..Len(stack) : WithinFuel(stack[i].prev)

\* Which exit there is at each point of a turn.
TurnExit ==
  /\ phase = "eval" => closing = None
  /\ phase \in {"closing", "publishing"} => closing # None
  /\ phase \in {"eval", "closing"} => result = None
  /\ phase \in {"idle", "publishing"} => result = closing
  /\ result # None => finalizers = <<>>

\* The outermost FiberRef region saved the value outside every region.
RefDiscipline ==
  LET S == FramesFrom(1, "FiberRefCont")
  IN  closing = None => /\ S = {} => ref = 0
                        /\ \A k \in S : (\A m \in S : k <= m) => stack[k].prev = 0

\* A node was stepped again while the fiber was suspended on it.
SteppedAgain == \E k \in Nodes : registered[k] > 1

\* Entries of the scheduler queue besides the one that runState knows of: one at
\* most, left by an own interrupt, until a suspended node is stepped again.
Extra == entries - (IF runState = "Queued" THEN 1 ELSE 0)
StepsQueued ==
  /\ ownInterrupt => interrupted
  /\ phase \in {"eval", "idle"} /\ result = None =>
       /\ Extra \in {0, 1}
       /\ ~ownInterrupt \/ SteppedAgain => Extra = 0
       /\ runState \in {"Queued", IF phase = "eval" THEN "Running" ELSE "Suspended"}
       /\ phase = "eval" /\ runState = "Queued" => 
            ownInterrupt /\ ~SteppedAgain /\ Extra = 0 /\ code # "async"
       /\ code = "async" /\ (phase = "eval" \/ runState = "Queued") => interrupted /\ Extra = 0
  /\ SteppedAgain =>
       /\ interrupted
       /\ ~resolved => phase = "idle" /\ runState = "Suspended" /\ closing = None

\* The one callback and the nodes it has answered so far.
CallbackState ==
  /\ closing = None => (code = "async" <=> node > 0 /\ ~resolved)
  /\ \A k \in Nodes : registered[k] > 0 <=> k <= node
  /\ \A r \in resumes : r[1] <= node /\ answered[r[2]] > 0
  /\ <<node, node>> \in resumes => resolved
  /\ \A k \in 1..node : k < node \/ (resolved /\ cancelled = {}) =>
                          \E n \in Nodes : <<k, n>> \in resumes

\* The cancelers still armed: that of the current node, until it is answered, and
\* what is left of a node that was stepped again.
Armed == {i \in DOMAIN finalizers : finalizers[i] > 0}
CancelersArmed ==
  /\ \A i \in Armed : finalizers[i] <= node
  /\ ~SteppedAgain => \A i \in Armed : finalizers[i] = node /\ ~resolved /\ Armed = {i}
  /\ SteppedAgain \/ closing = None => cancelled = {}
  /\ \A k \in cancelled : <<k, k>> \notin resumes
  /\ OwnAnswer => \A k \in cancelable :
       k \in ToSet(finalizers) \/ k \in cancelled \/ <<k, k>> \in resumes

IInv == /\ TypeOK /\ FuelBounds /\ TurnExit
        /\ MaskDiscipline /\ RefDiscipline /\ RefRestoredOnReturn
        /\ StepsQueued /\ CallbackState /\ CancelersArmed /\ OwnAnswerIfOnce
=============================================================================
