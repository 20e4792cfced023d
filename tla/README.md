# TLA+ models of brass-runtime

This directory holds TLA+ models of the concurrent core of *brass-runtime* and of its
HTTP client, TLC configurations that check them on small instances, and theorems about them proved
with TLAPS for every value of the constants. Source paths are relative to the
repository; `R/` stands for `src/core/runtime/`, `S/` for `src/core/stream/` and `H/` for
`src/http/`.

The files:

| module | models | checked by | proved in |
|---|---|---|---|
| `Semaphore` | `R/semaphore.ts`, with the fiber that evaluates `withPermit` | `MCBracket` (in composition) | `BracketProofs` |
| `Bracket` | `R/resource.ts`: `bracket` and `ensuring` inside `withPermit` | `MCBracket` | `BracketProofs` |
| `Fiber`, `FiberContract` | `R/fiber.ts`, and what a fiber promises to others | `MCFiber` | `FiberProofs` |
| `Scheduler` | `R/scheduler.ts` (engine "ts"), `R/ringBuffer.ts` | `MCScheduler` | `SchedulerProofs` |
| `Scope` | `R/scope.ts` | `MCStructured` (in composition) | `StructuredProofs` |
| `Structured` | `S/structuredConcurrency.ts` over `Scope` | `MCStructured` | `StructuredProofs` |
| `Queue` | `S/queue.ts` over `R/linkedQueue.ts` | `MCQueue` | `SupervisorProofs` |
| `WorkerPool` | `R/workerPool.ts` | `MCWorkerPool` | `BracketProofs` |
| `Supervisor` | `R/supervisor.ts` | `MCSupervisor` | `SupervisorProofs` |
| `WasmEngine` | `R/engine/WasmFiberEngine.ts` | `MCWasmEngine` | `SchedulerProofs` |
| `CircuitBreaker` | `R/circuitBreaker.ts` | `MCHttpClient` (in composition) | `HttpClientProofs` |
| `HttpPool` | `H/pool.ts` | `MCHttpClient` (in composition) | `HttpClientProofs` |
| `HttpClient` | `H/client.ts`, `H/circuitBreaker.ts` over the two above | `MCHttpClient` | `HttpClientProofs` |
| `PriorityScheduler`, `ResponseCache` | the layers of those names in `H/lifecycle` | `MCLifecycle` (in composition) | `LifecycleProofs` (the scheduler) |
| `Lifecycle` | `H/lifecycle`: deduplication, batch, retry, over the two above | `MCLifecycle` | `LifecycleProofs` |
| `TimerWheel` | `H/timerWheel.ts` | `MCTimerWheel` | `HttpClientProofs` |
| `QueueLemmas` | facts about sequences and cardinalities the proofs share | | itself |

`tlc -config MCQueue.cfg MCQueue` checks a model, `tlapm SchedulerProofs.tla` a proof.
Operators introduced by a comment "Mutant" (and all whose name begins with `Mut`) are not
part of any model: each is a faulty form of the operator next to it, kept to show
that a property notices that fault. `PROJECT.json` pairs each with its property.

## 1. The system

A program is a tree of effect nodes (`Succeed`, `Fail`, `Sync`, `FlatMap`, `Fold`,
`Async`, `Fork`, regions). A **fiber** evaluates one. A **scheduler** decides
when a fiber does its next step. Everything else is made of these two and of
callbacks. JavaScript runs one turn at a time, so nothing is preempted inside a
turn; interleaving happens *between* turns, and a fiber's turn may end after any
node, because its budget of operations is exhausted or because it suspends.

| part | state it keeps | operations | talks to | what makes it hard |
|---|---|---|---|---|
| Fiber `R/fiber.ts` | run state, continuation stack, interrupt flag, interruptibility depth, FiberRefs, one pending `Async` node, finalizers, joiners, exit | `schedule`, `boundStep`, `step`, `interrupt`, `join`, `addFinalizer`, `notify` | scheduler (tasks), external operations (one callback), other fibers | interrupt, answer, step and refusal arrive in any order |
| Scheduler `R/scheduler.ts` | lanes (ring buffers), rotation index and slice, length, two flags | `schedule`, `flush` | host micro- and macrotasks; runs fiber steps | tasks that schedule tasks, fairness, lost or doubled wake-ups |
| Scope `R/scope.ts` | children, sub-scopes, finalizers, closed flag | `fork`, `subScope`, `addFinalizer`, `close`, `closeAsync`, `withScopeAsync` | fibers (interrupt, join), runtime (fork) | several closers, failing finalizers, cancellation |
| Semaphore `R/semaphore.ts` | free permits, waiting callbacks | `acquire`, `release`, `withPermit` | the fiber's cancelers and finalizers | interrupt between two nodes of `acquirePermit` |
| Queue `S/queue.ts` | items, waiting offers, waiting takers, closed flag, counters | `offer`, `take`, batches, `shutdown` | cancelers of both sides | three strategies, capacity 0, interrupts |
| Circuit breaker `R/circuitBreaker.ts` | state, two counters, time stamp | `protect`, `reset` | clock, the outcomes of requests | outcomes of requests from an earlier state |
| Worker pool `R/workerPool.ts` | queue, busy count, timers | `execute`, `run`, `shutdown` | `setImmediate`, `setTimeout`, cancelers | timer, hand-over, cancel and shutdown race |
| Supervisor `R/supervisor.ts` | children with a fiber, a timer or a final exit; restart times | `start`, `interrupt`, `join`, `shutdown` | fibers, timers | timers that outlive what they restart, several shutdowns, fibers that end inside `interrupt` |
| WebAssembly engine `R/engine/WasmFiberEngine.ts` | fibers, ready queue, pending asyncs and host actions, deadlines | `fork`, `interrupt`, `drainReadyQueue`, `drive` | machine in Rust, runtime scheduler, host executor, timer wheel | deadlines and late answers, refusals, ends in the middle of a drain |
| Resource, bracket `R/resource.ts` | a scope per bracket, its child fibers | `bracket`, `ensuring`, `managed` | fibers, scopes, the caller's cancelers | an interrupt between acquire and use; a cancel that is only queued |
| Structured concurrency `S/structuredConcurrency.ts`, `R/combinators.ts` | exits so far, a done flag | `race`, `zipPar`, `collectAllPar`, `raceWith`, `timeout` | scopes, fibers | a scope that closes while effects end and continuations are forked |
| Hub, buffer `S/hub.ts`, `S/buffer.ts` | subscriptions | `publish`, `subscribe`, `shutdown` | queues | a subscriber that comes or goes while a value is published |
| Layers, registry `R/layer.ts`, `R/registry.ts` | memo of services, release stack | `provide`, `build` | scopes | one of several acquisitions fails |
| HTTP client `H/client.ts`, `H/circuitBreaker.ts` | per request: done flag, lease, canceler, timer | `runPoolTransport` | breaker, pool, transport, the caller's abort signal | a grant arrives a microtask late; abort, timeout, cancel and answer race |
| HTTP pool `H/pool.ts` | running count, waiters | `tryAcquireSync`, `acquire`, `release` | promises, abort signals, timers | as above |
| HTTP lifecycle `H/lifecycle` | in-flight table, batch groups, cache, slots and a priority queue | requests and their cancellation | each layer calls the next; timers | reference counts, positions in a batch, slots given back twice |
| HTTP timer wheel `H/timerWheel.ts` | linked lists, counters, handles of host timers | `schedule`, `cancel`, `destroy`, both ticks | host timers, callbacks | callbacks that schedule and cancel while the wheel turns |
| HTTP limiter, pre-warming | windows, budgets | `acquire`, `probe` | timers | floating point |
| Rust engine `crates/brass-engine-core` | slab with generations, timer queue, fiber registry | `insert`, `remove`, `poll` | WebAssembly bridge | handles that have become stale |
| Observability, agent, schema, examples | what they log or compute | | | not part of the runtime's own control |

What makes each part correct, in a sentence:

* a **fiber** ends once, with one exit, which everybody who joined is told; it never
  ends in a success after it was interrupted, never resumes with somebody else's answer,
  and leaves every region it entered;
* the **scheduler** runs every task it accepted, in the order of its lane, no lane
  waits for more than one slice of each other lane, and the host gets its turn;
* a **scope** outlives all that it owns, gives back in reverse order, and its close ends;
* the **semaphore** never admits more than its capacity and never sleeps on a free permit;
* a **bracket** closes what it opened, whatever ends the fiber that called it;
* a **combinator** answers what its effects justify and leaves none of them running;
* the **queue** is first in first out across its three places, and tells the truth
  to those who offer;
* the **breaker** opens, cools down and closes on the counts of the present round only;
* the **worker pool** keeps its workers busy and answers each task once;
* the **supervisor** leaves no child without a fiber, a timer or a final exit, never restarts
  what is final, keeps its restart budget, and its shutdown leaves nothing and is answered;
* the **WebAssembly engine** drives a fiber once per answer, with its own answer, and holds
  of the host what its fibers wait for;
* the **HTTP client** takes and gives back a permit per call, in order of arrival, and tells the
  breaker of each request once;
* the **HTTP lifecycle** shares one fetch among those who ask for one key, gives each member of
  a batch its part, and neither loses nor doubles a slot;
* the **timer wheel** loses no timeout, and calls it after its deadline, not long after.

## 2. The models

All modules share three conventions. *One action is one indivisible run of JavaScript
between two points where something else can happen*: a handler with all it
calls, or one node of the evaluator. *Callers are arbitrary*: which operation
comes next is `\E` over the constants, bounded by a constant named in the head of
the module. *History variables* (named as such) record what a property needs and
never enable or disable a step.

**Semaphore.** `pc[f]` is where fiber `f` stands in `withPermit`; `Acquire`,
`RegisterRelease`, `StartEffect`, `Settle`, `ReleaseOnce`, `Finish` are the evaluator
operations of lines 66-133, `Interrupt` raises the flag, `InterruptStep` is the step that
finds it and runs the cancelers and finalizers the fiber has at that point.
`Release` is line 86: the oldest waiter or the pool. `holders` counts `totalAcquired`
less `totalReleased`. The statistics and the manual protocol (`release()`
without `acquire()`, which the source leaves to the caller) are left out.

**Bracket** puts a `bracket()`, an `ensuring()` or a plain effect inside `withPermit`, as
`docs/guides/resource-management.md` does with connections. `pc` is the caller's fiber, `stage` the bracket's
child fiber of the moment. The child answers as long as `stage` is not over, also to a caller that was
interrupted and is gone (`Over`); the canceler of a bracket only queues `scope.close()` (`closing`), that of
`ensuring()` interrupts at once. Child fibers are known by their contract: no success after an interrupt.
`ImplementsSemaphore` says that the permits see of all this only steps of `Semaphore`.

**Fiber.** The program is arbitrary: whenever the evaluator comes to a node it has not
seen, `Eval*` chooses its kind, up to `MaxOps` nodes. `stack` holds the frames
that matter to control (`FlatMap`, `Fold`, interruptibility and FiberRef frames); causes
are the set of kinds of their leaves. `OnSuccess`, `OnCause` and `Unwind` are the loops
`onSuccess` and `onCause` taken as one step, because no turn ends inside them.
`Yield` is the end of the budget. `BeginStep ... EndTurn` is a turn
of `boundStep`; `phase` says whose turn it is. The environment calls back (`Answer`, also
twice and also late), interrupts, joins, and, with `MayDrop`, refuses a step. Both
the general switch and the trampoline are in: they differ in what a throwing
thunk does (`EvalFail`, `EvalThrow`).

**FiberContract** is what the rest of the runtime relies on: a promise of one exit, fixed
once, published once, told to each joiner, and no success after an interrupt
request. `Fiber` implements it with
`committed <- closing, exit <- result, requested <- interrupted`.

**Scheduler.** `queues[l]` is the ring buffer of lane `l`; `laneOrder`, `rrIndex`,
`rrRemaining`, `totalLength`, `flushing`, `scheduled` are the fields of those names.
`Schedule` is `scheduleJs` whole: the lane of the caller, the push or the refusal, and
the wake-up. A flush is a loop, and a running task may schedule, so it is `BeginFlush`, then
`ContinueSlice` / `NextLane` / `TakeSingle` and `TaskEnds` per task, then `EndFlush`
with the wake-up for the rest. `laneMode` is chosen at the start, from `LaneModes`.

**Scope** (operators; `Structured` gives the specification). `closeAsync` begins in one turn (`BeginClose`: closed flag, children
interrupted, what is to be closed fixed) and goes on as a forked fiber: `CloseSub`,
`SubClosed` (youngest first), `AwaitChildren`, `StartFinalizer`, `EndFinalizer` or
`FinalizerDies`, `Answer`. `BodyEnds`, `Cancel` and `GiveResult` are `withScopeAsync`. Children
and the body may end at any time, and do end once interrupted.

**Structured.** With the program `"scopes"`, owners do with the tree of scopes what they like. With one of the
others, the body of a `withScopeAsync()` calls that combinator once: `Calls` is the sub-scope, the forks and the
joins (one turn), `EffectEnds` is the end of a fiber together with what its joiner does (`Tell`), and
`CloserRuns` the fiber `scope.close()` forks. The outer scope may be closed at any moment by the body's end or
cancellation, so the joiners run before, during and after the close of their scope. `unheard` are the fibers
whose end `awaitAll()` will never hear of, because the joiner before it threw (`R/fiber.ts:322`).

**Queue.** `queue` is the state of the closure; `Put` is one offer, `Get` one take,
and the batches repeat them, as the code loops. `inbox` holds what a taker was
answered until its fiber resumes in a later turn (`Resume`); a fiber interrupted before that never sees the
value (`InterruptConsumer`), and `lost` remembers it. `verdict` is what an offer was told.

**Supervisor.** A child is a record: its fiber (`current`), `planned` (an all-for-one restart
awaits its end), `timer`, `status`, `terminal`, `times`. `Exit` is `onChildExit` with
all it calls: `ScheduleRestart`, `RestartAll`, `Escalate`, `Finished`. `Shutdown` is the registration of one
`shutdown()`: `remaining` and `waits` are its local count and the fibers it joined. Restart mode,
strategy and escalation are chosen at the start. `SyncInterrupt` tells the two kinds of fibers
apart: those of the TypeScript engine end some time after `interrupt()`, those of the
WebAssembly engine inside it.

**WasmEngine.** The machine in Rust is the environment: `DriveNext` takes the next fiber from the
ready queue and chooses what it asks for (an end, an async, a host action with or without a
deadline, a yield). `HostAnswers` and `DeadlinePasses` are told apart by tokens as in the code.
`RequestDrain` may be refused by the runtime's scheduler, and then all queued fibers
fail. Interrupts and async callbacks may come in the middle of a drain, because the code of
another fiber may cause them; promises and timers may not.

**CircuitBreaker.** `Protect` is the decision, made when `protect()` is *called*; `Start` and
`End` run the effect, possibly again (a retry runs the same effect). An outcome is a success,
a failure, or something the breaker never hears of (defect, interruption).

**WorkerPool.** `Execute` is the decision, made when `execute()` is called; `Submit` runs the
effect; `Run` is the `setImmediate` callback; `Timeout`, `Cancel`, `Shutdown`. `ProcessNext` is
one iteration, as in the code, which calls it once per event.

**HttpPool** and **HttpClient.** The pool is a set of operators from one state to the next, for one
key; `HttpClient` keeps its state, the requests and the microtasks. A request is sent (`Send`) with a signal that
is aborted already, and then only ends in a microtask (`SentAborted`), or it asks the pool (`AsksPool`). A grant or
refusal is a microtask (`Delivered`), which knows whether it was the pool or an abort that refused; the end of an abort
is another (`Aborts`); timers fire only when no microtask is left. `holds` is `state.lease`, `cancels` is `state.cancelInner`, `calling` the transport calls
that will still answer. The requests and the breaker are those of
`CircuitBreaker`, which `HttpClient` extends; `ImplementsBreaker` says that nothing but the breaker's own
steps ever happens to them.

**PriorityScheduler**, **ResponseCache**, **Lifecycle.** The two inner layers are operators, the module
`Lifecycle` composes them with deduplication, batch and retry as `makeLifecycleClient` does. A *job* is one
call of the layers below deduplication and batch, named by the request that began it, or by its
key for a background revalidation. `WireAnswers` is one answer of the wire with all that
follows from it: the slot goes to the most urgent queued job, the retry layer sleeps or ends the
job, the cache stores, the entry is deleted *by key*, the waiters are told, the parts of a batched
response are handed out *by position*. `CancelGet` and `CancelPost` distinguish, as the code does,
whether the last caller aborts a job that has its own abort listener (it was queued once), cancels
it itself, or leaves it to the wire.

**TimerWheel.** The fields of the class are the record `w`, and its methods operators from one value to the next, so
that a callback is one more operator applied in the middle of a tick. `BeginTick`, `Round` and `EndTick` are the
loop of `tick()` and of `fineTick()`, one entry per round, with `loop.entry` the variable `entry` and what
`next` was read before the callback. Links are modelled link by link (`Link`, `Unlink`), since the hazards are in them.
Time is what is left until a deadline; a host timer runs at most `Lag` late. `disturbed` records that a callback
cancelled the entry its loop had saved, by `cancel()` or by `destroy()`. A callback makes one call here; after a `destroy()`
nothing is pending that could be lost, but a callback that also schedules would lose it the same way, so both count.

The `map` of `PROJECT.json` names the lines of each definition.

## 3. The runs

Eleven runs hold; one shows a disagreement between the code and what the
repository says of it (section 6). Each question gets one property; several are conjunctions of
named parts, and the parts say what each adds.

| run | instance | distinct states | what it shows |
|---|---|---|---|
| `semaphore` | 4 fibers on 1 permit: 2 with a `bracket`, 1 with `ensuring`, 1 plain, an interrupt at every point | 142 000 | never more effects inside than permits (`AtMostCapacity`); no permit idle and no dead waiter (`NoLostWakeup`); connections are closed or known to be lost, and open under a permit (`ConnectionsAccounted`); late answers of brackets do nothing to permits (`ImplementsSemaphore`); everybody gets through unless a permit leaked, and what is left open in the end was lost (`EverythingEnds`) |
| `fiber` | 4 nodes besides `Succeed` and `Fail`, 2 joiners, 2 answers per operation, a scheduler that may refuse, code that may interrupt its own fiber | 142 000 | regions and FiberRefs are restored on every way out (`RegionsRestored`); one queue entry, its own answer, canceled or answered (`AnswersMatch`); the contract (`ImplementsContract`); joiners (`EveryJoinerTold`) |
| `scheduler` | 3 callers, 2 own lanes and the overflow lane of 2 slots, slices of 2, flushes of 3, 6 calls; both lane modes | 230 000 | a flush whenever needed and never a second one (`FlushWhenNeeded`); what is accepted is kept, in the order of its lane, and no lane waits longer than a slice of each other (`LanesFair`); the host's turn (`YieldsToHost`); every task runs (`EveryTaskRuns`) |
| `scope` | root and 2 sub-scopes in any tree, 1 child, the body, another closer, 2 finalizers that may die; or a combinator with its 2 effects and continuation | 366 000 | no child beside the finalizers, last registered first, sub-scopes before their parent, the result after the close (`ClosedInOrder`); answers that the effects justify, somebody to give them, no loser left running (`CombinatorExact`); every close ends, and every combinator in a closing scope answers (`CloseTerminates`) |
| `queue` | 2 producers, 2 consumers, 5 values, batches of 2; capacities 0, 1, 2 and all strategies (sliding from 1) | 75 000 | nobody waits in vain, verdicts and statistics are true, a value is handed out once (`Exact`); order across items and waiting offers (`FirstInFirstOut`); every offer told (`EveryOfferTold`) |
| `pool` | 4 tasks, 2 workers, 2 places | 42 000 | busy count, no idle worker, only awaited tasks queued (`WorkersExact`); one verdict (`OneVerdict`); all answered (`EveryTaskAnswered`) |
| `supervisor` | 2 children, 2 calls of `shutdown()`, both strategies, both escalations, all restart modes, 1 restart per window of 1, clock to 2 | 162 000 | one life per child, and nothing after a shutdown (`NothingLeftOver`); the budget in every window of the past (`BudgetKept`); final is final (`FinalIsFinal`); every shutdown answered (`ShutdownAnswered`) |
| `engine` | 3 fibers, 3 requests, a ready queue of 2, drains of 1, a scheduler that may refuse | 454 000 | driven once and with its own answer; asyncs, actions, deadlines and the count of them match what fibers wait for (`DrivenByItsHost`); every fiber ends (`EveryFiberEnds`) |
| `lifecycle` | 3 safe requests of one key, 2 batched ones, 1 slot, 1 retry, batches of 2, a cache of 1 entry that revalidates stale entries | 117 000 | slots (`SlotsExact`); reference counts, one fetch per key, one's own part of a batch (`SharedExactly`); urgency (`MostUrgentFirst`); all answered (`EveryoneAnswered`) |
| `lifecycle_batch` | the same with 2 slots and the plain cache | (violated) | `OwnResponse` fails |
| `http` | 3 requests, 1 permit, a queue of 2, thresholds 1 and 2, reset after 1 of 2 ticks | 405 000 | permits (`PoolExact`) and their calls (`LeasesFollowCalls`); order (`GrantsInOrder`); the breaker inside the client (`ImplementsBreaker`, `CoolsDown`); every request ends (`EveryRequestEnds`) |
| `wheel` | 3 timeouts of 1 to 5 on 2 slots of 2 and on the short list, host timers up to 1 late, callbacks that make any one call | 943 000 | what is pending is counted, linked and visited (`NothingLost`); less than a rotation late (`AtMostARotationLate`) |

The type invariants are part of `RegionsRestored`, `ClosedInOrder`, `CombinatorExact`, `Exact`, `DrivenByItsHost`,
`SharedExactly` and `NothingLost`; those of the modules with proofs are proved.

**Why the bounds are enough.** They are chosen so that every branch of every action is taken
(TLC's coverage says so) and so that each hazard has the actors it needs: four fibers on
one permit have every kind of effect inside while the others queue behind it, and a hand-over while a bracket
that lost its fiber is still closing (more permits are the matter of the proofs); three callers on two lanes
force the overflow lane, a lane of two slots overflows, and six calls refill a lane that has
been drained, so that slices are cut by lane creation and flushes by the budget; four nodes
nest two regions with an asynchronous operation inside and a handler
outside; two sub-scopes make both a chain and a pair of siblings; two effects and a continuation are what a
combinator forks (an empty list for `collectAllPar` is among the inputs); two producers with
batches and two consumers can have both sides queueing before and after one another; three requests
on one permit have one that holds, one that waits and one that comes or goes, and one of
them can be answered in a later round of the breaker; three safe requests of one
key give an entry with a joiner, abandoned by both, and a successor whose entry the late end
finds; with one slot every job queues behind another, which is when listeners,
cancelers and timeouts exist; two children make a sibling for restarts and escalations, and
two shutdowns make one that finds everything stopped; three fibers on two places make the
ready queue full; three entries put one before and one after the one whose callback calls the wheel, and timeouts of less than, exactly and more
than a rotation of four are among those chosen. Not reached: an eviction from the response cache needs two keys (the operator is
there, its branch is taken only in instances of two keys), and budgets larger than one restart
per window. No run uses a state constraint or symmetry; in `lifecycle` the requests that differ in their names only arrive in a
fixed order (`Earlier`), which loses no behaviour but renamed ones. What the proofs of
section 5 cover holds beyond any bound.

**Deadlock** is checked, except in `pool`, `supervisor`, `engine`, `lifecycle` and `http`, where all
tasks, children, fibers or requests may have ended. (In `wheel` time always goes on.) Elsewhere the action that stands for "nothing left to do" is explicit (`Quiescent`, `Stopped`,
`AllDone`).

### Fairness

| run | assumed | because |
|---|---|---|
| `semaphore` | a queued fiber is stepped; the child fiber of a bracket, and an effect, ends | the scheduler runs every accepted task (`EveryTaskRuns`); operations that never answer are not the semaphore's business. |
| `fiber` | queued steps run; a turn ends; the budget is positive (strong fairness of `Eval`, since `Yield` may alternate with it); the current operation answers | the same, and `operationBudget` is at least one |
| `scheduler` | the host runs callbacks it holds, and a task returns | an event loop does |
| `scope` | the closing fiber and the fiber of `scope.close()` are stepped; an interrupted fiber ends | the contract of a fiber. An effect nobody interrupts may run for ever |
| `queue` | consumers go on taking and resume | otherwise an offer rightly waits for ever. Nothing is assumed of producers |
| `pool` | the host runs every `setImmediate` callback | nothing is assumed of the timers: they may never fire |
| `supervisor` | an interrupted fiber ends, restart timers fire | the contract of a fiber; the host's timers. A running child that nobody interrupts may run for ever |
| `engine` | while a drain is pending or running, or the host owes an answer, one of these goes on | the scheduler runs what it accepted; an action that never answers blocks its fiber rightly. Deadlines need not fire |
| `lifecycle` | while a batch window is open, a call is on the wire or a retry sleeps, one of these ends | timers fire, and each call on the wire ends at least by its own timeout. Queue timeouts and cancellations need not happen |
| `wheel` | none: `Lag` bounds how late the host is, and lateness is an invariant | the property is about time |
| `http` | microtasks run, a call is answered, a request that was built is sent | the event loop; the transport. Timeouts and aborts need not happen |

## 4. Properties that are conditional, and why

Some properties hold only as long as something outside does not happen. The condition
is in the statement, never in the model: the behaviours that violate it are explored.

* `AnswersMatch`: its own answer, as long as no operation calls back twice, by itself or because its node was
  started twice (section 6); one queue entry, as long as the fiber's own code does not interrupt it.
* `RegionsRestored`: FiberRefs for exits that come through `onSuccess` or `onCause`.
* `EverythingEnds`: that all fibers get through, unless a permit leaked. `ConnectionsAccounted`: a connection is
  lost if an interrupt falls between its opening and the end of the acquire fiber, and its permit may go back before it
  is closed when the fiber is interrupted.
* `ClosedInOrder`: for scopes nobody else closes as well; complete unless a finalizer died.
* `CloseTerminates`: unless the fork of a continuation threw before `awaitAll()` was told (`unheard`).
* `SharedExactly`: one fetch per key, as long as no job was abandoned by all its callers (a job that
  ends late deletes the entry of its key, whoever's it is by then, `H/lifecycle/dedup.ts:199`); one's own part, as long
  as nobody the response answers was cancelled after the dispatch (`lifecycle_batch` shows what happens then).
* `NothingLost`, `AtMostARotationLate`: unless a callback cancelled the entry its loop goes to next, or destroyed the wheel
  with it (`disturbed`).
* `LeasesFollowCalls`, `EveryRequestEnds`: unless an abort fell between a grant and its delivery (`late`).

## 5. What is proved

TLAPS proves the following for every number of fibers, permits, lanes, capacities,
budgets and calls. The assumptions on the constants are the named `ASSUME`s of the modules.

* `BracketProofs`: of the semaphore `TypeCorrect`, `PermitsConservedTheorem` (free permits and holders add up to the
  capacity), `AtMostCapacityTheorem`, `NoLostWakeupTheorem`; of brackets `ImplementsSemaphoreTheorem` (every step of a
  bracket and its caller is a step of `Semaphore` or a stutter), `ConnectionsAccountedTheorem`; of the worker pool,
  which the module extends as well, `WorkersExactTheorem` with its parts `NoIdleWorkerTheorem` and
  `QueueIsAwaitedTheorem`, and `OneVerdictTheorem`.
* `FiberProofs`: every safety property of the fiber: `TypeCorrect` (with the bounds of its counters),
  `RegionsRestoredTheorem`, `AnswersMatchTheorem`, and `Refinement` (every step of the fiber is a step of
  `FiberContract` or a stutter).
* `SchedulerProofs`: every safety property of the scheduler: `TypeCorrect`, `LengthIsExactTheorem` (the hand-kept
  length is the number of queued tasks), `FlushWhenNeededTheorem`, `YieldsToHostTheorem`, `LanesFairTheorem`; of the
  WebAssembly engine, which the module extends as well, `DrivenByItsHostTheorem`.
* `StructuredProofs`: every safety property of scopes and combinators: `ClosedInOrderTheorem`, `CombinatorExactTheorem`.
* `HttpClientProofs`: of the breaker `CountsOfThisRoundTheorem`, `CoolsDownTheorem` (an action property);
  of the pool `PoolExactTheorem`, `GrantsInOrderTheorem` (an action property), `LeasesFollowCallsTheorem`;
  `ImplementsBreakerTheorem` (every step of the client is a step
  of `CircuitBreaker` or a stutter), and with it `ClientCoolsDown` and `ClientCountsOfThisRound`: what is proved
  of the breaker holds inside the client; of the timer wheel, which the module extends as well, `NothingLostTheorem` and
  `AtMostARotationLateTheorem`.
* `SupervisorProofs`: every safety property of the supervisor: `NothingLeftOverTheorem`, `FinalIsFinalTheorem` (an action
  property), `BudgetKeptTheorem`; of the queue, which the module extends as well, `ExactTheorem` and `FirstInFirstOutTheorem`.
* `LifecycleProofs`: every safety property of the lifecycle: `SlotsExactTheorem`, `SharedExactlyTheorem`,
  `MostUrgentFirstTheorem` (an action property).

**Semaphore.** `AtMostCapacity` counts fibers, and a step that hands a permit over says
nothing about how many there are. The inductive invariant `IInv` therefore counts permits
(`PermitsConserved`), says at which stages a fiber is a holder (`HoldersByStage`), and says
that the queue holds the suspended fibers, each once (`QueueIsTheWaiting`): without that, a
hand-over could reach a fiber that already holds a permit. `AtMostCapacity` follows because
those inside are among the holders. `NoIdlePermit` is inductive only with the rest, because
`Release` decides by the queue.

**Bracket.** The child fibers of a bracket go on after its caller is gone, so the inductive invariant `Linked` ties
the stage of the bracket to the stage of its caller: a bracket that is under way belongs to a fiber that waits for it or
that was interrupted and ended, and a fiber that has not come to its effect has no bracket and no connection. From
this the late answer meets either a fiber that waits for it or one that is over, never one that waits for something else. It stands
on `IInv` of the semaphore, whose steps are classified by what they do to the stages (`Moves`). That the
connections of fibers nobody interrupted are no more than the permits follows from `AtMostCapacity`, which holds
here because the semaphore is implemented.

**Fiber.** The program is arbitrary, so the stack holds any frames in any order. That leaving a region restores what
is around it is a fact about stacks: `MaskIn` says of a stack that every region frame saved a positive depth exactly when a
shielding region is the innermost below it, `RefIn` that the outermost FiberRef frame saved the value outside. Pushing a
frame and popping any number of them keep both (`MaskPop`, `RefPop`, `MaskPush`, `RefPush`), and every step of the
fiber does one of these or leaves the stack alone (`StepStack`). With it goes why an interrupted fiber does not end in
a success (`OnSuccessUnwinds`): when no border of a shield is passed on the way out, the depth outside all regions is 0, and
the flag is looked at there. For the rest of the state a step is reduced to what it does to it (`StepDoes`), and the invariant has one
part per mechanism. `StepsQueued`: how many entries the scheduler has besides the one `runState` stands for; at most one,
left by an own interrupt, and none once a suspended node was stepped again, for such a node uses it up and the flag
rules out another. `CallbackState`: every node that was passed was resumed by an answer, hence, when nobody calls
back twice, an answer that comes while a node waits is that node's (`OwnAnswerKeeps`). `CancelersArmed`: the armed
canceler is the current node's, so the one flag `_syncResolved` tells whether to run it; where a node was
stepped again several are armed, but then the current one is resolved before any of them can run. `TurnExit` says which exit there
is at each point of a turn; the refinement stands on it.

**Scheduler.** `FlushWhenNeeded` relates queues and host callbacks, but the code relates
`totalLength` and two flags. The inductive invariant has to carry
`LengthIsExact`; for that, no task may be in two places (`QueuedOnce`), or taking one would
lower the length by one and the set by none; and a lane with tasks must be among those the
rotation visits (also `QueuedOnce`, with `LanesCapped`), or a flush could end with tasks left and
budget unspent and ask for nothing (`EndFlushIInv`). `FlushFlags` says which flags a
flush can meet and that what the host has waited for is what the flush has run.
`LanesFair` needs a second invariant, `FairInv`. A bound on what a waiting lane has seen go says nothing of what it may
still see; `WaitIsBounded` adds the slices of the lanes the rotation looks at before it (`TurnsBefore`) and the rest of
the current slice, and that sum never exceeds a slice of each other lane. Three things make it inductive: the lane
looked at last is the one served last, or one just made, and has waited for nothing; the lanes a rotation skips are idle,
and an idle lane waits for nothing; a new lane, put behind the list, moves a waiting lane back by at most the place by which
the bound grows. For the order within a lane, every number the scheduler has seen is at most
`enqueued` (`TasksNumbered`), so the new task is the last of all.

**Scope.** A close is spread over the closing fibers of a whole tree, and `ClosedInOrder` relates scopes that share no
variable. `ScopeInv` says of each scope what its own closing knows: the fibers it owns are among those it interrupted and
awaits, or have ended (`OwnedOK`); how far the chain of finalizers has come (`ChainOK`); and that what it has still to
close are its oldest sub-scopes, the youngest of these next (`OrderOK`). What connects a sub-scope with its parent is
`LeftToParent`: as long as nobody else closes it, its phase is what the parent's turn makes it, open before its turn, the awaited one in
it, closed after it. It is inductive because a close interrupts and counts in the turn it begins in, and a scope that has
begun to close takes no new fiber or sub-scope; the order among sub-scopes follows because the list holds each once
(`TreeOK`, `StillToClose`). `ResultOK` is the same for the close that the end of the body begins: if nobody else closed the
scope, this close was the first, and its answer came after the end of it.

**Structured.** The joiners run at any moment of a close, so the steps are split in two. Those of the scopes leave the combinator alone but for
its fibers, phase and interrupts (`CombFrame`), and what these do keeps `CombInv` (`CombFrameKeeps`): above all, a close
interrupts only fibers that have not ended, hence a success stays a success. Those of the combinator are ends of its fibers, and the
scopes see only a fiber end and perhaps another start in an open scope (`FiberStep`). `CombInv` says which fibers there
are (`FibersOK`), that `order` and `exit` record their ends, and what was not decided at each stage (`ExitsOK`: a `race` that waits has seen
no end, a `collectAllPar` no failure). That no loser goes on needs both invariants: the close is queued with the answer,
or it began, and then `OwnedOK` has interrupted the loser, also one that was forked just before.

**WasmEngine.** The queue, the callbacks, the calls and the timers are kept apart from the fibers they belong to, and several
operations hold a fiber in their hands while it is in none of them: taken out of the ready queue, or answered and not queued yet.
`EngineOK(e, X)` says what holds of a state with the fibers `X` in hand, and each operation is shown to lead from one such state
to another (`EndedOK`, `EnqueueOK`, `ResumeOK`, `TakenOK`, ...); between the steps nobody is in hand (`EngineInv`). What a step does to
one fiber disturbs no other (`OneFiber`), but for a refused drain, which ends everyone queued; it owes the
host nothing, because whoever is queued waits for nothing (`DrainRefused`). To `DrivenByItsHost` the invariant adds that a callback or
a deadline belongs to a fiber that waits for it (`CallbacksOK`, `TimersOK`), and that the tokens of the calls never exceed the
fiber's, each used once (`CallsOK`): a call with an old token is one that is too late, and the next token is free.

**Queue.** `FirstInFirstOut` and `VerdictsTold` are kept by every handler only together: a value that is admitted goes behind
those buffered because the waiting ones are younger, and counts once because a waiting value is in no other place. `QueueOK(s, next)` says what
holds of the state `s` a handler works on when the values above `next` are still with its caller: there is room, or a reason
to wait (`RoomOK`); each place rises and is older than the next (`LineOK`); a value is where its verdict says (`ToldOK`); the
statistics balance (`SumsOK`). Each of the five things `Put` does with a value leads from `QueueOK(s, v - 1)` to `QueueOK(s, v)`,
each of the three of `Get` keeps it and hands out a value that was not out before (`TakenFrom`), so a batch is the same lemma
again and again, up to its last value by the least-number principle. Who sees what is kept apart: `HandedOK` says that an answer is on its way to one fiber only
and to none that is still in line, so a resumed or an interrupted fiber takes its own value out of those due and nobody else's.
`QueueInv` puts them together; TLC finds it invariant in `MCQueue` too.

**CircuitBreaker.** The code compares the clock with `openedAt`; `CoolsDown` speaks of the last
opening, which `openSince` records. `StampIsCurrent` ties the two while the circuit is open. It holds
because a failure that arrives late stamps nothing unless it opens the circuit.

**WorkerPool.** `OneVerdict` is not inductive: a task could be told, and still be in the queue or
with a worker. `Unanswered` adds that a task that waits, or that a worker has, was not told.
`NoIdleWorker` is kept by one call of `processNext()` per event only because no event leaves more
than one slot free with more than one task waiting; `ProcessNextFills` states that condition, and
each caller shows it.

**HttpClient.** `PoolExactIn` relates a counter, a set of leases and a queue, and is kept by each operator of
the pool on the condition that the request concerned is not in the pool already. The inductive
invariants supply it: `PoolInv` says that the waiters and the holders are different requests, each
once (`Members`), and the requests that have not been sent are not among them. `GrantsInOrder` follows from it: a newcomer
takes a permit only when one is free, and then nobody queues. For `LeasesFollowCalls` the invariant `LeaseInv` says of each
request whom its lease belongs to: one that will still hear of it (a "settled" task is queued, exactly one) or one that has it and
runs; that a waiter was neither aborted nor told; and that a call under way has a permit or an "abort" task that
will cancel it. A request aborted between grant and delivery falls out of this, hence `late`.

**Supervisor.** `NothingLeftOver` has two halves, and each needs more than itself. `LifeOK` is one child's
life: it adds what an unstarted child has (nothing) and that a final one has answered its `join()`;
every operation is shown to lead from a life to a life, also those that stop halfway (`Between`: the
fiber is gone, what follows is not decided). That an answered `shutdown()` left nothing behind
holds because the call never counts less than it waits for: `CallOK` says that `remaining` is at
least the number of fibers it joined, and that every child with a fiber is among them. The third part,
that a closed supervisor has no timers, is why none comes back. `FinalIsFinal` stands on the same invariant: every operation but
a launch keeps the count of launches and the exit of a child that has one (`Keeps`), and the child a timer launches has not
ended, because only one of fiber, timer and end is there. `BudgetKept` speaks of all restarts ever decided, while the code
keeps a list it prunes. `BudgetInv` ties them: the list is the end of the history, and what was pruned from it left
the window for good, because the clock only goes on. A new restart then shares a window with listed ones only, fewer than
the budget. Two facts carry it: a filter by time leaves an end of a list that stands in its order (`FilterIsEnd`), and every
operation but a planned restart leaves list and history alone (`SameTimes`).

**Lifecycle.** The slot counter is kept by hand on every way a job can leave the wire or the queue, so the inductive invariant says
where each job is. `SchedInv`, kept by each operator of the scheduler: a job is queued once or on the wire, and no two
entries have one place in the order, so that the heap has exactly one first entry (`DequeuedIsFirst`, by the least-number
principle; this and the slots give `MostUrgentFirst`). `CallersOK`: a request waits exactly as long as it is attached to one job.
`JobsOK`: a sleeping job has no place and a job not begun is nowhere, so that registering never doubles a job. For
`SharedExactly` come `PlacesOK` (a live job is somewhere; what queues or sleeps is live), `CallsOK` (a job with callers is live and not aborted,
or is the open group), `EntriesOK` (an entry leads to callers of its key; while nobody gave up, a fetch under way is the entry of
its key, so that deleting by key deletes the right one) and `PartsOK` (a dispatched group has the callers it was coalesced from,
until one leaves or all are told: then positions and requests agree).

**TimerWheel.** A callback is one more operator applied in the middle of a tick, so `WheelOK(v, running, x, R)` says what holds of
a wheel `v` inside one: in a tick of the track `running`, which goes to the entry `x` next and has the entries `R` still before it.
Each operator of the class is shown to lead from one such wheel to another (`ScheduledKeeps`, `CancelledKeeps`, `DestroyedKeeps`,
`OffKeeps`, together `WheelCallsKeep`), with the one exception `disturbed` records; the steps of a tick set up `R` (`BeginTickKeeps`), take
`x` out of it (`OffKeeps`, `StepOver`) and find it empty (`EndTickKeeps`). `LinksOK`: neighbours point to each other, and no non-empty set of pending
entries is closed under `prev`, so the lists have no circle; that a walk of as many steps as there are entries finds the whole
list (`FoundIsTheList`) is shown by the least-number principle, because a walk that stops growing has found everything (`WalkGrows`). `TimersOK`:
a track never has more host timers than entries ever scheduled on it, one less while its tick runs, so `HostTimers` always has a
free one (`RoomFor`): its size is no restriction. `LateOK` is the argument for the bound: an entry whose turn is `d` ticks away
is late by less than what the ticks already gone through can account for (`Slack`), counted from a host timer that will make the
next tick, however many chains of them there are, and not late at all when its turn comes and it is passed over.
That `None` is no number is the one assumption the constants need beyond their types. TLC finds `WheelInv` invariant in `MCTimerWheel` too.

`QueueLemmas` says what appending, removing and taking the head do to the elements and
to the injectivity of a sequence, and states the least-number principle, by which what holds of every step of a recursive
function (a filter) is shown of its result: a first exception is impossible.

**Model-checked only**: every liveness property (the prover has no `ENABLED`). Every safety property of a run that passes,
invariant or action property, is proved.

## 6. Disagreements between the code and what is said of it

Shown by a run that TLC finds violated, **`lifecycle_batch`**. A batched response is split by the requests that were coalesced and handed
out by position among the waiters still present (`H/lifecycle/batch.ts:207-211`). A caller that cancels
after the dispatch is spliced out of that list (340-343), so everyone behind it gets
the answer to its predecessor's request. Line 63: "A pending caller waiting for their
individual response from a batch."

Seen while modelling. The models have these behaviours unless said otherwise, no run is spent on them:

* `release()` of the semaphore counts the permit as taken and calls the waiter
  (`R/semaphore.ts:92-93`), but the release finalizer is registered only by the next node of
  `acquirePermit` (line 112), while the answer has disarmed the canceler. A fiber interrupted
  between the two ends with the permit, for good.
* All `Async` nodes of a fiber share one callback guarded by one flag
  (`R/fiber.ts:129`, "already handled (double-call guard)"), which the next `Async` node
  resets (line 513): a second call of an earlier operation resumes the node suspended now.
  The second call need not be the operation's fault: a node that is stepped again while it is suspended registers
  again, its operation is started twice, and the second of the two answers, each given once, resumes the next node. The
  attempt to prove `AnswersMatch` showed this: it takes five nodes (an own interrupt, a shield, a bind, two `Async` nodes),
  one more than the run has.
* A running fiber that calls its own `interrupt()` (through its scope
  or a thunk) is queued; when the turn suspends, line 169 overwrites `QUEUED` by
  `SUSPENDED` with the entry still in the queue (`R/fiber.ts:251` says a queued fiber is
  left alone).
* Inside a mask an interrupt does not queue a step; `restore(effect)` lowers
  the depth without looking at the flag (`R/fiber.ts:578`), so the restored effect suspends
  and waits for its operation, although `README.md:101` says restored sub-effects remain
  cancelable.
* A finalizer that ends with a defect ends the closing fiber, and the finalizers
  registered before it never run (`R/scope.ts:165`; `agent.md:299` says "exactly once").
* A thunk that throws in the trampoline (`R/fiber.ts:673`) calls `notify` with the frames on the
  stack: finalizers see the FiberRef value of an inner region (`agent.md:237-238`).
* A second caller of `closeAsync` is answered at once while the first close is going on
  (`R/scope.ts:192`), and a sub-scope somebody else is closing is skipped by the close of its
  parent (line 211).
* The half-open breaker lets every request through (`R/circuitBreaker.ts:151`; its line 7 says
  one), the success of a request admitted while it was closed closes it (line 107), and
  a retry of a protected effect runs while it is open (line 155), which
  `docs/guides/circuit-breaker.md` says it does not.
* `execute()` of the worker pool checks `closed` and `maxQueue` when it is called
  (`R/workerPool.ts:115,117`): effects built together all get in, and run after `shutdown()`.
* A request aborted after the pool granted its permit and before the grant was delivered has no
  canceler yet; the delivery then starts its transport, whose answer finds the request done and returns
  before releasing (`H/client.ts:719`), against the aim stated in lines 688-690. The permit is lost.
* An `Abort` is not a failure to the breaker and therefore a success (`R/circuitBreaker.ts:116-121`): an
  aborted probe closes a half-open circuit.
* A background revalidation stores through `storeIfCacheable`, which does not write the expiration kept
  beside the cache (`H/lifecycle/responseCache.ts:209-236`): the entry stays stale, and every later request
  revalidates it again.
* Escalation "shutdown" interrupts siblings without marking them: one that is planned for an all-for-one
  restart is restarted, and one on a restart timer is not touched (`R/supervisor.ts:359-363`;
  `docs/guides/supervisors.md` says that "`shutdown` interrupts sibling fibers"). An interrupt by the user can be
  overridden the same way by a restart of all.
* The interruption of a fiber that waits for a host action never lowers `pendingHostEffects`
  (`R/engine/WasmFiberEngine.ts:464-468`), and a timeout aborts the fiber's only `AbortController`
  (519-520), so that its later actions start aborted (the latter is not in the model).
* `shutdown()` of a supervisor counts the children with a fiber (`R/supervisor.ts:155`), interrupts
  them and then joins those that still have one (176-177). A fiber of the WebAssembly engine
  ends inside `interrupt()`, so nothing is left to join and the shutdown is never answered, while
  `docs/guides/supervisors.md:92-94` says it completes when the fibers have observed interruption. `MCSupervisor` with
  `SyncInterrupt = TRUE` and one call of `shutdown()` shows it (`ShutdownAnswered` fails).
* An interrupt between the opening of a connection and the end of the acquire fiber leaves it open for good
  (`R/resource.ts:47-52`): acquire is not masked. When a fiber inside `withPermit(bracket(...))` is interrupted, its
  permit goes back at once and the release runs later (line 74 only queues the close), so the guide's "At most 10 concurrent
  connections" (`docs/guides/resource-management.md`) does not hold for interrupted ones.
* `raceWith()` forks its continuation in its own scope (`S/structuredConcurrency.ts:191-194`). If that is closed by then, the fork
  throws inside a joiner: the caller is never answered, and the joiners behind it, which may be those of
  `awaitAll()`, are not told, so that the close hangs. `zipPar()` waits for both effects although its
  comment (47-52) says a failure cancels everything; `collectAllPar([])` never answers. None of the combinators has a canceler.
* In the timer wheel a callback that cancels the entry after its own leaves the loop at an unlinked entry
  (`H/timerWheel.ts:179`): the rest of the slot waits for the next time round, and if the entry saved was due, unlinking it
  again makes its missing successor the head of the slot (297), so that what is left in it never fires.
* A callback that schedules inside a tick starts a second chain of ticks (`H/timerWheel.ts:192-194, 219-223`), and an entry
  reached before its deadline waits for a whole rotation, although `timerWheel.property.test.ts:38` says
  "Timer wheel fires within 1 tick of deadline". `AtMostARotationLate` is the bound that holds.

## 7. What is not modelled

* Left out of modelled parts: the event hooks and statistics that nothing reads (except the
  queue's, which are checked); durations; the WebAssembly engine of the scheduler
  (`R/scheduler.ts:183-240, 573-619, 711-728`); how tags of tasks become lane names; a `Fork`
  node's effect on the forked fiber, which is another `Fiber`; a joiner that throws;
  the calls of `release()` without `acquire()`; a sliding queue of capacity 0, whose
  ring buffer grows past the capacity; in the supervisor a schedule that stops of itself and an effect
  thunk that throws in `launch`; `managedAll` and the combinators of `Resource`, which nest brackets; `timeout` and `retry` of
  `R/combinators.ts`, which use no scope; the third argument of the wheel's `schedule()`, an earlier reading of the clock,
  and a callback that throws, which ends the tick before it asks for the next one (`H/timerWheel.ts:181`, 192), so that what is
  pending waits for the next `schedule()`;
  in the engine its `shutdown()`, finalizers of handles, a host executor that
  throws synchronously and a fiber that interrupts itself while it registers; in the pool the WebAssembly permit
  path; in the client the adaptive limiter, requests without a pool, and the breakers of `perOrigin`, which are
  made without the exemption of `Abort` that the global one has (`H/circuitBreaker.ts:30-36`, 65-74), so that there an
  abort counts as a failure; in the lifecycle how keys are computed, a `coalesce()` that throws
  (`H/lifecycle/batch.ts:159-165`: all waiters of the group are refused and nothing is sent), a priority given by `init.priority`
  (the retry layer knows only that of the policy, `H/retry/retry.ts:201-203, 280`, and would retry with 4 whatever it was),
  retry delays and deadlines, statistics, and the calls of `cancelAll` and `shutdown`, which are sequences of modelled
  cancellations. Line 244 of `H/lifecycle/priorityScheduler.ts` is never reached: the abort listener has marked
  the entry before.
* Parts with no module yet: section 8. They are listed with their reasons in `PROJECT.json`.
* Parts that will not get one: observability, schema, agent, editor extension, benchmarks and
  examples. They have no influence on the control of the runtime, or are pure functions of
  their input, or are mostly input and output. The adaptive limiter computes with floating point.

## 8. Plan

The order is the order of dependence: what everything stands on came first (scheduler,
fiber, scope), then the primitives built on it.

1. Done: `Semaphore` and `Bracket`, `Fiber` with `FiberContract`, `Scheduler`, `Scope` and `Structured`, `Queue`,
   `CircuitBreaker`, `WorkerPool`, `Supervisor`, `WasmEngine`, `HttpPool` and `HttpClient`,
   `PriorityScheduler`, `ResponseCache` and `Lifecycle`, `TimerWheel`; the proofs of section 5.
2. `Hub` as a set of abstract queues: `subscribe()` races `shutdown()` and may add a queue to a closed hub
   (`S/hub.ts:93`). An abstract queue (one sequence, in order, each value once) that `Queue` is shown to implement comes with it.
3. The timers of `HttpClient` over `TimerWheel`, by an abstract timer that promises no more than
   `AtMostARotationLate`.
4. `EngineSlab` and `EngineTimers`: generations and stale handles in the Rust engine, under `WasmEngine`.
5. The build and release order of layers (`R/layer.ts`), and the budget semaphore of pre-warming.
6. Proofs: the refinements that items 2 and 3 add, step by step, and the invariants of item 4.
