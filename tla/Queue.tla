-------------------------------- MODULE Queue --------------------------------
(***************************************************************************)
(* The bounded queue of core/stream/queue.ts, between fibers that offer    *)
(* values and fibers that take them.  A full queue lets an offer wait,     *)
(* refuses it, or drops its oldest value, according to its strategy; an    *)
(* empty one lets a take wait.  A waiting fiber may be interrupted, and so *)
(* may one whose answer is on its way: a fiber resumes in a later step     *)
(* than the one that answered it.                                          *)
(*                                                                         *)
(* A value is named by its place in the order of the offers; MaxOffers     *)
(* bounds them.  `queue' holds the state of the closure makeQueue(); the   *)
(* operators on it are its handlers, without the clocks of its statistics. *)
(***************************************************************************)
EXTENDS Naturals, FiniteSets, SequencesExt

CONSTANTS Producers, Consumers, None, Closed,
          Settings,      \* the pairs <<capacity, strategy>> to start from
          BatchSize, MaxOffers

ASSUME QueueAssumption ==
  /\ Settings \subseteq Nat \X {"backpressure", "dropping", "sliding"}
  /\ \A s \in Settings : s[2] = "sliding" => s[1] > 0
  /\ BatchSize \in Nat /\ MaxOffers \in Nat
  /\ None \notin 1..MaxOffers /\ Closed \notin 1..MaxOffers /\ None # Closed

VARIABLES
  setting,       \* capacity and strategy
  queue,         \* items, waiting offers, waiting takers, counters
  verdict,       \* what the offer of each value was told
  inbox,         \* the answer a taker's callback got, until its fiber resumes
  passed,        \* history: the values handed to takers, in order
  gone,          \* history: accepted values that slid out or were discarded
  received, lost \* history: handed values that a fiber saw, or was interrupted before

queueVars == <<setting, queue, verdict, inbox, passed, gone, received, lost>>

capacity == setting[1]
strategy == setting[2]
Values == 1..MaxOffers
Offer(p, v) == [by |-> p, value |-> v]
ValuesOf(offers) == [i \in DOMAIN offers |-> offers[i].value]

\* The whole state a handler works on, so that a batch can apply one again and again.
State == [queue |-> queue, verdict |-> verdict, inbox |-> inbox, passed |-> passed,
          gone |-> gone, received |-> received]
Becomes(s) ==
  /\ queue' = s.queue /\ verdict' = s.verdict /\ inbox' = s.inbox
  /\ passed' = s.passed /\ gone' = s.gone /\ received' = s.received

QueueInit ==
  /\ setting \in Settings
  /\ queue = [items |-> <<>>, offers |-> <<>>, takers |-> <<>>, closed |-> FALSE,
              offered |-> 0, accepted |-> 0, dropped |-> 0, slid |-> 0, discarded |-> 0,
              taken |-> 0, cancelledOffers |-> 0]
  /\ verdict = [v \in Values |-> "unsent"] /\ inbox = [c \in Consumers |-> None]
  /\ passed = <<>> /\ gone = {} /\ received = {} /\ lost = {}

Full(q) == Len(q.items) >= capacity

-----------------------------------------------------------------------------
(* offer(), offerBatch() *)

Refuse(s, v) ==
  [s EXCEPT !.queue.dropped = @ + 1, !.verdict[v] = "refused"]

\* A taker waits: the value goes to the oldest one.
HandOver(s, v) ==
  LET c == Head(s.queue.takers)
  IN [s EXCEPT !.queue.takers = Tail(@), !.queue.taken = @ + 1, !.queue.accepted = @ + 1,
               !.inbox[c] = v, !.passed = Append(@, v), !.verdict[v] = "accepted"]

Store(s, v) ==
  [s EXCEPT !.queue.items = Append(@, v), !.queue.accepted = @ + 1, !.verdict[v] = "accepted"]

\* sliding: the oldest value makes room.
Slide(s, v) ==
  [s EXCEPT !.queue.items = Append(Tail(@), v), !.queue.accepted = @ + 1,
            !.queue.slid = @ + 1, !.gone = @ \cup {Head(s.queue.items)}, !.verdict[v] = "accepted"]

Wait(s, p, v) ==
  [s EXCEPT !.queue.offers = Append(@, Offer(p, v)), !.verdict[v] = "pending"]

\* One value, by offer() or in a batch; a batch never waits.
Put(s, p, v, mayWait) ==
  CASE s.queue.closed -> Refuse(s, v)
    [] ~s.queue.closed /\ s.queue.takers # <<>> -> HandOver(s, v)
    [] ~s.queue.closed /\ s.queue.takers = <<>> /\ ~Full(s.queue) -> Store(s, v)
    [] OTHER -> CASE strategy = "dropping" -> Refuse(s, v)
                  [] strategy = "sliding" -> Slide(s, v)
                  [] OTHER -> IF mayWait THEN Wait(s, p, v) ELSE Refuse(s, v)

Counted(n) == [State EXCEPT !.queue.offered = @ + n]
IsOffering(p) == \E i \in DOMAIN queue.offers : queue.offers[i].by = p

OfferOne(p) ==
  /\ ~IsOffering(p) /\ queue.offered < MaxOffers
  /\ Becomes(Put(Counted(1), p, queue.offered + 1, TRUE))
  /\ UNCHANGED <<setting, lost>>

OfferBatch(p) ==
  /\ ~IsOffering(p) /\ queue.offered + BatchSize <= MaxOffers
  /\ LET put[i \in 0..BatchSize] ==
           IF i = 0 THEN Counted(BatchSize) ELSE Put(put[i - 1], p, queue.offered + i, FALSE)
     IN Becomes(put[BatchSize])
  /\ UNCHANGED <<setting, lost>>

-----------------------------------------------------------------------------
(* take(), takeBatch() *)

\* A freed slot goes to the oldest waiting offer.
Admit(s) ==
  IF s.queue.offers # <<>> /\ ~Full(s.queue)
  THEN Store([s EXCEPT !.queue.offers = Tail(@)], Head(s.queue.offers).value)
  ELSE s

\* Mutant: a waiting offer goes before the buffered items.
MutGetOffersFirst(s) ==
  IF s.queue.offers # <<>>
  THEN LET v == Head(s.queue.offers).value
       IN [s EXCEPT !.queue.offers = Tail(@), !.queue.accepted = @ + 1, !.queue.taken = @ + 1,
                    !.verdict[v] = "accepted", !.passed = Append(@, v)]
  ELSE [s EXCEPT !.queue.items = Tail(@), !.queue.taken = @ + 1,
                 !.passed = Append(@, Head(s.queue.items))]

\* The oldest value: an item, or the value of a waiting offer (capacity 0).
Get(s) ==
  IF s.queue.items # <<>>
  THEN Admit([s EXCEPT !.queue.items = Tail(@), !.queue.taken = @ + 1,
                       !.passed = Append(@, Head(s.queue.items))])
  ELSE LET v == Head(s.queue.offers).value
       IN [s EXCEPT !.queue.offers = Tail(@), !.queue.accepted = @ + 1, !.queue.taken = @ + 1,
                    !.verdict[v] = "accepted", !.passed = Append(@, v)]

\* Mutant: a take looks at the buffer only.
MutAvailableInBuffer == Len(queue.items)

Available == Len(queue.items) + Len(queue.offers)
MayTake(c) == inbox[c] = None /\ c \notin ToSet(queue.takers)
Answered(s, c, answer) == [s EXCEPT !.inbox[c] = answer]

Take(c) ==
  /\ MayTake(c)
  /\ \/ Available > 0 /\ Becomes(LET s == Get(State) IN Answered(s, c, Last(s.passed)))
     \/ Available = 0 /\ queue.closed /\ Becomes(Answered(State, c, Closed))
     \/ Available = 0 /\ ~queue.closed /\ Becomes([State EXCEPT !.queue.takers = Append(@, c)])
  /\ UNCHANGED <<setting, lost>>

\* takeBatch(n) never waits, and its fiber has the values in the same step; it
\* fails (changing nothing) when the queue is closed and empty.
TakeBatch(c) ==
  /\ MayTake(c) /\ Available > 0
  /\ LET n == IF BatchSize < Available THEN BatchSize ELSE Available
         got[i \in 0..n] == IF i = 0 THEN State ELSE Get(got[i - 1])
         new == ToSet(got[n].passed) \ ToSet(passed)
     IN Becomes([got[n] EXCEPT !.received = @ \cup new])
  /\ UNCHANGED <<setting, lost>>

-----------------------------------------------------------------------------
(* shutdown(), and the fibers that wait *)

\* Takers fail, waiting offers are told false, items are discarded.
CloseAll(s) ==
  LET waiting == ToSet(ValuesOf(s.queue.offers))
  IN [s EXCEPT !.queue.closed = TRUE, !.queue.takers = <<>>, !.queue.items = <<>>,
               !.queue.offers = <<>>, !.queue.dropped = @ + Len(s.queue.offers),
               !.queue.discarded = @ + Len(s.queue.items), !.gone = @ \cup ToSet(s.queue.items),
               !.verdict = [v \in Values |-> IF v \in waiting THEN "refused" ELSE @[v]],
               !.inbox = [c \in Consumers |-> IF c \in ToSet(s.queue.takers) THEN Closed ELSE @[c]]]

ShutdownQueue ==
  /\ ~queue.closed /\ Becomes(CloseAll(State))
  /\ UNCHANGED <<setting, lost>>

\* The fiber of a taker goes on with its answer.
Resume(c) ==
  /\ inbox[c] # None
  /\ Becomes([State EXCEPT !.inbox[c] = None,
                           !.received = IF inbox[c] = Closed THEN @ ELSE @ \cup {inbox[c]}])
  /\ UNCHANGED <<setting, lost>>

\* Mutant: a cancelled offer stays in line.
MutCancelOfferKeepsNode(s, i) ==
  [s EXCEPT !.queue.cancelledOffers = @ + 1, !.verdict[s.queue.offers[i].value] = "cancelled"]

\* The canceler of a waiting offer.
CancelOffer(s, i) ==
  [s EXCEPT !.queue.offers = RemoveAt(@, i), !.queue.cancelledOffers = @ + 1,
            !.verdict[s.queue.offers[i].value] = "cancelled"]

InterruptProducer(p) ==
  /\ \E i \in DOMAIN queue.offers : queue.offers[i].by = p /\ Becomes(CancelOffer(State, i))
  /\ UNCHANGED <<setting, lost>>

\* A waiting taker leaves the line; one already answered never sees its value.
InterruptConsumer(c) ==
  \/ /\ c \in ToSet(queue.takers)
     /\ Becomes([State EXCEPT !.queue.takers = RemoveFirst(@, c)])
     /\ UNCHANGED <<setting, lost>>
  \/ /\ inbox[c] # None
     /\ lost' = lost \cup ({inbox[c]} \ {Closed})
     /\ Becomes([State EXCEPT !.inbox[c] = None])
     /\ UNCHANGED setting

QueueNext ==
  \/ \E p \in Producers : OfferOne(p) \/ OfferBatch(p) \/ InterruptProducer(p)
  \/ \E c \in Consumers : Take(c) \/ TakeBatch(c) \/ Resume(c) \/ InterruptConsumer(c)
  \/ ShutdownQueue

QueueSpec == QueueInit /\ [][QueueNext]_queueVars

\* Somebody goes on taking; nothing is assumed of those who offer.
FairSpec == QueueSpec /\ \A c \in Consumers : WF_queueVars(Resume(c)) /\ WF_queueVars(Take(c))

-----------------------------------------------------------------------------
(* Properties *)

Answers == Values \cup {None, Closed}
Verdicts == {"unsent", "pending", "accepted", "refused", "cancelled"}
Offers == [by : Producers, value : Values]
QueueStates ==
  [items : Seq(Values), offers : Seq(Offers), takers : Seq(Consumers), closed : BOOLEAN,
   offered : Nat, accepted : Nat, dropped : Nat, slid : Nat, discarded : Nat,
   taken : Nat, cancelledOffers : Nat]
States ==
  [queue : QueueStates, verdict : [Values -> Verdicts], inbox : [Consumers -> Answers],
   passed : Seq(Values), gone : SUBSET Values, received : SUBSET Values]

TypeOK ==
  /\ setting \in Settings /\ State \in States /\ lost \subseteq Values
  /\ Len(queue.items) <= capacity

\* Nobody waits for what is there: a taker waits only when there is neither an
\* item nor a waiting offer, an offer waits only when the queue is full, and
\* neither waits for a closed queue.
NobodyWaitsInVain ==
  /\ queue.takers # <<>> => Available = 0
  /\ queue.offers # <<>> => Full(queue) /\ strategy = "backpressure"
  /\ queue.closed => queue.takers = <<>> /\ Available = 0

\* First offered, first taken: the values handed out, those buffered and those
\* still waiting to be let in are in the order in which they were offered, and
\* no value is in two places.  What a sliding queue let go is older than what it
\* keeps.
FirstInFirstOut ==
  LET line == passed \o queue.items \o ValuesOf(queue.offers)
  IN /\ \A i, j \in DOMAIN line : i < j => line[i] < line[j]
     /\ ~queue.closed => \A v \in gone, w \in ToSet(queue.items) : v < w

\* What an offer was told is true: an accepted value is buffered, handed out or
\* in the losses the strategy and the shutdown account for; a refused or
\* cancelled one is nowhere; a pending one is in line.  The statistics,
\* incremented by hand on every path, agree with that and balance.
VerdictsTold ==
  LET told(x) == {v \in Values : verdict[v] = x}
  IN /\ told("accepted") = ToSet(passed) \cup ToSet(queue.items) \cup gone
     /\ told("pending") = ToSet(ValuesOf(queue.offers))
     /\ gone \cap ToSet(passed \o queue.items) = {}
     /\ queue.offered = queue.accepted + queue.dropped + queue.cancelledOffers + Len(queue.offers)
     /\ queue.accepted = queue.taken + Len(queue.items) + queue.slid + queue.discarded
     /\ queue.accepted = Cardinality(told("accepted")) /\ queue.taken = Len(passed)

\* A value handed out reaches one fiber, or was on its way to one that was
\* interrupted before it could resume.
HandedOnce ==
  LET due == {inbox[c] : c \in Consumers} \ {None, Closed}
  IN /\ ToSet(passed) = received \cup due \cup lost
     /\ received \cap (due \cup lost) = {} /\ due \cap lost = {}

\* No value is lost, handed out twice or reported wrongly, at either end.
Accounted == TypeOK /\ HandedOnce /\ VerdictsTold

\* Nobody waits for what is there, and what the others were told is true.
Exact == NobodyWaitsInVain /\ Accounted

\* The inductive invariant: what a handler keeps of the state s it works on when the
\* values above `next' are still in the hands of its caller.  In between two
\* values of a batch all of it holds.
Buffered(s) == ToSet(s.queue.items)
Waiting(s) == ToSet(ValuesOf(s.queue.offers))
Out(s) == ToSet(s.passed)
Accepted(s) == {v \in Values : s.verdict[v] = "accepted"}
Rising(x) == \A i, j \in DOMAIN x : i < j => x[i] < x[j]
Older(A, B) == \A v \in A, w \in B : v < w

\* Nobody waits in vain, and the buffer has its bound.
RoomOK(s) ==
  /\ Len(s.queue.items) <= capacity
  /\ s.queue.takers # <<>> => s.queue.items = <<>> /\ s.queue.offers = <<>>
  /\ s.queue.offers # <<>> => Full(s.queue) /\ strategy = "backpressure"
  /\ s.queue.closed => s.queue.takers = <<>> /\ s.queue.items = <<>> /\ s.queue.offers = <<>>

\* Each place is in order, and what is in one is older than what is in the next.
LineOK(s) ==
  /\ Rising(s.passed) /\ Rising(s.queue.items) /\ Rising(ValuesOf(s.queue.offers))
  /\ Older(Out(s), Buffered(s)) /\ Older(Out(s), Waiting(s)) /\ Older(Buffered(s), Waiting(s))
  /\ ~s.queue.closed => Older(s.gone, Buffered(s) \cup Waiting(s))

\* A value is where its verdict says.
ToldOK(s, next) ==
  /\ \A v \in Values :
       /\ s.verdict[v] = "accepted" <=> v \in Out(s) \cup Buffered(s) \cup s.gone
       /\ s.verdict[v] = "pending" <=> v \in Waiting(s)
       /\ s.verdict[v] = "unsent" <=> v > next
  /\ s.gone \cap (Out(s) \cup Buffered(s)) = {}

\* The statistics balance.
SumsOK(s, next) ==
  LET q == s.queue
  IN /\ next = q.accepted + q.dropped + q.cancelledOffers + Len(q.offers)
     /\ q.accepted = q.taken + Len(q.items) + q.slid + q.discarded
     /\ q.accepted = Cardinality(Accepted(s))
     /\ q.taken = Len(s.passed)

\* An answer is on its way to one fiber only, and none to one that waits.
HandedOK(s, unseen) ==
  LET due == {s.inbox[c] : c \in Consumers} \cap Values
  IN /\ IsInjective(s.queue.takers)
     /\ \A c \in ToSet(s.queue.takers) : s.inbox[c] = None
     /\ \A c, d \in Consumers : s.inbox[c] = s.inbox[d] /\ s.inbox[c] \in Values => c = d
     /\ Out(s) = s.received \cup due \cup unseen
     /\ s.received \cap (due \cup unseen) = {} /\ due \cap unseen = {}

QueueOK(s, next) == s \in States /\ RoomOK(s) /\ LineOK(s) /\ ToldOK(s, next) /\ SumsOK(s, next)
QueueInv ==
  /\ setting \in Settings /\ lost \subseteq Values
  /\ QueueOK(State, queue.offered) /\ HandedOK(State, lost)

\* While somebody takes, an offer does not wait for ever.
EveryOfferTold == \A v \in Values : verdict[v] = "pending" ~> verdict[v] # "pending"
=============================================================================
