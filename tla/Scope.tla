-------------------------------- MODULE Scope --------------------------------
(***************************************************************************)
(* Structured concurrency: core/runtime/scope.ts.  A scope owns child      *)
(* fibers, sub-scopes and finalizers.  closeAsync(), called by anybody any *)
(* number of times, interrupts the children at once and then forks a fiber *)
(* that closes the sub-scopes (youngest first), awaits the children, and   *)
(* runs the finalizers (last registered first).  withScopeAsync() runs a   *)
(* body in a scope of its own and closes it when the body ends, or when    *)
(* the one who waits for it is interrupted.                                *)
(*                                                                         *)
(* Bounds: the scopes, child fibers and callers are those of the           *)
(* constants, and MaxFinalizers finalizers are registered in all.          *)
(***************************************************************************)
EXTENDS Naturals, FiniteSets, SequencesExt

CONSTANTS Root,             \* the scope withScopeAsync() makes
          Subs,             \* the scopes that subScope() may make
          Children,         \* the fibers that fork() may start
          Callers,          \* users of closeAsync()
          CloseTargets,     \* the scopes that users close
          None,
          MaxFinalizers,
          MayDie            \* whether a finalizer may end with a defect

ASSUME ScopeAssumption ==
  /\ Root \notin Subs /\ None \notin {Root} \cup Subs /\ IsFiniteSet(Subs)
  /\ CloseTargets \subseteq {Root} \cup Subs
  /\ "body" \notin Children /\ "end" \notin Callers /\ "cancel" \notin Callers
  /\ MaxFinalizers \in Nat /\ MayDie \in BOOLEAN

Scopes == {Root} \cup Subs
OnEnd == "end"              \* the closeAsync() that withScopeAsync() calls
OnCancel == "cancel"        \* when the body ends, when it is cancelled
AllCallers == Callers \cup {OnEnd, OnCancel}

VARIABLES
  parent,        \* the scope a sub-scope was made in, or None before that
  phase,         \* of a scope: "absent", "open", then what its closing does
  subScopes,     \* sub-scopes of a scope, oldest first
  owner,         \* the scope a child fiber belongs to, or None before fork()
  ended,         \* the child fibers, and the body, that are done
  interrupted,   \* the child fibers, and the body, asked to stop
  finalizers,    \* how many a scope has registered
  todo,          \* sub-scopes that the closing of a scope has still to close
  awaited,       \* the sub-scope whose closeAsync() it waits for, or None
  kids,          \* the children it interrupted and awaits
  left,          \* finalizers it has still to run
  inFinalizer,   \* whether one of them is running
  ran,           \* the finalizers of a scope that ran, in order
  closing,       \* the scope a caller waits for, or None
  answered,      \* the scope whose closeAsync() answered the caller, or None
  result         \* of withScopeAsync(): "pending", "given", "cancelled" or "late"

Body == "body"
closeVars == <<todo, awaited, kids, left, inFinalizer>>
treeVars == <<parent, subScopes, owner, finalizers>>
callVars == <<closing, answered>>
vars == <<treeVars, closeVars, callVars, phase, ended, interrupted, ran, result>>

OpenScopes == {s \in Scopes : phase[s] = "open"}
ChildrenOf(s) == {f \in Children : owner[f] = s /\ f \notin ended}
ClosingPhases == {"subs", "children", "finalizers"}

Init ==
  /\ parent = [s \in Scopes |-> None] /\ subScopes = [s \in Scopes |-> <<>>]
  /\ phase = [s \in Scopes |-> IF s = Root THEN "open" ELSE "absent"]
  /\ owner = [f \in Children |-> None] /\ ended = {} /\ interrupted = {}
  /\ finalizers = [s \in Scopes |-> 0]
  /\ todo = [s \in Scopes |-> <<>>] /\ awaited = [s \in Scopes |-> None]
  /\ kids = [s \in Scopes |-> {}] /\ left = [s \in Scopes |-> 0]
  /\ inFinalizer = [s \in Scopes |-> FALSE] /\ ran = [s \in Scopes |-> <<>>]
  /\ closing = [c \in AllCallers |-> None] /\ answered = [c \in AllCallers |-> None]
  /\ result = "pending"

-----------------------------------------------------------------------------
(* What the code that owns an open scope may do; a closed one throws *)

\* All the finalizers that were registered.
Registered == {r \in Scopes \X (1..MaxFinalizers) : r[2] <= finalizers[r[1]]}

AddFinalizer(s) ==
  /\ s \in OpenScopes /\ Cardinality(Registered) < MaxFinalizers
  /\ finalizers' = [finalizers EXCEPT ![s] = @ + 1]
  /\ UNCHANGED <<parent, subScopes, owner, closeVars, callVars, phase, ended, interrupted,
                 ran, result>>

SubScope(s, new) ==
  /\ s \in OpenScopes /\ phase[new] = "absent"
  /\ phase' = [phase EXCEPT ![new] = "open"]
  /\ parent' = [parent EXCEPT ![new] = s]
  /\ subScopes' = [subScopes EXCEPT ![s] = Append(@, new)]
  /\ UNCHANGED <<owner, finalizers, closeVars, callVars, ended, interrupted, ran, result>>

\* Mutant: fork() forgets to look at `closed'.
MutForkIgnoresClosed(s, f) ==
  /\ phase[s] # "absent" /\ owner[f] = None
  /\ owner' = [owner EXCEPT ![f] = s]
  /\ UNCHANGED <<parent, subScopes, finalizers, closeVars, callVars, phase, ended, interrupted,
                 ran, result>>

Fork(s, f) ==
  /\ s \in OpenScopes /\ owner[f] = None
  /\ owner' = [owner EXCEPT ![f] = s]
  /\ UNCHANGED <<parent, subScopes, finalizers, closeVars, callVars, phase, ended, interrupted,
                 ran, result>>

\* A child fiber ends, by itself or because it was interrupted.  Those who
\* joined it may do something to the tree in the same turn.
FiberEnds(f) ==
  /\ owner[f] # None /\ f \notin ended
  /\ ended' = ended \cup {f}
  /\ UNCHANGED <<closeVars, callVars, phase, interrupted, ran, result>>
ChildEnds(f) == FiberEnds(f) /\ UNCHANGED treeVars

-----------------------------------------------------------------------------
(* closeAsync() *)

NothingToClose(s) == subScopes[s] = <<>> /\ ChildrenOf(s) = {} /\ finalizers[s] = 0

\* Mutant: the children are awaited but not interrupted.
MutBeginCloseInterruptsNobody(s, others) ==
  /\ kids' = [kids EXCEPT ![s] = ChildrenOf(s)]
  /\ interrupted' = interrupted \cup others
  /\ todo' = [todo EXCEPT ![s] = Reverse(subScopes[s])]
  /\ left' = [left EXCEPT ![s] = finalizers[s]]
  /\ phase' = [phase EXCEPT ![s] = IF NothingToClose(s) THEN "closed" ELSE "subs"]

\* The first call marks the scope closed, interrupts the children it has at
\* this moment (and the caller interrupts `others'), and forks the closing
\* fiber, unless there is nothing to do.
BeginClose(s, others) ==
  /\ kids' = [kids EXCEPT ![s] = ChildrenOf(s)]
  /\ interrupted' = interrupted \cup ChildrenOf(s) \cup others
  /\ todo' = [todo EXCEPT ![s] = Reverse(subScopes[s])]
  /\ left' = [left EXCEPT ![s] = finalizers[s]]
  /\ phase' = [phase EXCEPT ![s] = IF NothingToClose(s) THEN "closed" ELSE "subs"]

\* A call of closeAsync(): every call after the first is answered at once.
CallClose(c, s, others) ==
  \/ /\ phase[s] = "open" /\ BeginClose(s, others)
     /\ closing' = [closing EXCEPT ![c] = s]
     /\ UNCHANGED <<answered, awaited, inFinalizer>>
  \/ /\ phase[s] \in ClosingPhases \cup {"closed"}
     /\ answered' = [answered EXCEPT ![c] = s]
     /\ interrupted' = interrupted \cup others
     /\ UNCHANGED <<closing, closeVars, phase>>

UserCloses(c, s) ==
  /\ closing[c] = None /\ answered[c] = None
  /\ CallClose(c, s, {})
  /\ UNCHANGED <<treeVars, ended, ran, result>>

\* The closing fiber of s closes the next sub-scope, and waits only if it is
\* the first to do so.
CloseSub(s) ==
  /\ phase[s] = "subs" /\ awaited[s] = None /\ todo[s] # <<>>
  /\ LET sub == Head(todo[s])
     IN \/ /\ phase[sub] = "open"
           /\ BeginClose(sub, {})
           /\ awaited' = [awaited EXCEPT ![s] = sub]
        \/ /\ phase[sub] # "open"
           /\ todo' = [todo EXCEPT ![s] = Tail(@)]
           /\ UNCHANGED <<kids, interrupted, left, phase, awaited>>
  /\ UNCHANGED <<treeVars, callVars, ended, inFinalizer, ran, result>>

SubClosed(s) ==
  /\ phase[s] = "subs" /\ awaited[s] # None /\ phase[awaited[s]] = "closed"
  /\ awaited' = [awaited EXCEPT ![s] = None]
  /\ todo' = [todo EXCEPT ![s] = Tail(@)]
  /\ UNCHANGED <<treeVars, callVars, kids, left, inFinalizer, phase, ended, interrupted,
                 ran, result>>

Advance(s, from, to) ==
  /\ phase[s] = from /\ phase' = [phase EXCEPT ![s] = to]
  /\ UNCHANGED <<treeVars, closeVars, callVars, ended, interrupted, ran, result>>

SubsClosed(s) == awaited[s] = None /\ todo[s] = <<>> /\ Advance(s, "subs", "children")

\* awaitAll(): the last of the awaited children has told its joiner.
AwaitChildren(s) == kids[s] \subseteq ended /\ Advance(s, "children", "finalizers")

\* The chain of buildFinalizerEffect() runs the last registered one first.
NextFinalizer(s) == left[s]

StartFinalizer(s) ==
  /\ phase[s] = "finalizers" /\ left[s] > 0 /\ ~inFinalizer[s]
  /\ ran' = [ran EXCEPT ![s] = Append(@, NextFinalizer(s))]
  /\ inFinalizer' = [inFinalizer EXCEPT ![s] = TRUE]
  /\ UNCHANGED <<treeVars, callVars, todo, awaited, kids, left, phase, ended, interrupted, result>>

\* It succeeds, throws, or fails: all the same to the chain.
EndFinalizer(s) ==
  /\ inFinalizer[s]
  /\ inFinalizer' = [inFinalizer EXCEPT ![s] = FALSE]
  /\ left' = [left EXCEPT ![s] = @ - 1]
  /\ UNCHANGED <<treeVars, callVars, todo, awaited, kids, phase, ended, interrupted, ran, result>>

\* It ends with a defect, which no Fold handles: the closing fiber ends here.
FinalizerDies(s) ==
  /\ MayDie /\ inFinalizer[s]
  /\ inFinalizer' = [inFinalizer EXCEPT ![s] = FALSE]
  /\ phase' = [phase EXCEPT ![s] = "closed"]
  /\ UNCHANGED <<treeVars, callVars, todo, awaited, kids, left, ended, interrupted, ran, result>>

FinalizersDone(s) == left[s] = 0 /\ Advance(s, "finalizers", "closed")

\* The joiner of the closing fiber answers the first caller.
Answer(c) ==
  /\ closing[c] # None /\ phase[closing[c]] = "closed"
  /\ answered' = [answered EXCEPT ![c] = closing[c]]
  /\ closing' = [closing EXCEPT ![c] = None]
  /\ UNCHANGED <<treeVars, closeVars, phase, ended, interrupted, ran, result>>

-----------------------------------------------------------------------------
(* withScopeAsync() *)

\* The body ends; its joiner forks closeAsync(exit).
BodyEnds ==
  /\ Body \notin ended /\ ended' = ended \cup {Body}
  /\ CallClose(OnEnd, Root, {})
  /\ UNCHANGED <<treeVars, ran, result>>

\* The waiting fiber is interrupted: its canceler interrupts the body and forks
\* closeAsync(interrupt).
Cancel ==
  /\ result = "pending" /\ result' = "cancelled"
  /\ CallClose(OnCancel, Root, {Body})
  /\ UNCHANGED <<treeVars, ended, ran>>

\* cb(exit), once the closeAsync() of the body's end has answered; it is called
\* also when the one who waited has been cancelled.
GiveResult ==
  /\ answered[OnEnd] = Root /\ result \in {"pending", "cancelled"}
  /\ result' = IF result = "pending" THEN "given" ELSE "late"
  /\ UNCHANGED <<treeVars, closeVars, callVars, phase, ended, interrupted, ran>>

-----------------------------------------------------------------------------
OwnerSteps == \E s \in Scopes : \/ AddFinalizer(s)
                                \/ \E new \in Subs : SubScope(s, new)
                                \/ \E f \in Children : Fork(s, f)
UserCall == \E c \in Callers, s \in CloseTargets : UserCloses(c, s)
ClosingStepOf(s) ==
  \/ CloseSub(s) \/ SubClosed(s) \/ SubsClosed(s) \/ AwaitChildren(s)
  \/ StartFinalizer(s) \/ EndFinalizer(s) \/ FinalizerDies(s) \/ FinalizersDone(s)
Stopped == Body \in ended /\ result \in {"given", "late"}

-----------------------------------------------------------------------------
(* Properties *)

TypeOK ==
  /\ parent \in [Scopes -> Scopes \cup {None}] /\ subScopes \in [Scopes -> Seq(Subs)]
  /\ phase \in [Scopes -> {"absent", "open", "closed"} \cup ClosingPhases]
  /\ owner \in [Children -> Scopes \cup {None}]
  /\ ended \subseteq Children \cup {Body} /\ interrupted \subseteq Children \cup {Body}
  /\ finalizers \in [Scopes -> 0..MaxFinalizers] /\ left \in [Scopes -> 0..MaxFinalizers]
  /\ todo \in [Scopes -> Seq(Subs)] /\ awaited \in [Scopes -> Subs \cup {None}]
  /\ kids \in [Scopes -> SUBSET Children] /\ inFinalizer \in [Scopes -> BOOLEAN]
  /\ ran \in [Scopes -> Seq(1..MaxFinalizers)]
  /\ closing \in [AllCallers -> Scopes \cup {None}]
  /\ answered \in [AllCallers -> Scopes \cup {None}]
  /\ result \in {"pending", "given", "cancelled", "late"}

\* A child fiber does not outlive its scope, and it never runs beside the
\* scope's finalizers, whose resources it may be using.
NoOrphans ==
  \A s \in Scopes : phase[s] \in {"finalizers", "closed"} =>
    \A f \in Children : owner[f] = s => f \in ended

\* Finalizers run in reverse registration order, none twice, and all of them
\* unless one of them died.
LastRegisteredFirst ==
  \A s \in Scopes :
    /\ \A i \in DOMAIN ran[s] : ran[s][i] = finalizers[s] - i + 1
    /\ phase[s] = "closed" /\ left[s] = 0 => Len(ran[s]) = finalizers[s]

\* Somebody else than its parent, or the withScopeAsync() that made it, closes it.
ClosedByOthers(s) == \E c \in Callers : closing[c] = s \/ answered[c] = s

\* docs/native-roadmap-traceability.md: "LIFO child-before-parent finalizers".
ChildBeforeParent(sub) == ran[parent[sub]] # <<>> => phase[sub] = "closed"

\* The sub-scopes that were left to their parent close before its finalizers
\* run, and of two such the younger is closed, finalizers and all, before the
\* older starts its own finalizers.
SubScopesInOrder ==
  /\ \A sub \in Subs : parent[sub] # None /\ ~ClosedByOthers(sub) => ChildBeforeParent(sub)
  /\ \A s \in Scopes : \A i, j \in DOMAIN subScopes[s] :
       LET older == subScopes[s][i]
           younger == subScopes[s][j]
       IN i < j /\ ~ClosedByOthers(older) /\ ~ClosedByOthers(younger) /\ ran[older] # <<>>
          => phase[younger] = "closed"

\* The one who waits for withScopeAsync() gets the result when the scope and
\* all it owned are gone, unless somebody else was closing the scope.
ResultAfterClose == result = "given" /\ ~ClosedByOthers(Root) => phase[Root] = "closed"

\* A close is orderly: the fibers before the finalizers, children before
\* parents, the last registered first, the answer after all of it.
ClosedInOrder ==
  TypeOK /\ NoOrphans /\ LastRegisteredFirst /\ SubScopesInOrder /\ ResultAfterClose

-----------------------------------------------------------------------------
(* The inductive invariant of ClosedInOrder in StructuredProofs.           *)

Began(s) == phase[s] \notin {"absent", "open"}

\* The sub-scopes of a scope are those made in it, each once.
TreeOK ==
  /\ \A s \in Subs : phase[s] = "absent" => parent[s] = None
  /\ \A s \in Scopes : /\ IsInjective(subScopes[s])
                       /\ ToSet(subScopes[s]) = {x \in Subs : parent[x] = s}

\* A scope that is being closed has interrupted its fibers and awaits them.
OwnedOK(s) ==
  /\ Began(s) => \A f \in Children :
       owner[f] = s => f \in ended \/ (f \in kids[s] /\ f \in interrupted)
  /\ phase[s] \in {"finalizers", "closed"} => kids[s] \subseteq ended

\* How far the chain of its finalizers has come.
ChainOK(s) ==
  /\ inFinalizer[s] => phase[s] = "finalizers" /\ left[s] > 0
  /\ phase[s] \in {"absent", "open", "subs", "children"} => ran[s] = <<>>
  /\ phase[s] \in {"subs", "children"} => left[s] = finalizers[s]
  /\ phase[s] = "finalizers" =>
       Len(ran[s]) + left[s] = finalizers[s] + IF inFinalizer[s] THEN 1 ELSE 0
  /\ phase[s] = "closed" /\ left[s] = 0 => Len(ran[s]) = finalizers[s]
  /\ \A i \in DOMAIN ran[s] : ran[s][i] = finalizers[s] - i + 1

\* What it has still to close are its oldest sub-scopes, the youngest of them first.
OrderOK(s) ==
  /\ phase[s] # "subs" => todo[s] = <<>> /\ awaited[s] = None
  /\ Len(todo[s]) <= Len(subScopes[s])
  /\ \A i \in DOMAIN todo[s] : todo[s][i] = subScopes[s][Len(todo[s]) + 1 - i]
  /\ awaited[s] # None => todo[s] # <<>> /\ awaited[s] = Head(todo[s])

\* Nobody but its parent closes the sub-scope x, in its turn.
LeftToParent(x) ==
  LET p == parent[x]
  IN p # None /\ ~ClosedByOthers(x) =>
       /\ ~Began(p) => phase[x] = "open"
       /\ phase[p] = "subs" =>
            IF x \in ToSet(todo[p]) THEN phase[x] = "open" \/ awaited[p] = x
            ELSE phase[x] = "closed"
       /\ phase[p] \in {"children", "finalizers", "closed"} => phase[x] = "closed"

\* The end of the body waits for the close it began.
ResultOK ==
  /\ Body \notin ended => closing[OnEnd] = None /\ answered[OnEnd] = None
  /\ result \in {"pending", "given"} /\ ~ClosedByOthers(Root) =>
       /\ Began(Root) => Body \in ended
       /\ answered[OnEnd] # None => phase[Root] = "closed"
  /\ closing[OnEnd] \in {None, Root}
  /\ result = "given" => answered[OnEnd] # None

\* A user calls once, and has an answer or waits for it.
CallsOK == \A c \in Callers : closing[c] = None \/ answered[c] = None

ScopeInv ==
  /\ TypeOK /\ TreeOK /\ ResultOK /\ CallsOK
  /\ \A s \in Scopes : OwnedOK(s) /\ ChainOK(s) /\ OrderOK(s)
  /\ \A x \in Subs : LeftToParent(x)
=============================================================================
