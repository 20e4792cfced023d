-------------------------- MODULE StructuredProofs --------------------------
(***************************************************************************)
(* Proofs about Scope and Structured: a close is orderly (ClosedInOrder),  *)
(* and a combinator answers exactly (CombinatorExact), for any scopes,     *)
(* fibers, users and number of finalizers.                                 *)
(*                                                                         *)
(* ScopeInv relates what a closing has still to do to what it owns;        *)
(* CombInv relates the ends a combinator has seen to what it answered.     *)
(* The steps of the scopes come first, then what they leave alone of the   *)
(* combinator (CombFrame), then the steps of the combinator.               *)
(***************************************************************************)
EXTENDS Structured, QueueLemmas

\* What a scope has still to close, each once.
LEMMA TodoOnce ==
  ASSUME ScopeInv, NEW s \in Scopes
  PROVE  /\ todo[s] \in Seq(Subs) /\ IsInjective(todo[s])
         /\ ToSet(todo[s]) \subseteq {x \in Subs : parent[x] = s}
<1>1. PICK q, t : q = todo[s] /\ t = subScopes[s]
  OBVIOUS
<1>2. /\ q \in Seq(Subs) /\ t \in Seq(Subs) /\ IsInjective(t) /\ Len(q) <= Len(t)
      /\ \A i \in DOMAIN q : q[i] = t[Len(q) + 1 - i]
      /\ ToSet(t) = {x \in Subs : parent[x] = s}
  BY <1>1 DEF ScopeInv, TypeOK, TreeOK, OrderOK
<1>3. Len(q) \in Nat /\ Len(t) \in Nat /\ DOMAIN q = 1..Len(q) /\ DOMAIN t = 1..Len(t)
  BY <1>2
<1>4. \A i \in 1..Len(q) : Len(q) + 1 - i \in 1..Len(t)
  BY <1>2, <1>3
<1>5. IsInjective(q)
  <2> SUFFICES ASSUME NEW i \in 1..Len(q), NEW j \in 1..Len(q), q[i] = q[j] PROVE i = j
    BY <1>3 DEF IsInjective
  <2>1. t[Len(q) + 1 - i] = t[Len(q) + 1 - j]
    BY <1>2, <1>3
  <2>2. Len(q) + 1 - i = Len(q) + 1 - j
    <3>1. PICK m, n : m = Len(q) + 1 - i /\ n = Len(q) + 1 - j
      OBVIOUS
    <3>2. m \in DOMAIN t /\ n \in DOMAIN t /\ t[m] = t[n]
      BY <1>3, <1>4, <2>1, <3>1
    <3> QED
      BY <1>2, <3>1, <3>2 DEF IsInjective
  <2> QED
    BY <1>3, <2>2
<1>6. ToSet(q) \subseteq ToSet(t)
  BY <1>2, <1>3, <1>4 DEF ToSet
<1> QED
  BY <1>1, <1>2, <1>5, <1>6

\* A scope that nobody else closes and that is neither open nor closed is the one
\* its parent waits for.
LEMMA AwaitedByParent ==
  ASSUME ScopeInv, NEW x \in Subs, parent[x] # None, ~ClosedByOthers(x),
         Began(x), phase[x] # "closed"
  PROVE  /\ phase[parent[x]] = "subs" /\ awaited[parent[x]] = x
         /\ x \in ToSet(todo[parent[x]])
<1>1. PICK p \in Scopes : p = parent[x]
  BY DEF ScopeInv, TypeOK, Scopes
<1>2. phase[p] \in {"absent", "open", "closed", "subs", "children", "finalizers"}
  BY DEF ScopeInv, TypeOK, ClosingPhases
<1> QED
  BY <1>1, <1>2 DEF ScopeInv, LeftToParent, Began

-----------------------------------------------------------------------------
(* Steps of the closing fiber of one scope *)

OwnStep(s) ==
  /\ UNCHANGED <<treeVars, callVars, ended, interrupted, result, kids>>
  /\ \A x \in Scopes \ {s} :
       /\ phase'[x] = phase[x] /\ todo'[x] = todo[x] /\ awaited'[x] = awaited[x]
       /\ left'[x] = left[x] /\ inFinalizer'[x] = inFinalizer[x] /\ ran'[x] = ran[x]
  /\ Began(s) /\ Began(s)' /\ phase[s] # "closed"

LEMMA OwnStepKeeps ==
  ASSUME ScopeInv, NEW s \in Scopes, OwnStep(s), TypeOK',
         OwnedOK(s)', ChainOK(s)', OrderOK(s)',
         \A x \in Subs : parent[x] = s => LeftToParent(x)'
  PROVE  ScopeInv'
<1>1. TreeOK'
  BY DEF ScopeInv, TreeOK, OwnStep, treeVars, Began, Scopes
<1>2. ResultOK' /\ CallsOK'
  BY DEF ScopeInv, ResultOK, CallsOK, OwnStep, callVars, Began, ClosedByOthers, Scopes
<1>3. ASSUME NEW t \in Scopes \ {s} PROVE OwnedOK(t)' /\ ChainOK(t)' /\ OrderOK(t)'
  <2>1. OwnedOK(t)'
    BY <1>3 DEF ScopeInv, OwnedOK, OwnStep, treeVars, Began
  <2>2. ChainOK(t)'
    BY <1>3 DEF ScopeInv, ChainOK, OwnStep, treeVars
  <2>3. OrderOK(t)'
    <3>1. /\ todo'[t] = todo[t] /\ awaited'[t] = awaited[t] /\ phase'[t] = phase[t]
          /\ subScopes'[t] = subScopes[t]
      BY <1>3 DEF OwnStep, treeVars
    <3>2. OrderOK(t)
      BY DEF ScopeInv
    <3> QED
      BY <3>1, <3>2 DEF OrderOK
  <2> QED
    BY <2>1, <2>2, <2>3
<1>4. ASSUME NEW x \in Subs, parent[x] # s PROVE LeftToParent(x)'
  <2>1. SUFFICES ASSUME parent[x] # None, ~ClosedByOthers(x)
                 PROVE  LeftToParent(x)'
    BY DEF LeftToParent, OwnStep, treeVars, callVars, ClosedByOthers
  <2>2. PICK p \in Scopes : p = parent[x] /\ p # s
    BY <1>4, <2>1 DEF ScopeInv, TypeOK, Scopes
  <2>3. /\ parent'[x] = p /\ phase'[p] = phase[p] /\ awaited'[p] = awaited[p]
        /\ todo'[p] = todo[p] /\ (Began(p)' <=> Began(p))
    BY <2>2 DEF OwnStep, treeVars, Began
  <2>4. CASE x = s
    <3>1. phase[p] = "subs" /\ awaited[p] = x /\ x \in ToSet(todo[p])
      BY <2>1, <2>2, <2>4, AwaitedByParent DEF OwnStep
    <3> QED
      BY <2>3, <3>1 DEF LeftToParent, Began
  <2>5. CASE x # s
    <3>1. phase'[x] = phase[x]
      BY <2>5 DEF OwnStep, Scopes
    <3> QED
      BY <2>1, <2>2, <2>3, <3>1 DEF ScopeInv, LeftToParent
  <2> QED
    BY <2>4, <2>5
<1> QED
  BY <1>1, <1>2, <1>3, <1>4 DEF ScopeInv, OwnStep

\* A step of the chain of finalizers, or between the parts of the close, leaves
\* the sub-scopes alone.
LEMMA SubsAlone ==
  ASSUME ScopeInv, NEW s \in Scopes, OwnStep(s),
         UNCHANGED <<todo, awaited>>,
         phase[s] = phase'[s] \/ phase'[s] \in {"children", "finalizers", "closed"},
         phase[s] # "subs" \/ todo[s] = <<>>,
         NEW x \in Subs, parent[x] = s
  PROVE  LeftToParent(x)'
<1>1. SUFFICES ASSUME ~ClosedByOthers(x) PROVE LeftToParent(x)'
  BY DEF LeftToParent, OwnStep, callVars, ClosedByOthers
<1>2. phase[x] = "closed"
  <2>1. LeftToParent(x) /\ parent[x] # None /\ Began(s)
    BY ScopeAssumption DEF ScopeInv, OwnStep, Scopes
  <2>2. phase[s] \in {"subs", "children", "finalizers", "closed"}
    BY DEF ScopeInv, TypeOK, OwnStep, Began, ClosingPhases
  <2>3. x \notin ToSet(todo[s]) \/ phase[s] # "subs"
    BY DEF ToSet
  <2> QED
    BY <1>1, <2>1, <2>2, <2>3 DEF LeftToParent
<1>3. x # s /\ phase'[x] = "closed"
  BY <1>2 DEF OwnStep, Scopes
<1>4. parent'[x] = s /\ Began(s)' /\ (phase'[s] = "subs" => phase[s] = "subs" /\ todo'[s] = <<>>)
  <2>1. phase[s] = "subs" => todo[s] = <<>>
    OBVIOUS
  <2> QED
    BY <2>1 DEF OwnStep, treeVars
<1> QED
  BY <1>3, <1>4 DEF LeftToParent, ToSet

LEMMA SubsClosedStep == ASSUME ScopeInv, NEW s \in Scopes, SubsClosed(s) PROVE ScopeInv'
<1>1. /\ phase[s] = "subs" /\ phase' = [phase EXCEPT ![s] = "children"]
      /\ awaited[s] = None /\ todo[s] = <<>>
      /\ UNCHANGED <<treeVars, closeVars, callVars, ended, interrupted, ran, result>>
  BY DEF SubsClosed, Advance
<1>2. phase \in [Scopes -> {"absent", "open", "closed"} \cup ClosingPhases]
  BY DEF ScopeInv, TypeOK
<1>3. OwnStep(s)
  BY <1>1, <1>2 DEF OwnStep, closeVars, Began
<1>4. TypeOK'
  BY <1>1, <1>2 DEF ScopeInv, TypeOK, treeVars, closeVars, callVars, ClosingPhases
<1>5. phase'[s] = "children"
  BY <1>1, <1>2
<1>6. OwnedOK(s)' /\ ChainOK(s)' /\ OrderOK(s)'
  BY <1>1, <1>5 DEF ScopeInv, OwnedOK, ChainOK, OrderOK, treeVars, closeVars, Began
<1> QED
  BY <1>1, <1>3, <1>4, <1>5, <1>6, OwnStepKeeps, SubsAlone DEF closeVars

LEMMA AwaitChildrenStep == ASSUME ScopeInv, NEW s \in Scopes, AwaitChildren(s) PROVE ScopeInv'
<1>1. /\ phase[s] = "children" /\ phase' = [phase EXCEPT ![s] = "finalizers"]
      /\ kids[s] \subseteq ended
      /\ UNCHANGED <<treeVars, closeVars, callVars, ended, interrupted, ran, result>>
  BY DEF AwaitChildren, Advance
<1>2. phase \in [Scopes -> {"absent", "open", "closed"} \cup ClosingPhases]
  BY DEF ScopeInv, TypeOK
<1>3. OwnStep(s)
  BY <1>1, <1>2 DEF OwnStep, closeVars, Began
<1>4. TypeOK'
  BY <1>1, <1>2 DEF ScopeInv, TypeOK, treeVars, closeVars, callVars, ClosingPhases
<1>5. phase'[s] = "finalizers"
  BY <1>1, <1>2
<1>6. OwnedOK(s)' /\ ChainOK(s)' /\ OrderOK(s)'
  <2>1. finalizers[s] \in Nat /\ left[s] \in Nat
    BY DEF ScopeInv, TypeOK
  <2> QED
    BY <1>1, <1>5, <2>1 DEF ScopeInv, OwnedOK, ChainOK, OrderOK, treeVars, closeVars, Began
<1> QED
  BY <1>1, <1>3, <1>4, <1>5, <1>6, OwnStepKeeps, SubsAlone DEF closeVars

LEMMA StartFinalizerStep == ASSUME ScopeInv, NEW s \in Scopes, StartFinalizer(s) PROVE ScopeInv'
<1>1. /\ phase[s] = "finalizers" /\ left[s] > 0 /\ ~inFinalizer[s]
      /\ ran' = [ran EXCEPT ![s] = Append(@, left[s])]
      /\ inFinalizer' = [inFinalizer EXCEPT ![s] = TRUE]
      /\ UNCHANGED <<treeVars, callVars, todo, awaited, kids, left, phase, ended, interrupted, result>>
  BY DEF StartFinalizer, NextFinalizer
<1>2. /\ left[s] \in 1..MaxFinalizers /\ finalizers[s] \in Nat /\ MaxFinalizers \in Nat
      /\ ran[s] \in Seq(1..MaxFinalizers) /\ ran \in [Scopes -> Seq(1..MaxFinalizers)]
      /\ inFinalizer \in [Scopes -> BOOLEAN]
  BY <1>1, ScopeAssumption DEF ScopeInv, TypeOK
<1>3. OwnStep(s)
  BY <1>1, <1>2 DEF OwnStep, Began
<1>4. PICK q, r : q = ran[s] /\ r = Append(q, left[s])
  OBVIOUS
<1>5. /\ r \in Seq(1..MaxFinalizers) /\ Len(r) = Len(q) + 1 /\ r[Len(q) + 1] = left[s]
      /\ Len(q) \in Nat /\ DOMAIN r = 1..(Len(q) + 1) /\ DOMAIN q = 1..Len(q)
      /\ \A i \in 1..Len(q) : r[i] = q[i]
  BY <1>2, <1>4
<1>6. ran'[s] = r /\ ran' \in [Scopes -> Seq(1..MaxFinalizers)] /\ inFinalizer'[s] = TRUE
  BY <1>1, <1>2, <1>4, <1>5
<1>7. TypeOK'
  BY <1>1, <1>2, <1>6 DEF ScopeInv, TypeOK, treeVars, callVars
<1>8. ChainOK(s)'
  <2>0. PICK n, l, m : n = finalizers[s] /\ l = left[s] /\ m = Len(q)
    OBVIOUS
  <2>1. /\ n \in Nat /\ l \in Nat /\ m \in Nat /\ m + l = n
        /\ \A i \in 1..m : q[i] = n - i + 1
    BY <1>1, <1>2, <1>4, <1>5, <2>0 DEF ScopeInv, ChainOK
  <2>2. ASSUME NEW i \in 1..(m + 1) PROVE r[i] = n - i + 1
    <3>1. CASE i = m + 1
      BY <1>5, <2>0, <2>1, <3>1
    <3>2. CASE i # m + 1
      <4>1. i \in 1..m
        BY <2>1, <3>2
      <4> QED
        BY <1>5, <2>0, <2>1, <4>1
    <3> QED
      BY <3>1, <3>2
  <2>3. Len(r) + l = n + 1
    BY <1>5, <2>0, <2>1
  <2> QED
    BY <1>1, <1>2, <1>5, <1>6, <2>0, <2>2, <2>3 DEF ChainOK, treeVars
<1>9. OwnedOK(s)' /\ OrderOK(s)'
  BY <1>1 DEF ScopeInv, OwnedOK, OrderOK, treeVars, Began
<1> QED
  BY <1>1, <1>3, <1>7, <1>8, <1>9, OwnStepKeeps, SubsAlone

LEMMA EndFinalizerStep == ASSUME ScopeInv, NEW s \in Scopes, EndFinalizer(s) PROVE ScopeInv'
<1>1. /\ inFinalizer[s] /\ inFinalizer' = [inFinalizer EXCEPT ![s] = FALSE]
      /\ left' = [left EXCEPT ![s] = @ - 1]
      /\ UNCHANGED <<treeVars, callVars, todo, awaited, kids, phase, ended, interrupted, ran, result>>
  BY DEF EndFinalizer
<1>2. /\ phase[s] = "finalizers" /\ left[s] \in 1..MaxFinalizers /\ finalizers[s] \in Nat
      /\ MaxFinalizers \in Nat /\ left \in [Scopes -> 0..MaxFinalizers]
      /\ inFinalizer \in [Scopes -> BOOLEAN] /\ Len(ran[s]) \in Nat
      /\ Len(ran[s]) + left[s] = finalizers[s] + 1
  BY <1>1, ScopeAssumption DEF ScopeInv, TypeOK, ChainOK
<1>3. OwnStep(s)
  BY <1>1, <1>2 DEF OwnStep, Began
<1>4. /\ inFinalizer'[s] = FALSE /\ left'[s] = left[s] - 1
      /\ left' \in [Scopes -> 0..MaxFinalizers] /\ inFinalizer' \in [Scopes -> BOOLEAN]
  BY <1>1, <1>2
<1>5. TypeOK'
  BY <1>1, <1>4 DEF ScopeInv, TypeOK, treeVars, callVars
<1>6. ChainOK(s)'
  <2>1. Len(ran[s]) + left'[s] = finalizers[s] + 0
    <3>1. PICK n, l, m : n = finalizers[s] /\ l = left[s] /\ m = Len(ran[s])
      OBVIOUS
    <3>2. n \in Nat /\ l \in Nat /\ m \in Nat /\ m + l = n + 1
      BY <1>2, <3>1
    <3>3. m + (l - 1) = n + 0
      BY <3>2
    <3> QED
      BY <1>4, <3>1, <3>3
  <2> QED
    BY <1>1, <1>2, <1>4, <2>1 DEF ScopeInv, ChainOK, treeVars
<1>7. OwnedOK(s)' /\ OrderOK(s)'
  BY <1>1 DEF ScopeInv, OwnedOK, OrderOK, treeVars, Began
<1> QED
  BY <1>1, <1>2, <1>3, <1>5, <1>6, <1>7, OwnStepKeeps, SubsAlone

\* The chain has run to its end, or one of them has died.
LEMMA ChainEndsStep ==
  ASSUME ScopeInv, NEW s \in Scopes, FinalizerDies(s) \/ FinalizersDone(s) PROVE ScopeInv'
<1>1. /\ phase' = [phase EXCEPT ![s] = "closed"]
      /\ \/ inFinalizer' = [inFinalizer EXCEPT ![s] = FALSE]
         \/ left[s] = 0 /\ inFinalizer' = inFinalizer
      /\ UNCHANGED <<treeVars, callVars, todo, awaited, kids, left, ended, interrupted, ran, result>>
      /\ inFinalizer[s] \/ (left[s] = 0 /\ phase[s] = "finalizers")
  BY DEF FinalizerDies, FinalizersDone, Advance, closeVars
<1>2. /\ phase[s] = "finalizers" /\ left[s] \in Nat /\ finalizers[s] \in Nat /\ Len(ran[s]) \in Nat
      /\ phase \in [Scopes -> {"absent", "open", "closed"} \cup ClosingPhases]
      /\ inFinalizer \in [Scopes -> BOOLEAN]
      /\ left[s] = 0 => Len(ran[s]) = finalizers[s] /\ ~inFinalizer[s]
  BY <1>1, ScopeAssumption DEF ScopeInv, TypeOK, ChainOK
<1>3. OwnStep(s)
  BY <1>1, <1>2 DEF OwnStep, Began
<1>4. /\ inFinalizer'[s] = FALSE /\ inFinalizer' \in [Scopes -> BOOLEAN] /\ phase'[s] = "closed"
      /\ phase' \in [Scopes -> {"absent", "open", "closed"} \cup ClosingPhases]
  BY <1>1, <1>2
<1>5. TypeOK'
  BY <1>1, <1>4 DEF ScopeInv, TypeOK, treeVars, callVars
<1>6. ChainOK(s)'
  BY <1>1, <1>2, <1>4 DEF ScopeInv, ChainOK, treeVars
<1>7. OwnedOK(s)' /\ OrderOK(s)'
  BY <1>1, <1>2, <1>4 DEF ScopeInv, OwnedOK, OrderOK, treeVars, Began
<1> QED
  BY <1>1, <1>2, <1>3, <1>4, <1>5, <1>6, <1>7, OwnStepKeeps, SubsAlone

\* The sub-scope at the head of `todo' is closed, by this scope or by others.
LEMMA NextSubStep ==
  ASSUME ScopeInv, NEW s \in Scopes, phase[s] = "subs", todo[s] # <<>>,
         awaited' = [awaited EXCEPT ![s] = None], todo' = [todo EXCEPT ![s] = Tail(@)],
         UNCHANGED <<treeVars, callVars, kids, left, inFinalizer, phase, ended, interrupted,
                     ran, result>>,
         phase[Head(todo[s])] = "closed" \/ ClosedByOthers(Head(todo[s]))
  PROVE  ScopeInv'
<1>1. PICK q, h : q = todo[s] /\ h = Head(q)
  OBVIOUS
<1>2. /\ q \in Seq(Subs) /\ IsInjective(q) /\ h \in ToSet(q) /\ Tail(q) \in Seq(Subs)
      /\ ToSet(Tail(q)) = ToSet(q) \ {h} /\ ToSet(q) \subseteq {x \in Subs : parent[x] = s}
  BY <1>1, TodoOnce, TailNode
<1>3. todo \in [Scopes -> Seq(Subs)] /\ awaited \in [Scopes -> Subs \cup {None}]
  BY DEF ScopeInv, TypeOK
<1>4. /\ todo'[s] = Tail(q) /\ awaited'[s] = None
      /\ todo' \in [Scopes -> Seq(Subs)] /\ awaited' \in [Scopes -> Subs \cup {None}]
  BY <1>1, <1>2, <1>3
<1>5. OwnStep(s)
  BY <1>3 DEF OwnStep, Began
<1>6. TypeOK'
  BY <1>4 DEF ScopeInv, TypeOK, treeVars, callVars
<1>7. OrderOK(s)'
  <2>1. PICK t : t = subScopes[s]
    OBVIOUS
  <2>2. Len(q) <= Len(t) /\ (\A i \in DOMAIN q : q[i] = t[Len(q) + 1 - i]) /\ Len(t) \in Nat
    <3>1. t \in Seq(Subs)
      BY <2>1 DEF ScopeInv, TypeOK
    <3> QED
      BY <1>1, <2>1, <3>1 DEF ScopeInv, OrderOK
  <2>3. /\ Len(Tail(q)) = Len(q) - 1 /\ Len(q) \in Nat /\ DOMAIN q = 1..Len(q)
        /\ DOMAIN Tail(q) = 1..(Len(q) - 1) /\ \A i \in 1..(Len(q) - 1) : Tail(q)[i] = q[i + 1]
    BY <1>1, <1>2
  <2>4. ASSUME NEW i \in 1..(Len(q) - 1) PROVE Tail(q)[i] = t[Len(Tail(q)) + 1 - i]
    <3>1. i + 1 \in DOMAIN q /\ Len(q) + 1 - (i + 1) = Len(Tail(q)) + 1 - i
      BY <2>3
    <3> QED
      BY <2>2, <2>3, <3>1
  <2>5. Len(Tail(q)) <= Len(t)
    BY <2>2, <2>3
  <2> QED
    BY <1>4, <2>1, <2>3, <2>4, <2>5 DEF OrderOK, treeVars
<1>8. OwnedOK(s)' /\ ChainOK(s)'
  BY DEF ScopeInv, OwnedOK, ChainOK, treeVars, Began
<1>9. ASSUME NEW x \in Subs, parent[x] = s PROVE LeftToParent(x)'
  <2>1. SUFFICES ASSUME ~ClosedByOthers(x) PROVE LeftToParent(x)'
    BY DEF LeftToParent, callVars, ClosedByOthers
  <2>2. LeftToParent(x) /\ s # None
    BY ScopeAssumption DEF ScopeInv, Scopes
  <2>3. CASE x = h
    <3>1. phase[x] = "closed" /\ x \notin ToSet(Tail(q))
      BY <1>1, <1>2, <2>1, <2>3
    <3> QED
      BY <1>4, <1>9, <3>1 DEF LeftToParent, treeVars, Began
  <2>4. CASE x # h
    <3>1. x \in ToSet(Tail(q)) <=> x \in ToSet(q)
      BY <1>2, <2>4
    <3>2. awaited[s] # x
      BY <1>1, <2>4, ScopeAssumption DEF ScopeInv, OrderOK, Scopes
    <3>3. IF x \in ToSet(q) THEN phase[x] = "open" ELSE phase[x] = "closed"
      BY <1>1, <1>9, <2>1, <2>2, <3>2 DEF LeftToParent
    <3> QED
      BY <1>4, <1>9, <3>1, <3>3 DEF LeftToParent, treeVars, Began
  <2> QED
    BY <2>3, <2>4
<1> QED
  BY <1>5, <1>6, <1>7, <1>8, <1>9, OwnStepKeeps

LEMMA SubClosedStep == ASSUME ScopeInv, NEW s \in Scopes, SubClosed(s) PROVE ScopeInv'
<1>1. todo[s] # <<>> /\ awaited[s] = Head(todo[s])
  BY DEF ScopeInv, OrderOK, SubClosed
<1> QED
  BY <1>1, NextSubStep DEF SubClosed

-----------------------------------------------------------------------------
(* The beginning of a close *)

\* What the first closeAsync() of the scope t does, whoever calls it.
Begin(t, others) ==
  /\ phase[t] = "open" /\ BeginClose(t, others) /\ others \subseteq {Body}
  /\ UNCHANGED <<treeVars, inFinalizer, ran>>
  /\ ended \subseteq ended' /\ ended' \subseteq ended \cup {Body}

LEMMA BeginPhase ==
  ASSUME ScopeInv, NEW t \in Scopes, NEW others, Begin(t, others)
  PROVE  /\ phase' \in [Scopes -> {"absent", "open", "closed"} \cup ClosingPhases]
         /\ phase'[t] \in {"closed", "subs"} /\ Began(t)'
         /\ phase'[t] = "closed" <=> NothingToClose(t)
         /\ \A x \in Scopes \ {t} : phase'[x] = phase[x] /\ (Began(x)' <=> Began(x))
<1>1. phase \in [Scopes -> {"absent", "open", "closed"} \cup ClosingPhases]
  BY DEF ScopeInv, TypeOK
<1>2. phase' = [phase EXCEPT ![t] = IF NothingToClose(t) THEN "closed" ELSE "subs"]
  BY DEF Begin, BeginClose
<1>3. phase'[t] = IF NothingToClose(t) THEN "closed" ELSE "subs"
  BY <1>1, <1>2
<1> QED
  BY <1>1, <1>2, <1>3 DEF Began, ClosingPhases

LEMMA ReverseNode ==
  ASSUME NEW S, NEW q \in Seq(S)
  PROVE  /\ Reverse(q) \in Seq(S) /\ Len(Reverse(q)) = Len(q)
         /\ \A i \in 1..Len(q) : Reverse(q)[i] = q[Len(q) + 1 - i]
         /\ ToSet(Reverse(q)) = ToSet(q)
<1> DEFINE r == Reverse(q)
<1>1. Len(q) \in Nat /\ DOMAIN q = 1..Len(q)
  OBVIOUS
<1>2. \A i \in 1..Len(q) : (Len(q) - i) + 1 \in 1..Len(q) /\ (Len(q) - i) + 1 = Len(q) + 1 - i
  BY <1>1
<1>3. r = [i \in 1..Len(q) |-> q[(Len(q) - i) + 1]]
  BY DEF Reverse
<1>4. r \in Seq(S) /\ Len(r) = Len(q) /\ \A i \in 1..Len(q) : r[i] = q[Len(q) + 1 - i]
  BY <1>1, <1>2, <1>3
<1>5. DOMAIN r = 1..Len(q)
  BY <1>3
<1> HIDE DEF r
<1>6. ToSet(r) \subseteq ToSet(q)
  BY <1>1, <1>2, <1>4, <1>5 DEF ToSet
<1>7. ASSUME NEW e \in ToSet(q) PROVE e \in ToSet(r)
  <2>1. PICK i \in 1..Len(q) : q[i] = e
    BY <1>1 DEF ToSet
  <2>2. PICK k : k = Len(q) + 1 - i
    OBVIOUS
  <2>3. k \in 1..Len(q) /\ Len(q) + 1 - k = i
    BY <1>1, <2>2
  <2>4. r[k] = e
    BY <1>4, <2>1, <2>3
  <2> QED
    BY <1>5, <2>3, <2>4 DEF ToSet
<1> QED
  BY <1>4, <1>6, <1>7 DEF r

LEMMA BeginTodo ==
  ASSUME ScopeInv, NEW t \in Scopes, NEW others, Begin(t, others)
  PROVE  /\ todo' \in [Scopes -> Seq(Subs)]
         /\ \A x \in Scopes \ {t} : todo'[x] = todo[x]
         /\ Len(todo'[t]) = Len(subScopes[t]) /\ Len(subScopes[t]) \in Nat
         /\ \A i \in 1..Len(subScopes[t]) : todo'[t][i] = subScopes[t][Len(subScopes[t]) + 1 - i]
         /\ DOMAIN todo'[t] = 1..Len(subScopes[t])
         /\ ToSet(todo'[t]) = {x \in Subs : parent[x] = t}
         /\ phase'[t] = "closed" => todo'[t] = <<>> /\ subScopes[t] = <<>>
<1>1. PICK q, r : q = subScopes[t] /\ r = Reverse(q)
  OBVIOUS
<1>2. q \in Seq(Subs) /\ ToSet(q) = {x \in Subs : parent[x] = t} /\ todo \in [Scopes -> Seq(Subs)]
  BY <1>1 DEF ScopeInv, TypeOK, TreeOK
<1>3. /\ r \in Seq(Subs) /\ Len(r) = Len(q)
      /\ \A i \in 1..Len(q) : r[i] = q[Len(q) + 1 - i]
      /\ ToSet(r) = ToSet(q)
  BY <1>1, <1>2, ReverseNode
<1>4. DOMAIN r = 1..Len(q) /\ Len(q) \in Nat
  BY <1>2, <1>3
<1>5. todo' = [todo EXCEPT ![t] = r]
  BY <1>1 DEF Begin, BeginClose
<1>6. todo'[t] = r /\ todo' \in [Scopes -> Seq(Subs)] /\ \A x \in Scopes \ {t} : todo'[x] = todo[x]
  BY <1>2, <1>3, <1>5
<1>7. phase'[t] = "closed" => r = <<>> /\ q = <<>>
  <2>1. phase'[t] = "closed" => q = <<>>
    BY <1>1, BeginPhase DEF NothingToClose
  <2>2. q = <<>> => r = <<>>
    BY <1>2, <1>3
  <2> QED
    BY <2>1, <2>2
<1> QED
  BY <1>1, <1>2, <1>3, <1>4, <1>6, <1>7

\* The closing of t itself, and of the others but for what they await.
LEMMA BeginScopes ==
  ASSUME ScopeInv, NEW t \in Scopes, NEW others, Begin(t, others)
  PROVE  /\ TreeOK'
         /\ \A s \in Scopes : OwnedOK(s)' /\ ChainOK(s)'
         /\ \A s \in Scopes : awaited'[s] = awaited[s] => OrderOK(s)'
         /\ kids' \in [Scopes -> SUBSET Children] /\ left' \in [Scopes -> 0..MaxFinalizers]
         /\ interrupted' \subseteq Children \cup {Body} /\ ended' \subseteq Children \cup {Body}
<1>1. /\ kids \in [Scopes -> SUBSET Children] /\ left \in [Scopes -> 0..MaxFinalizers]
      /\ finalizers \in [Scopes -> 0..MaxFinalizers] /\ interrupted \subseteq Children \cup {Body}
      /\ ended \subseteq Children \cup {Body}
  BY DEF ScopeInv, TypeOK
<1>2. /\ kids' = [kids EXCEPT ![t] = ChildrenOf(t)] /\ left' = [left EXCEPT ![t] = finalizers[t]]
      /\ interrupted' = interrupted \cup ChildrenOf(t) \cup others
      /\ ended \subseteq ended' /\ ended' \subseteq ended \cup {Body}
      /\ UNCHANGED <<treeVars, inFinalizer, ran>> /\ phase[t] = "open" /\ others \subseteq {Body}
  BY DEF Begin, BeginClose
<1>3. /\ phase'[t] \in {"closed", "subs"} /\ Began(t)'
      /\ phase'[t] = "closed" <=> NothingToClose(t)
      /\ \A x \in Scopes \ {t} : phase'[x] = phase[x] /\ (Began(x)' <=> Began(x))
  BY BeginPhase
<1>4. TreeOK'
  BY <1>2, <1>3 DEF ScopeInv, TreeOK, treeVars, Scopes
<1>5. /\ kids'[t] = ChildrenOf(t) /\ left'[t] = finalizers[t]
      /\ \A x \in Scopes \ {t} : kids'[x] = kids[x] /\ left'[x] = left[x]
      /\ kids' \in [Scopes -> SUBSET Children] /\ left' \in [Scopes -> 0..MaxFinalizers]
  BY <1>1, <1>2 DEF ChildrenOf
<1>6. interrupted' \subseteq Children \cup {Body} /\ ended' \subseteq Children \cup {Body}
  BY <1>1, <1>2 DEF ChildrenOf
<1>7. ASSUME NEW s \in Scopes PROVE OwnedOK(s)' /\ ChainOK(s)'
  <2>1. CASE s = t
    <3>1. OwnedOK(t)'
      BY <1>2, <1>3, <1>5 DEF OwnedOK, ChildrenOf, treeVars, NothingToClose
    <3>2. ~inFinalizer[t] /\ ran[t] = <<>> /\ finalizers[t] \in Nat
      BY <1>1, <1>2 DEF ScopeInv, ChainOK
    <3>3. ChainOK(t)'
      BY <1>2, <1>3, <1>5, <3>2 DEF ChainOK, treeVars, NothingToClose
    <3> QED
      BY <2>1, <3>1, <3>3
  <2>2. CASE s # t
    <3>1. OwnedOK(s)'
      BY <1>2, <1>3, <1>5, <2>2 DEF ScopeInv, OwnedOK, treeVars
    <3>2. ChainOK(s)'
      BY <1>2, <1>3, <1>5, <2>2 DEF ScopeInv, ChainOK, treeVars
    <3> QED
      BY <3>1, <3>2
  <2> QED
    BY <2>1, <2>2
<1>8. ASSUME NEW s \in Scopes, awaited'[s] = awaited[s] PROVE OrderOK(s)'
  <2>1. CASE s = t
    <3>1. awaited[t] = None
      BY <1>2 DEF ScopeInv, OrderOK
    <3>2. UNCHANGED subScopes
      BY <1>2 DEF treeVars
    <3> QED
      <4>1. PICK q, r : q = subScopes[t] /\ r = todo'[t]
        OBVIOUS
      <4>2. /\ Len(r) = Len(q) /\ Len(q) \in Nat /\ DOMAIN r = 1..Len(q)
            /\ \A i \in 1..Len(q) : r[i] = q[Len(q) + 1 - i]
            /\ phase'[t] = "closed" => r = <<>>
        BY <4>1, BeginTodo
      <4>3. /\ Len(r) <= Len(q) /\ \A i \in DOMAIN r : r[i] = q[Len(r) + 1 - i]
        BY <4>2
      <4>4. phase'[t] # "subs" => r = <<>>
        BY <1>3, <4>2
      <4> QED
        BY <1>8, <2>1, <3>1, <3>2, <4>1, <4>3, <4>4 DEF OrderOK
  <2>2. CASE s # t
    <3>1. todo'[s] = todo[s] /\ phase'[s] = phase[s] /\ subScopes' = subScopes
      BY <1>2, <1>3, <2>2, BeginTodo DEF treeVars
    <3> QED
      BY <1>8, <3>1 DEF ScopeInv, OrderOK
  <2> QED
    BY <2>1, <2>2
<1> QED
  BY <1>4, <1>5, <1>6, <1>7, <1>8

\* The sub-scopes: those of t are now to be closed by t, and t itself is closed
\* by its parent, which awaits it, or by others.
LEMMA BeginSubs ==
  ASSUME ScopeInv, NEW t \in Scopes, NEW others, Begin(t, others),
         \A x \in Subs : ClosedByOthers(x) => ClosedByOthers(x)',
         \/ awaited' = awaited /\ (t \in Subs => ClosedByOthers(t)')
         \/ \E p \in Scopes \ {t} :
              /\ t \in Subs /\ parent[t] = p /\ awaited' = [awaited EXCEPT ![p] = t]
              /\ phase[p] = "subs" /\ t \in ToSet(todo[p]) /\ awaited[p] = None,
         NEW x \in Subs
  PROVE  LeftToParent(x)'
<1>1. SUFFICES ASSUME ~ClosedByOthers(x), ~ClosedByOthers(x)', parent[x] # None
               PROVE  LeftToParent(x)'
  BY DEF LeftToParent, Begin, treeVars
<1>2. PICK p \in Scopes : p = parent[x]
  BY <1>1 DEF ScopeInv, TypeOK, Scopes
<1>3. /\ phase'[t] \in {"closed", "subs"} /\ Began(t)' /\ phase[t] = "open"
      /\ \A y \in Scopes \ {t} : phase'[y] = phase[y] /\ (Began(y)' <=> Began(y))
  BY BeginPhase DEF Begin
<1>4. parent'[x] = p /\ LeftToParent(x) /\ p # None /\ x # None /\ x \in Scopes
  BY <1>1, <1>2, ScopeAssumption DEF ScopeInv, Begin, treeVars, Scopes
<1>5. awaited \in [Scopes -> Subs \cup {None}]
  BY DEF ScopeInv, TypeOK
<1>6. CASE x = t
  <2>1. PICK q \in Scopes \ {t} : /\ parent[t] = q /\ awaited' = [awaited EXCEPT ![q] = t]
                                  /\ phase[q] = "subs" /\ t \in ToSet(todo[q])
    BY <1>1, <1>6
  <2>2. q = p /\ phase'[p] = "subs" /\ Began(p)' /\ awaited'[p] = x /\ todo'[p] = todo[p]
    BY <1>2, <1>3, <1>5, <1>6, <2>1, BeginTodo DEF Began
  <2> QED
    BY <1>4, <1>6, <2>1, <2>2 DEF LeftToParent
<1>7. CASE x # t /\ p = t
  <2>1. phase'[x] = "open"
    BY <1>1, <1>2, <1>3, <1>4, <1>7 DEF LeftToParent, Began
  <2>2. x \in ToSet(todo'[t]) /\ phase'[t] # "closed"
    <3>1. x \in ToSet(todo'[t])
      <4>1. ToSet(todo'[t]) = {y \in Subs : parent[y] = t}
        BY BeginTodo
      <4> QED
        BY <1>2, <1>7, <4>1
    <3>2. todo'[t] # <<>>
      BY <3>1 DEF ToSet
    <3> QED
      BY <3>1, <3>2, BeginTodo
  <2> QED
    BY <1>3, <1>4, <1>7, <2>1, <2>2 DEF LeftToParent
<1>8. CASE x # t /\ p # t
  <2>1. /\ phase'[x] = phase[x] /\ phase'[p] = phase[p] /\ (Began(p)' <=> Began(p))
        /\ todo'[p] = todo[p]
    BY <1>3, <1>4, <1>8, BeginTodo
  <2>2. awaited[p] = x => awaited'[p] = x
    BY <1>4, <1>5
  <2> QED
    BY <1>1, <1>2, <1>4, <2>1, <2>2 DEF LeftToParent
<1> QED
  BY <1>6, <1>7, <1>8

LEMMA CloseSubStep == ASSUME ScopeInv, NEW s \in Scopes, CloseSub(s) PROVE ScopeInv'
<1>1. PICK sub : sub = Head(todo[s])
  OBVIOUS
<1>2. /\ phase[s] = "subs" /\ awaited[s] = None /\ todo[s] # <<>>
      /\ UNCHANGED <<treeVars, callVars, ended, inFinalizer, ran, result>>
  BY DEF CloseSub
<1>3. /\ sub \in ToSet(todo[s]) /\ sub \in Subs /\ parent[sub] = s /\ sub \in Scopes
      /\ s # None /\ sub # None
  <2>1. PICK q : q = todo[s]
    OBVIOUS
  <2>2. q \in Seq(Subs) /\ IsInjective(q) /\ ToSet(q) \subseteq {x \in Subs : parent[x] = s}
    BY <2>1, TodoOnce
  <2>3. sub \in ToSet(q)
    BY <1>1, <1>2, <2>1, <2>2, TailNode
  <2> QED
    BY <2>1, <2>2, <2>3, ScopeAssumption DEF Scopes
<1>4. awaited \in [Scopes -> Subs \cup {None}]
  BY DEF ScopeInv, TypeOK
<1>5. CASE phase[sub] # "open"
  <2>1. /\ todo' = [todo EXCEPT ![s] = Tail(@)]
        /\ UNCHANGED <<kids, interrupted, left, phase, awaited>>
    BY <1>1, <1>5 DEF CloseSub
  <2>2. awaited' = [awaited EXCEPT ![s] = None]
    BY <1>2, <1>4, <2>1
  <2>3. ClosedByOthers(sub)
    BY <1>2, <1>3, <1>5 DEF ScopeInv, LeftToParent
  <2> QED
    BY <1>1, <1>2, <2>1, <2>2, <2>3, NextSubStep
<1>6. CASE phase[sub] = "open"
  <2>1. BeginClose(sub, {}) /\ awaited' = [awaited EXCEPT ![s] = sub]
    BY <1>1, <1>6 DEF CloseSub
  <2>2. Begin(sub, {})
    BY <1>2, <1>6, <2>1 DEF Begin
  <2>3. \A x \in Subs : ClosedByOthers(x) => ClosedByOthers(x)'
    BY <1>2 DEF callVars, ClosedByOthers
  <2>4. sub # s
    BY <1>2, <1>6
  <2>5. \A x \in Subs : LeftToParent(x)'
    <3>1. \E p \in Scopes \ {sub} :
            /\ sub \in Subs /\ parent[sub] = p /\ awaited' = [awaited EXCEPT ![p] = sub]
            /\ phase[p] = "subs" /\ sub \in ToSet(todo[p]) /\ awaited[p] = None
      BY <1>2, <1>3, <2>1, <2>4
    <3> QED
      BY <1>3, <2>2, <2>3, <3>1, BeginSubs
  <2>6. OrderOK(s)'
    <3>1. /\ awaited'[s] = sub /\ todo'[s] = todo[s] /\ phase'[s] = phase[s]
          /\ subScopes' = subScopes
      BY <1>2, <1>3, <1>4, <2>1, <2>2, <2>4, BeginPhase, BeginTodo DEF treeVars
    <3> QED
      BY <1>1, <1>2, <3>1 DEF ScopeInv, OrderOK
  <2>7. \A x \in Scopes : x # s => awaited'[x] = awaited[x]
    BY <1>4, <2>1
  <2>8. \A x \in Scopes : OwnedOK(x)' /\ ChainOK(x)' /\ OrderOK(x)'
    BY <1>3, <2>2, <2>6, <2>7, BeginScopes
  <2>9. TypeOK'
    <3>1. awaited' \in [Scopes -> Subs \cup {None}]
      BY <1>3, <1>4, <2>1
    <3> QED
      BY <1>2, <1>3, <2>2, <3>1, BeginPhase, BeginTodo, BeginScopes
         DEF ScopeInv, TypeOK, treeVars, callVars
  <2>10. ResultOK' /\ CallsOK'
    <3>1. sub # Root
      BY <1>3, ScopeAssumption
    <3>2. phase'[Root] = phase[Root] /\ (Began(Root)' <=> Began(Root))
      BY <1>3, <2>2, <3>1, BeginPhase DEF Scopes
    <3> QED
      BY <1>2, <3>2 DEF ScopeInv, ResultOK, CallsOK, ClosedByOthers, callVars
  <2> QED
    BY <1>3, <2>2, <2>5, <2>8, <2>9, <2>10, BeginScopes DEF ScopeInv
<1> QED
  BY <1>5, <1>6

-----------------------------------------------------------------------------
(* Calls of closeAsync() and their answers *)

\* What was asked to be closed by others stays so.
CallersKeep == /\ \A x \in Scopes : ClosedByOthers(x) => ClosedByOthers(x)'
               /\ closing' \in [AllCallers -> Scopes \cup {None}]
               /\ answered' \in [AllCallers -> Scopes \cup {None}]

\* Nothing happens to the scopes themselves.
LEMMA QuietScopes ==
  ASSUME ScopeInv, UNCHANGED <<treeVars, closeVars, phase, ran>>,
         ended \subseteq ended', interrupted \subseteq interrupted',
         ended' \subseteq Children \cup {Body}, interrupted' \subseteq Children \cup {Body},
         result' \in {"pending", "given", "cancelled", "late"},
         CallersKeep, CallsOK', ResultOK'
  PROVE  ScopeInv'
<1>1. TypeOK'
  BY DEF ScopeInv, TypeOK, treeVars, closeVars, CallersKeep
<1>2. TreeOK'
  BY DEF ScopeInv, TreeOK, treeVars
<1>3. \A s \in Scopes : OwnedOK(s)' /\ ChainOK(s)' /\ OrderOK(s)'
  <2> TAKE s \in Scopes
  <2>1. OwnedOK(s)'
    BY DEF ScopeInv, OwnedOK, treeVars, closeVars, Began
  <2>2. ChainOK(s)'
    BY DEF ScopeInv, ChainOK, treeVars, closeVars
  <2>3. OrderOK(s)'
    BY DEF ScopeInv, OrderOK, treeVars, closeVars
  <2> QED
    BY <2>1, <2>2, <2>3
<1>4. \A x \in Subs : LeftToParent(x)'
  <2> SUFFICES ASSUME NEW x \in Subs PROVE LeftToParent(x)'
    OBVIOUS
  <2>1. ~ClosedByOthers(x)' => ~ClosedByOthers(x)
    BY DEF CallersKeep, Scopes
  <2>2. LeftToParent(x)
    BY DEF ScopeInv
  <2> QED
    BY <2>1, <2>2 DEF LeftToParent, treeVars, closeVars, Began
<1> QED
  BY <1>1, <1>2, <1>3, <1>4 DEF ScopeInv

\* The first call for the scope s: by a user, or for the Root.
LEMMA FirstCall ==
  ASSUME ScopeInv, NEW s \in Scopes, NEW others, Begin(s, others), awaited' = awaited,
         s \in Subs => ClosedByOthers(s)',
         result' \in {"pending", "given", "cancelled", "late"},
         CallersKeep, CallsOK', ResultOK'
  PROVE  ScopeInv'
<1>1. TypeOK'
  BY BeginPhase, BeginTodo, BeginScopes DEF ScopeInv, TypeOK, Begin, treeVars, CallersKeep
<1>2. \A x \in Scopes : OwnedOK(x)' /\ ChainOK(x)' /\ OrderOK(x)'
  BY BeginScopes
<1>3. \A x \in Subs : ClosedByOthers(x) => ClosedByOthers(x)'
  BY DEF CallersKeep, Scopes
<1>4. \A x \in Subs : LeftToParent(x)'
  BY <1>3, BeginSubs
<1> QED
  BY <1>1, <1>2, <1>4, BeginScopes DEF ScopeInv

LEMMA UserClosesStep ==
  ASSUME ScopeInv, NEW c \in Callers, NEW s \in Scopes, UserCloses(c, s) PROVE ScopeInv'
<1>1. /\ closing[c] = None /\ answered[c] = None /\ CallClose(c, s, {})
      /\ UNCHANGED <<treeVars, ended, ran, result>>
  BY DEF UserCloses
<1>2. /\ closing \in [AllCallers -> Scopes \cup {None}] /\ answered \in [AllCallers -> Scopes \cup {None}]
      /\ ended \subseteq Children \cup {Body} /\ interrupted \subseteq Children \cup {Body}
      /\ result \in {"pending", "given", "cancelled", "late"}
  BY DEF ScopeInv, TypeOK
<1>3. /\ c \in AllCallers /\ c # OnEnd /\ OnEnd \in AllCallers /\ s # None
      /\ \A x \in Scopes : x # None /\ Callers \subseteq AllCallers
  BY ScopeAssumption DEF AllCallers, OnEnd, OnCancel, Scopes
<1>4. /\ \/ closing' = [closing EXCEPT ![c] = s] /\ answered' = answered
         \/ answered' = [answered EXCEPT ![c] = s] /\ closing' = closing
  BY <1>1 DEF CallClose
<1>5. ClosedByOthers(s)'
  BY <1>2, <1>3, <1>4 DEF ClosedByOthers
<1>6. CallersKeep
  BY <1>1, <1>2, <1>3, <1>4 DEF CallersKeep, ClosedByOthers
<1>7. CallsOK'
  BY <1>1, <1>2, <1>3, <1>4 DEF ScopeInv, CallsOK
<1>8. closing'[OnEnd] = closing[OnEnd] /\ answered'[OnEnd] = answered[OnEnd]
  BY <1>2, <1>3, <1>4
<1>9. CASE phase[s] = "open" /\ BeginClose(s, {}) /\ UNCHANGED <<answered, awaited, inFinalizer>>
  <2>1. Begin(s, {})
    BY <1>1, <1>9 DEF Begin
  <2>2. ResultOK'
    <3>1. s # Root => phase'[Root] = phase[Root] /\ (Began(Root)' <=> Began(Root))
      BY <2>1, BeginPhase DEF Scopes
    <3>2. Root \in Scopes
      BY DEF Scopes
    <3> QED
      BY <1>1, <1>5, <1>6, <1>8, <3>1, <3>2 DEF ScopeInv, ResultOK, CallersKeep
  <2> QED
    BY <1>1, <1>2, <1>5, <1>6, <1>7, <1>9, <2>1, <2>2, FirstCall
<1>10. CASE interrupted' = interrupted \cup {} /\ UNCHANGED <<closing, closeVars, phase>>
  <2>1. ResultOK'
    <3>1. Root \in Scopes
      BY DEF Scopes
    <3> QED
      BY <1>1, <1>6, <1>8, <1>10, <3>1 DEF ScopeInv, ResultOK, CallersKeep, Began
  <2> QED
    BY <1>1, <1>2, <1>6, <1>7, <1>10, <2>1, QuietScopes
<1> QED
  BY <1>1, <1>9, <1>10 DEF CallClose

\* The two calls of withScopeAsync() are no user's.
LEMMA OwnCall ==
  ASSUME ScopeInv, NEW c \in {OnEnd, OnCancel}, NEW others, CallClose(c, Root, others)
  PROVE  /\ \/ closing' = [closing EXCEPT ![c] = Root] /\ answered' = answered
            \/ answered' = [answered EXCEPT ![c] = Root] /\ closing' = closing
         /\ CallersKeep /\ CallsOK' /\ \A x \in Scopes : ClosedByOthers(x)' <=> ClosedByOthers(x)
         /\ c # OnEnd => closing'[OnEnd] = closing[OnEnd] /\ answered'[OnEnd] = answered[OnEnd]
<1>1. closing \in [AllCallers -> Scopes \cup {None}] /\ answered \in [AllCallers -> Scopes \cup {None}]
  BY DEF ScopeInv, TypeOK
<1>2. /\ c \in AllCallers /\ c \notin Callers /\ Root \in Scopes /\ Callers \subseteq AllCallers
      /\ OnEnd \in AllCallers
  BY ScopeAssumption DEF AllCallers, OnEnd, OnCancel, Scopes
<1>3. \/ closing' = [closing EXCEPT ![c] = Root] /\ answered' = answered
      \/ answered' = [answered EXCEPT ![c] = Root] /\ closing' = closing
  BY DEF CallClose
<1>4. \A u \in Callers : closing'[u] = closing[u] /\ answered'[u] = answered[u]
  BY <1>1, <1>2, <1>3
<1>5. \A x \in Scopes : ClosedByOthers(x)' <=> ClosedByOthers(x)
  BY <1>4 DEF ClosedByOthers
<1>6. CallersKeep
  BY <1>1, <1>2, <1>3, <1>5 DEF CallersKeep
<1>7. CallsOK'
  BY <1>4 DEF ScopeInv, CallsOK
<1>8. c # OnEnd => closing'[OnEnd] = closing[OnEnd] /\ answered'[OnEnd] = answered[OnEnd]
  BY <1>1, <1>2, <1>3
<1> QED
  BY <1>3, <1>5, <1>6, <1>7, <1>8

LEMMA BodyEndsStep == ASSUME ScopeInv, BodyEnds PROVE ScopeInv'
<1>1. /\ Body \notin ended /\ ended' = ended \cup {Body} /\ CallClose(OnEnd, Root, {})
      /\ UNCHANGED <<treeVars, ran, result>>
  BY DEF BodyEnds
<1>2. /\ ended \subseteq Children \cup {Body} /\ interrupted \subseteq Children \cup {Body}
      /\ result \in {"pending", "given", "cancelled", "late"}
      /\ closing \in [AllCallers -> Scopes \cup {None}] /\ answered \in [AllCallers -> Scopes \cup {None}]
      /\ closing[OnEnd] = None /\ answered[OnEnd] = None /\ result # "given"
  BY <1>1 DEF ScopeInv, TypeOK, ResultOK
<1>3. /\ \/ closing' = [closing EXCEPT ![OnEnd] = Root] /\ answered' = answered
         \/ answered' = [answered EXCEPT ![OnEnd] = Root] /\ closing' = closing
      /\ CallersKeep /\ CallsOK' /\ (ClosedByOthers(Root)' <=> ClosedByOthers(Root))
  BY <1>1, OwnCall DEF Scopes
<1>4. OnEnd \in AllCallers /\ Root \in Scopes /\ Root \notin Subs
  BY ScopeAssumption DEF AllCallers, Scopes
<1>5. CASE phase[Root] = "open" /\ BeginClose(Root, {}) /\ UNCHANGED <<answered, awaited, inFinalizer>>
           /\ closing' = [closing EXCEPT ![OnEnd] = Root]
  <2>1. Begin(Root, {})
    BY <1>1, <1>5 DEF Begin
  <2>2. ResultOK'
    BY <1>1, <1>2, <1>4, <1>5 DEF ResultOK
  <2> QED
    BY <1>1, <1>2, <1>3, <1>4, <1>5, <2>1, <2>2, FirstCall
<1>6. CASE /\ phase[Root] \in ClosingPhases \cup {"closed"} /\ interrupted' = interrupted \cup {}
           /\ UNCHANGED <<closing, closeVars, phase>>
  <2>1. Began(Root)
    BY <1>6 DEF Began, ClosingPhases
  <2>2. ResultOK'
    BY <1>1, <1>2, <1>3, <1>4, <1>6, <2>1 DEF ScopeInv, ResultOK
  <2> QED
    BY <1>1, <1>2, <1>3, <1>6, <2>2, QuietScopes
<1> QED
  BY <1>1, <1>5, <1>6 DEF CallClose

LEMMA CancelStep == ASSUME ScopeInv, Cancel PROVE ScopeInv'
<1>1. /\ result' = "cancelled" /\ CallClose(OnCancel, Root, {Body})
      /\ UNCHANGED <<treeVars, ended, ran>>
  BY DEF Cancel
<1>2. ended \subseteq Children \cup {Body} /\ interrupted \subseteq Children \cup {Body}
  BY DEF ScopeInv, TypeOK
<1>3. /\ CallersKeep /\ CallsOK'
      /\ closing'[OnEnd] = closing[OnEnd] /\ answered'[OnEnd] = answered[OnEnd]
  <2>1. OnCancel # OnEnd
    BY DEF OnCancel, OnEnd
  <2> QED
    BY <1>1, <2>1, OwnCall
<1>4. Root \in Scopes /\ Root \notin Subs
  BY ScopeAssumption DEF Scopes
<1>5. ResultOK'
  BY <1>1, <1>3 DEF ScopeInv, ResultOK
<1>6. CASE phase[Root] = "open" /\ BeginClose(Root, {Body}) /\ UNCHANGED <<awaited, inFinalizer>>
  <2>1. Begin(Root, {Body})
    BY <1>1, <1>6 DEF Begin
  <2> QED
    BY <1>1, <1>3, <1>4, <1>5, <1>6, <2>1, FirstCall
<1>7. CASE interrupted' = interrupted \cup {Body} /\ UNCHANGED <<closeVars, phase>>
  <2>1. interrupted' \subseteq Children \cup {Body} /\ interrupted \subseteq interrupted'
    BY <1>2, <1>7
  <2>2. ended' \subseteq Children \cup {Body} /\ ended \subseteq ended'
    BY <1>1, <1>2
  <2> QED
    BY <1>1, <1>3, <1>5, <1>7, <2>1, <2>2, QuietScopes
<1> QED
  BY <1>1, <1>6, <1>7 DEF CallClose

LEMMA AnswerStep == ASSUME ScopeInv, NEW c \in AllCallers, Answer(c) PROVE ScopeInv'
<1>1. /\ closing[c] # None /\ phase[closing[c]] = "closed"
      /\ answered' = [answered EXCEPT ![c] = closing[c]] /\ closing' = [closing EXCEPT ![c] = None]
      /\ UNCHANGED <<treeVars, closeVars, phase, ended, interrupted, ran, result>>
  BY DEF Answer
<1>2. /\ closing \in [AllCallers -> Scopes \cup {None}] /\ answered \in [AllCallers -> Scopes \cup {None}]
      /\ Callers \subseteq AllCallers /\ OnEnd \in AllCallers /\ \A x \in Scopes : x # None
      /\ Root \in Scopes
  BY ScopeAssumption DEF ScopeInv, TypeOK, AllCallers, Scopes
<1>3. c \in Callers => answered[c] = None
  BY <1>1 DEF ScopeInv, CallsOK
<1>4. CallersKeep
  BY <1>1, <1>2, <1>3 DEF CallersKeep, ClosedByOthers
<1>5. CallsOK'
  BY <1>1, <1>2 DEF ScopeInv, CallsOK
<1>6. ResultOK'
  <2>1. c # OnEnd => closing'[OnEnd] = closing[OnEnd] /\ answered'[OnEnd] = answered[OnEnd]
    BY <1>1, <1>2
  <2>2. c = OnEnd => closing'[OnEnd] = None /\ closing[OnEnd] = Root /\ Body \in ended
    BY <1>1, <1>2 DEF ScopeInv, ResultOK
  <2>3. ~ClosedByOthers(Root)' => ~ClosedByOthers(Root)
    BY <1>2, <1>4 DEF CallersKeep
  <2> QED
    BY <1>1, <2>1, <2>2, <2>3 DEF ScopeInv, ResultOK, Began
<1> QED
  BY <1>1, <1>4, <1>5, <1>6, QuietScopes DEF ScopeInv, TypeOK

LEMMA GiveResultStep == ASSUME ScopeInv, GiveResult PROVE ScopeInv'
<1>1. /\ answered[OnEnd] = Root /\ Root # None /\ result \in {"pending", "cancelled"}
      /\ result' = IF result = "pending" THEN "given" ELSE "late"
      /\ UNCHANGED <<treeVars, closeVars, callVars, phase, ended, interrupted, ran>>
  BY ScopeAssumption DEF GiveResult
<1>2. CallersKeep /\ CallsOK'
  BY <1>1 DEF ScopeInv, TypeOK, CallersKeep, CallsOK, callVars, ClosedByOthers
<1>3. ResultOK'
  <2>1. result' # "pending" /\ (result' = "given" => result = "pending")
    BY <1>1
  <2> QED
    BY <1>1, <2>1 DEF ScopeInv, ResultOK, callVars, ClosedByOthers, Began
<1> QED
  BY <1>1, <1>2, <1>3, QuietScopes DEF ScopeInv, TypeOK

-----------------------------------------------------------------------------
(* What the owner of an open scope does *)

LEMMA RegisteredBound ==
  ASSUME finalizers \in [Scopes -> 0..MaxFinalizers], NEW s \in Scopes,
         Cardinality(Registered) < MaxFinalizers
  PROVE  finalizers[s] < MaxFinalizers
<1>1. MaxFinalizers \in Nat /\ IsFiniteSet(Subs)
  BY ScopeAssumption
<1>2. finalizers[s] \in 0..MaxFinalizers
  OBVIOUS
<1>3. SUFFICES ASSUME finalizers[s] = MaxFinalizers PROVE FALSE
  BY <1>1, <1>2
<1>4. PICK A, B : A = {s} /\ B = 1..MaxFinalizers
  OBVIOUS
<1>5. /\ IsFiniteSet(A) /\ Cardinality(A) = 1 /\ IsFiniteSet(B) /\ Cardinality(B) = MaxFinalizers
  <2>1. IsFiniteSet(A) /\ Cardinality(A) = 1
    BY <1>4, FS_Singleton
  <2>2. IsFiniteSet(B) /\ Cardinality(B) = MaxFinalizers
    <3>1. IsFiniteSet(1..MaxFinalizers) /\ Cardinality(1..MaxFinalizers) = IF 1 > MaxFinalizers THEN 0 ELSE MaxFinalizers - 1 + 1
      BY <1>1, FS_Interval
    <3> QED
      BY <1>1, <1>4, <3>1
  <2> QED
    BY <2>1, <2>2
<1>6. IsFiniteSet(A \X B) /\ Cardinality(A \X B) = MaxFinalizers
  <2>1. Cardinality(A \X B) = 1 * MaxFinalizers /\ IsFiniteSet(A \X B)
    BY <1>5, FS_Product
  <2> QED
    BY <1>1, <2>1
<1>7. A \X B \subseteq Registered
  BY <1>3, <1>4 DEF Registered
<1>8. IsFiniteSet(Registered)
  <2>1. IsFiniteSet(Scopes)
    <3>1. IsFiniteSet({Root})
      BY FS_Singleton
    <3> QED
      BY <1>1, <3>1, FS_Union DEF Scopes
  <2>2. IsFiniteSet(Scopes \X B)
    BY <1>5, <2>1, FS_Product
  <2>3. Registered \subseteq Scopes \X B
    BY <1>4 DEF Registered
  <2> QED
    BY <2>2, <2>3, FS_Subset
<1>9. Cardinality(A \X B) <= Cardinality(Registered) /\ Cardinality(Registered) \in Nat
  BY <1>7, <1>8, FS_Subset, FS_CardinalityType
<1> QED
  BY <1>1, <1>6, <1>9

LEMMA AddFinalizerStep == ASSUME ScopeInv, NEW s \in Scopes, AddFinalizer(s) PROVE ScopeInv'
<1>1. /\ phase[s] = "open" /\ finalizers' = [finalizers EXCEPT ![s] = @ + 1]
      /\ UNCHANGED <<parent, subScopes, owner, closeVars, callVars, phase, ended, interrupted,
                     ran, result>>
  BY DEF AddFinalizer, OpenScopes
<1>2. finalizers \in [Scopes -> 0..MaxFinalizers]
  BY DEF ScopeInv, TypeOK
<1>3. finalizers[s] < MaxFinalizers
  BY <1>2, RegisteredBound DEF AddFinalizer
<1>4. finalizers' \in [Scopes -> 0..MaxFinalizers]
  <2>1. finalizers[s] + 1 \in 0..MaxFinalizers
    BY <1>2, <1>3, ScopeAssumption
  <2> QED
    BY <1>1, <1>2, <2>1
<1>5. TypeOK'
  BY <1>1, <1>4 DEF ScopeInv, TypeOK, closeVars, callVars
<1>6. TreeOK' /\ ResultOK' /\ CallsOK'
  BY <1>1 DEF ScopeInv, TreeOK, ResultOK, CallsOK, ClosedByOthers, callVars, Began
<1>7. ASSUME NEW t \in Scopes PROVE OwnedOK(t)' /\ ChainOK(t)' /\ OrderOK(t)'
  <2>1. OwnedOK(t)' /\ OrderOK(t)'
    BY <1>1 DEF ScopeInv, OwnedOK, OrderOK, closeVars, Began
  <2>2. CASE t = s
    <3>1. ran[s] = <<>> /\ ~inFinalizer[s]
      BY <1>1 DEF ScopeInv, ChainOK
    <3>2. ChainOK(s)'
      BY <1>1, <3>1 DEF ChainOK, closeVars
    <3> QED
      BY <2>1, <2>2, <3>2
  <2>3. CASE t # s
    <3>1. finalizers'[t] = finalizers[t] /\ ChainOK(t)
      BY <1>1, <1>2, <2>3 DEF ScopeInv
    <3>2. ChainOK(t)'
      BY <1>1, <3>1 DEF ChainOK, closeVars
    <3> QED
      BY <2>1, <3>2
  <2> QED
    BY <2>2, <2>3
<1>8. \A x \in Subs : LeftToParent(x)'
  BY <1>1 DEF ScopeInv, LeftToParent, ClosedByOthers, callVars, closeVars, Began
<1> QED
  BY <1>5, <1>6, <1>7, <1>8 DEF ScopeInv

\* A sub-scope is made, and perhaps fibers are forked in it at once.
Makes(s, new) ==
  /\ phase[s] = "open" /\ phase[new] = "absent"
  /\ phase' = [phase EXCEPT ![new] = "open"] /\ parent' = [parent EXCEPT ![new] = s]
  /\ subScopes' = [subScopes EXCEPT ![s] = Append(@, new)]
  /\ owner' \in [Children -> Scopes \cup {None}]
  /\ \A f \in Children : owner'[f] \in {owner[f], new}
  /\ UNCHANGED <<finalizers, closeVars, callVars, ended, interrupted, ran, result>>

LEMMA MakesStep ==
  ASSUME ScopeInv, NEW s \in Scopes, NEW new \in Subs, Makes(s, new) PROVE ScopeInv'
<1>1. /\ phase \in [Scopes -> {"absent", "open", "closed"} \cup ClosingPhases]
      /\ parent \in [Scopes -> Scopes \cup {None}] /\ subScopes \in [Scopes -> Seq(Subs)]
      /\ new \in Scopes /\ s # new /\ parent[new] = None /\ s # None
      /\ \A x \in Scopes : x # None
  BY ScopeAssumption DEF ScopeInv, TypeOK, TreeOK, Makes, Scopes
<1>2. /\ phase'[new] = "open" /\ \A x \in Scopes \ {new} : phase'[x] = phase[x]
      /\ \A x \in Scopes : Began(x)' <=> Began(x)
      /\ phase' \in [Scopes -> {"absent", "open", "closed"} \cup ClosingPhases]
  BY <1>1 DEF Makes, Began
<1>3. /\ parent'[new] = s /\ \A x \in Scopes \ {new} : parent'[x] = parent[x]
      /\ parent' \in [Scopes -> Scopes \cup {None}]
  BY <1>1 DEF Makes
<1>4. PICK q, r : q = subScopes[s] /\ r = Append(q, new)
  OBVIOUS
<1>5. q \in Seq(Subs) /\ IsInjective(q) /\ ToSet(q) = {x \in Subs : parent[x] = s}
  BY <1>1, <1>4 DEF ScopeInv, TreeOK
<1>6. r \in Seq(Subs) /\ IsInjective(r) /\ ToSet(r) = ToSet(q) \cup {new}
  <2>1. new \notin ToSet(q)
    BY <1>1, <1>5
  <2> QED
    BY <1>4, <1>5, <2>1, AppendNode
<1>7. /\ subScopes'[s] = r /\ \A x \in Scopes \ {s} : subScopes'[x] = subScopes[x]
      /\ subScopes' \in [Scopes -> Seq(Subs)]
  BY <1>1, <1>4, <1>6 DEF Makes
<1>8. TypeOK'
  BY <1>2, <1>3, <1>7 DEF ScopeInv, TypeOK, Makes, closeVars, callVars
<1>9. TreeOK'
  <2>1. ASSUME NEW x \in Subs PROVE phase'[x] = "absent" => parent'[x] = None
    BY <1>2, <1>3 DEF ScopeInv, TreeOK, Scopes
  <2>2. ASSUME NEW t \in Scopes
        PROVE  /\ IsInjective(subScopes'[t])
               /\ ToSet(subScopes'[t]) = {x \in Subs : parent'[x] = t}
    <3>1. CASE t = s
      <4>1. {x \in Subs : parent'[x] = s} = {x \in Subs : parent[x] = s} \cup {new}
        BY <1>1, <1>3 DEF Scopes
      <4> QED
        BY <1>5, <1>6, <1>7, <3>1, <4>1
    <3>2. CASE t # s
      <4>1. {x \in Subs : parent'[x] = t} = {x \in Subs : parent[x] = t}
        BY <1>1, <1>3, <3>2 DEF Scopes
      <4> QED
        BY <1>7, <3>2, <4>1 DEF ScopeInv, TreeOK
    <3> QED
      BY <3>1, <3>2
  <2> QED
    BY <2>1, <2>2 DEF TreeOK
<1>10. ResultOK' /\ CallsOK'
  <2>1. phase[Root] = "closed" => phase'[Root] = "closed"
    BY <1>2, ScopeAssumption DEF Scopes
  <2>2. Began(Root)' <=> Began(Root)
    BY <1>2 DEF Scopes
  <2> QED
    BY <2>1, <2>2 DEF ScopeInv, ResultOK, CallsOK, ClosedByOthers, Makes, callVars
<1>11. ASSUME NEW t \in Scopes PROVE OwnedOK(t)' /\ ChainOK(t)' /\ OrderOK(t)'
  <2>1. CASE t = new
    <3>1. /\ ran[t] = <<>> /\ ~inFinalizer[t]
          /\ todo[t] = <<>> /\ awaited[t] = None
      BY <2>1 DEF ScopeInv, ChainOK, OrderOK, Makes
    <3>2. OwnedOK(t)' /\ ChainOK(t)'
      BY <1>2, <2>1, <3>1 DEF OwnedOK, ChainOK, Makes, closeVars, Began
    <3>3. OrderOK(t)'
      <4>1. Len(subScopes'[t]) \in Nat
        BY <1>7
      <4> QED
        BY <1>2, <2>1, <3>1, <4>1 DEF OrderOK, Makes, closeVars
    <3> QED
      BY <3>2, <3>3
  <2>2. CASE t # new
    <3>1. phase'[t] = phase[t] /\ (Began(t)' <=> Began(t))
      BY <1>2, <2>2
    <3>2. OwnedOK(t)'
      BY <2>2, <3>1 DEF ScopeInv, OwnedOK, Makes, closeVars
    <3>3. ChainOK(t)'
      BY <3>1 DEF ScopeInv, ChainOK, Makes, closeVars
    <3>4. OrderOK(t)'
      <4>1. CASE t = s
        <5>1. todo[s] = <<>> /\ awaited[s] = None /\ phase[s] = "open"
          BY DEF ScopeInv, OrderOK, Makes
        <5>2. Len(subScopes'[s]) \in Nat
          BY <1>7
        <5> QED
          BY <3>1, <4>1, <5>1, <5>2 DEF OrderOK, Makes, closeVars
      <4>2. CASE t # s
        <5>1. subScopes'[t] = subScopes[t] /\ OrderOK(t)
          BY <1>7, <4>2 DEF ScopeInv
        <5> QED
          BY <3>1, <5>1 DEF OrderOK, Makes, closeVars
      <4> QED
        BY <4>1, <4>2
    <3> QED
      BY <3>2, <3>3, <3>4
  <2> QED
    BY <2>1, <2>2
<1>12. ASSUME NEW x \in Subs PROVE LeftToParent(x)'
  <2>1. CASE x = new
    <3>1. ~Began(s)' /\ phase'[s] = "open"
      BY <1>1, <1>2 DEF Began, Makes
    <3> QED
      BY <1>2, <1>3, <2>1, <3>1 DEF LeftToParent
  <2>2. CASE x # new
    <3>1. SUFFICES ASSUME parent[x] # None PROVE LeftToParent(x)'
      BY <1>3, <2>2 DEF LeftToParent, Scopes
    <3>2. PICK p \in Scopes : p = parent[x] /\ p = parent'[x]
      BY <1>1, <1>3, <2>2, <3>1 DEF Scopes
    <3>3. phase'[x] = phase[x] /\ (Began(p)' <=> Began(p)) /\ (Began(p) => phase'[p] = phase[p])
      BY <1>2, <2>2 DEF Scopes, Makes, Began
    <3>4. LeftToParent(x) /\ UNCHANGED <<todo, awaited, closing, answered>>
      BY DEF ScopeInv, Makes, closeVars, callVars
    <3>5. ClosedByOthers(x)' <=> ClosedByOthers(x)
      BY <3>4 DEF ClosedByOthers
    <3>6. CASE Began(p)
      BY <3>2, <3>3, <3>4, <3>5, <3>6 DEF LeftToParent
    <3>7. CASE ~Began(p)
      <4>1. phase'[p] \notin {"subs", "children", "finalizers", "closed"}
        BY <3>3, <3>7 DEF Began
      <4> QED
        BY <3>2, <3>3, <3>4, <3>5, <3>7, <4>1 DEF LeftToParent
    <3> QED
      BY <3>6, <3>7
  <2> QED
    BY <2>1, <2>2
<1> QED
  BY <1>8, <1>9, <1>10, <1>11, <1>12 DEF ScopeInv

\* Fibers are forked in scopes that are open, and end.
FiberStep ==
  /\ owner' \in [Children -> Scopes \cup {None}]
  /\ \A f \in Children : owner'[f] = owner[f] \/ ~Began(owner'[f])
  /\ ended \subseteq ended' /\ ended' \subseteq ended \cup Children
  /\ UNCHANGED <<parent, subScopes, finalizers, closeVars, callVars, phase, interrupted, ran, result>>

LEMMA FiberStepKeeps == ASSUME ScopeInv, FiberStep PROVE ScopeInv'
<1>1. ended' \subseteq Children \cup {Body} /\ (Body \in ended' <=> Body \in ended)
  <2>1. Body \notin Children
    BY ScopeAssumption DEF Body
  <2> QED
    BY <2>1 DEF ScopeInv, TypeOK, FiberStep
<1>2. TypeOK'
  BY <1>1 DEF ScopeInv, TypeOK, FiberStep, closeVars, callVars
<1>3. TreeOK' /\ ResultOK' /\ CallsOK'
  BY <1>1 DEF ScopeInv, TreeOK, ResultOK, CallsOK, ClosedByOthers, FiberStep, callVars, Began
<1>4. ASSUME NEW t \in Scopes PROVE OwnedOK(t)' /\ ChainOK(t)' /\ OrderOK(t)'
  <2>1. OwnedOK(t)'
    BY DEF ScopeInv, OwnedOK, FiberStep, closeVars, Began
  <2>2. ChainOK(t)' /\ OrderOK(t)'
    BY DEF ScopeInv, ChainOK, OrderOK, FiberStep, closeVars
  <2> QED
    BY <2>1, <2>2
<1>5. \A x \in Subs : LeftToParent(x)'
  BY DEF ScopeInv, LeftToParent, ClosedByOthers, FiberStep, callVars, closeVars, Began
<1> QED
  BY <1>2, <1>3, <1>4, <1>5 DEF ScopeInv

-----------------------------------------------------------------------------
(* The scopes when a combinator runs in them *)

LEMMA CombinatorFibers ==
  /\ Inner \in Subs /\ Inner \in Scopes /\ Closer \in Callers /\ Root \in Scopes
  /\ {Left, Right, Continuation} \subseteq Children /\ Continuation \notin {Left, Right}
  /\ None \notin Exits /\ Inner # None
<1>1. Continuation \notin {Left, Right}
  <2> SUFFICES ASSUME Continuation \in {Left, Right} PROVE FALSE
    OBVIOUS
  <2>1. {Left, Right, Continuation} = {Left, Right}
    OBVIOUS
  <2>2. Cardinality({Left, Right}) = 3
    BY <2>1, StructuredAssumption
  <2>3. IsFiniteSet({Left}) /\ Cardinality({Left}) = 1
    BY FS_Singleton
  <2>4. Cardinality({Left} \cup {Right}) \in {1, 2}
    BY <2>3, FS_AddElement
  <2>5. {Left} \cup {Right} = {Left, Right}
    OBVIOUS
  <2> QED
    BY <2>2, <2>4, <2>5
<1> QED
  BY <1>1, StructuredAssumption, ScopeAssumption DEF Scopes, Exits

\* What the combinator sees of a step of the scopes around it.
CombFrame ==
  /\ UNCHANGED combVars /\ ended \subseteq ended'
  /\ \A f \in Children : f \in interrupted' => f \in interrupted \/ f \notin ended
  /\ \A f \in Children : f \in ended' => owner'[f] # None
  /\ program # "scopes" =>
       /\ owner' = owner /\ \A f \in Children : f \in ended' => f \in ended
       /\ phase'[Inner] = "absent" <=> phase[Inner] = "absent"
  /\ Began(Inner) => Began(Inner)'

LEMMA CombFrameKeeps == ASSUME CombInv, CombFrame PROVE CombInv'
<1>1. /\ program' = program /\ effects' = effects /\ stage' = stage /\ order' = order
      /\ exit' = exit /\ answer' = answer /\ closeQueued' = closeQueued /\ unheard' = unheard
  BY DEF CombFrame, combVars, callStateVars
<1>2. CombinatorTypeOK'
  BY <1>1 DEF CombInv, CombinatorTypeOK, CombFrame
<1>3. NoCall'
  BY <1>1 DEF CombInv, NoCall
<1>4. FibersOK'
  <2>1. program # "scopes" => ended' \cap Children = ended \cap Children
    BY DEF CombFrame
  <2> QED
    BY <1>1, <2>1 DEF CombInv, FibersOK, CombFrame
<1>5. ExitsOK'
  <2>1. \A f \in Children : exit[f] = "success" => f \notin interrupted'
    <3> SUFFICES ASSUME NEW f \in Children, exit[f] = "success" PROVE f \notin interrupted'
      OBVIOUS
    <3>1. exit[f] # None
      BY CombinatorFibers DEF Exits
    <3>2. program # "scopes"
      BY <3>1 DEF CombInv, NoCall
    <3>3. f \in ended
      BY <3>1, <3>2 DEF CombInv, CombinatorTypeOK, FibersOK
    <3> QED
      BY <3>3 DEF CombInv, ExitsOK, CombFrame
  <2>2. effects \subseteq ended => effects \subseteq ended'
    BY DEF CombFrame
  <2>3. Continuation \in ended => Continuation \in ended'
    BY DEF CombFrame
  <2>4. Began(Inner) => Began(Inner)'
    BY DEF CombFrame
  <2> QED
    BY <1>1, <2>1, <2>2, <2>3, <2>4 DEF CombInv, ExitsOK, Failed
<1>6. AnswerJustified'
  BY <1>1 DEF CombInv, AnswerJustified, Failed
<1>7. SomebodyAnswers'
  <2>1. stage \in {"waiting", "continued"} => program # "scopes"
    BY DEF CombInv, NoCall
  <2>2. effects \subseteq Children /\ Continuation \in Children
    BY CombinatorFibers DEF CombInv, CombinatorTypeOK
  <2> QED
    BY <1>1, <2>1, <2>2 DEF CombInv, SomebodyAnswers, CombFrame
<1> QED
  BY <1>2, <1>3, <1>4, <1>5, <1>6, <1>7 DEF CombInv

\* The phase of a scope moves on; that of the others stays.
LEMMA PhaseFrame ==
  ASSUME ScopeInv, NEW t \in Scopes, phase[t] # "absent",
         NEW v \in ClosingPhases \cup {"closed"}, phase' = [phase EXCEPT ![t] = v]
  PROVE  /\ phase'[Inner] = "absent" <=> phase[Inner] = "absent"
         /\ Began(Inner) => Began(Inner)'
BY CombinatorFibers DEF ScopeInv, TypeOK, Began, ClosingPhases

\* A close that begins interrupts fibers that have not ended.
LEMMA BeginFrame ==
  ASSUME ScopeInv, NEW t \in Scopes, phase[t] = "open", NEW others \in SUBSET {Body},
         BeginClose(t, others)
  PROVE  /\ phase'[Inner] = "absent" <=> phase[Inner] = "absent"
         /\ Began(Inner) => Began(Inner)'
         /\ \A f \in Children : f \in interrupted' => f \in interrupted \/ f \notin ended
<1>1. \E v \in ClosingPhases \cup {"closed"} : phase' = [phase EXCEPT ![t] = v]
  BY DEF BeginClose, ClosingPhases
<1>2. interrupted' = interrupted \cup ChildrenOf(t) \cup others
  BY DEF BeginClose
<1>3. \A f \in Children : f \notin others
  BY ScopeAssumption DEF Body
<1> QED
  BY <1>1, <1>2, <1>3, PhaseFrame DEF ChildrenOf

LEMMA CallFrame ==
  ASSUME ScopeInv, NEW c, NEW t \in Scopes, NEW others \in SUBSET {Body}, CallClose(c, t, others)
  PROVE  /\ phase'[Inner] = "absent" <=> phase[Inner] = "absent"
         /\ Began(Inner) => Began(Inner)'
         /\ \A f \in Children : f \in interrupted' => f \in interrupted \/ f \notin ended
<1>1. CASE phase[t] = "open" /\ BeginClose(t, others)
  BY <1>1, BeginFrame
<1>2. CASE interrupted' = interrupted \cup others /\ UNCHANGED phase
  <2>1. \A f \in Children : f \notin others
    BY ScopeAssumption DEF Body
  <2> QED
    BY <1>2, <2>1 DEF Began
<1> QED
  BY <1>1, <1>2 DEF CallClose

LEMMA ClosingFrame ==
  ASSUME ScopeInv, CombInv, NEW s \in Scopes, ClosingStepOf(s), UNCHANGED combVars PROVE CombFrame
<1>1. ended' = ended /\ owner' = owner
  BY DEF ClosingStepOf, CloseSub, SubClosed, SubsClosed, AwaitChildren, StartFinalizer,
         EndFinalizer, FinalizerDies, FinalizersDone, Advance, treeVars
<1>2. /\ phase'[Inner] = "absent" <=> phase[Inner] = "absent"
      /\ Began(Inner) => Began(Inner)'
      /\ \A f \in Children : f \in interrupted' => f \in interrupted \/ f \notin ended
  <2>1. CASE CloseSub(s)
    <3>1. CASE phase[Head(todo[s])] = "open" /\ BeginClose(Head(todo[s]), {})
      <4>1. PICK q, h : q = todo[s] /\ h = Head(q)
        OBVIOUS
      <4>2. q \in Seq(Subs) /\ IsInjective(q) /\ q # <<>>
        BY <2>1, <4>1, TodoOnce DEF CloseSub
      <4>3. h \in Scopes
        BY <4>1, <4>2, TailNode DEF Scopes
      <4> QED
        BY <3>1, <4>1, <4>3, BeginFrame
    <3>2. CASE UNCHANGED <<interrupted, phase>>
      BY <3>2 DEF Began
    <3> QED
      BY <2>1, <3>1, <3>2 DEF CloseSub
  <2>2. CASE ~CloseSub(s)
    <3>1. interrupted' = interrupted
      BY <2>2 DEF ClosingStepOf, SubClosed, SubsClosed, AwaitChildren, StartFinalizer,
                  EndFinalizer, FinalizerDies, FinalizersDone, Advance
    <3>2. \/ phase' = phase
          \/ /\ phase[s] # "absent"
             /\ \E v \in ClosingPhases \cup {"closed"} : phase' = [phase EXCEPT ![s] = v]
      <4>1. inFinalizer[s] => phase[s] # "absent"
        BY DEF ScopeInv, ChainOK
      <4> QED
        BY <2>2, <4>1 DEF ClosingStepOf, SubClosed, SubsClosed, AwaitChildren, StartFinalizer,
                  EndFinalizer, FinalizerDies, FinalizersDone, Advance, ClosingPhases
    <3>3. /\ phase'[Inner] = "absent" <=> phase[Inner] = "absent"
          /\ Began(Inner) => Began(Inner)'
      BY <3>2, PhaseFrame DEF Began
    <3> QED
      BY <3>1, <3>3
  <2> QED
    BY <2>1, <2>2
<1> QED
  BY <1>1, <1>2 DEF CombFrame, CombInv, FibersOK

LEMMA ClosingStepKeeps ==
  ASSUME ScopeInv, NEW s \in Scopes, ClosingStepOf(s) PROVE ScopeInv'
BY CloseSubStep, SubClosedStep, SubsClosedStep, AwaitChildrenStep, StartFinalizerStep,
   EndFinalizerStep, ChainEndsStep DEF ClosingStepOf

\* What the owners of scopes do when no combinator is called.
LEMMA OwnersActStep ==
  ASSUME ScopeInv, CombInv, OwnersAct, UNCHANGED combVars PROVE ScopeInv' /\ CombFrame
<1>0. /\ \A f \in Children : f \in ended => owner[f] # None
      /\ Inner \in Scopes /\ Root \in Scopes /\ owner \in [Children -> Scopes \cup {None}]
      /\ phase \in [Scopes -> {"absent", "open", "closed"} \cup ClosingPhases]
      /\ \A s \in Scopes : s # None
  BY CombinatorFibers, ScopeAssumption DEF CombInv, FibersOK, ScopeInv, TypeOK, Scopes
<1>1. ASSUME NEW s \in Scopes, AddFinalizer(s) PROVE ScopeInv' /\ CombFrame
  BY <1>0, <1>1, AddFinalizerStep DEF CombFrame, AddFinalizer, Began
<1>2. ASSUME NEW s \in Scopes, NEW new \in Subs, SubScope(s, new), program = "scopes"
      PROVE  ScopeInv' /\ CombFrame
  <2>1. Makes(s, new)
    BY <1>0, <1>2 DEF SubScope, Makes, OpenScopes
  <2>2. Began(Inner) => Began(Inner)'
    BY <1>0, <1>2 DEF SubScope, Began, Scopes
  <2> QED
    BY <1>0, <1>2, <2>1, <2>2, MakesStep DEF CombFrame, SubScope
<1>3. ASSUME NEW s \in Scopes, NEW f \in Children, Fork(s, f), program = "scopes"
      PROVE  ScopeInv' /\ CombFrame
  <2>1. /\ owner' \in [Children -> Scopes \cup {None}] /\ owner'[f] = s /\ ~Began(s)
        /\ \A g \in Children \ {f} : owner'[g] = owner[g]
    BY <1>0, <1>3 DEF Fork, OpenScopes, Began
  <2>2. FiberStep
    BY <1>3, <2>1 DEF FiberStep, Fork
  <2> QED
    BY <1>0, <1>3, <2>1, <2>2, FiberStepKeeps DEF CombFrame, Fork, Began
<1>4. ASSUME NEW f \in Children, ChildEnds(f), program = "scopes" PROVE ScopeInv' /\ CombFrame
  <2>1. FiberStep
    BY <1>0, <1>4 DEF FiberStep, ChildEnds, FiberEnds, treeVars
  <2> QED
    BY <1>0, <1>4, <2>1, FiberStepKeeps DEF CombFrame, ChildEnds, FiberEnds, treeVars, Began
<1>5. ASSUME NEW c \in Callers, NEW s \in CloseTargets, UserCloses(c, s)
      PROVE  ScopeInv' /\ CombFrame
  <2>1. s \in Scopes
    BY ScopeAssumption DEF Scopes
  <2>2. /\ phase'[Inner] = "absent" <=> phase[Inner] = "absent"
        /\ Began(Inner) => Began(Inner)'
        /\ \A f \in Children : f \in interrupted' => f \in interrupted \/ f \notin ended
    BY <1>5, <2>1, CallFrame DEF UserCloses
  <2> QED
    BY <1>0, <1>5, <2>1, <2>2, UserClosesStep DEF CombFrame, UserCloses, treeVars
<1> QED
  BY <1>0, <1>1, <1>2, <1>3, <1>4, <1>5 DEF OwnersAct, OwnerSteps, UserCall

LEMMA ScopeStepsStep ==
  ASSUME ScopeInv, CombInv, ScopeSteps, UNCHANGED combVars PROVE ScopeInv' /\ CombFrame
<1>0. /\ \A f \in Children : f \in ended => owner[f] # None
      /\ Root \in Scopes /\ \A f \in Children : f # Body
  BY CombinatorFibers, ScopeAssumption DEF CombInv, FibersOK, Body
<1>1. CASE BodyEnds
  <2>1. /\ phase'[Inner] = "absent" <=> phase[Inner] = "absent"
        /\ Began(Inner) => Began(Inner)'
        /\ \A f \in Children : f \in interrupted' => f \in interrupted \/ f \notin ended
    BY <1>0, <1>1, CallFrame DEF BodyEnds
  <2>2. owner' = owner /\ ended' = ended \cup {Body}
    BY <1>1 DEF BodyEnds, treeVars
  <2> QED
    BY <1>0, <1>1, <2>1, <2>2, BodyEndsStep DEF CombFrame
<1>2. CASE Cancel
  <2>1. /\ phase'[Inner] = "absent" <=> phase[Inner] = "absent"
        /\ Began(Inner) => Began(Inner)'
        /\ \A f \in Children : f \in interrupted' => f \in interrupted \/ f \notin ended
    BY <1>0, <1>2, CallFrame DEF Cancel
  <2>2. owner' = owner /\ ended' = ended
    BY <1>2 DEF Cancel, treeVars
  <2> QED
    BY <1>0, <1>2, <2>1, <2>2, CancelStep DEF CombFrame
<1>3. CASE GiveResult
  BY <1>0, <1>3, GiveResultStep DEF CombFrame, GiveResult, treeVars, Began
<1>4. ASSUME NEW c \in AllCallers, Answer(c) PROVE ScopeInv' /\ CombFrame
  BY <1>0, <1>4, AnswerStep DEF CombFrame, Answer, treeVars, Began
<1> QED
  BY <1>1, <1>2, <1>3, <1>4, OwnersActStep DEF ScopeSteps

-----------------------------------------------------------------------------
(* The combinator *)

LEMMA CallsStep == ASSUME ScopeInv, CombInv, Calls PROVE ScopeInv' /\ CombInv'
<1>1. /\ program # "scopes" /\ Body \notin ended /\ stage = "before" /\ phase[Root] = "open"
      /\ phase' = [phase EXCEPT ![Inner] = "open"] /\ parent' = [parent EXCEPT ![Inner] = Root]
      /\ subScopes' = [subScopes EXCEPT ![Root] = Append(@, Inner)]
      /\ owner' = [f \in Children |-> IF f \in effects THEN Inner ELSE owner[f]]
      /\ stage' = "waiting"
      /\ UNCHANGED <<finalizers, closeVars, callVars, ended, interrupted, ran, result,
                     program, effects, order, exit, answer, closeQueued, unheard>>
  BY DEF Calls, Called
<1>2. /\ phase[Inner] = "absent" /\ \A f \in Children : owner[f] = None /\ f \notin ended
      /\ order \in Seq(Children) /\ ToSet(order) = ended \cap Children /\ answer = None
      /\ effects \subseteq {Left, Right}
  BY <1>1 DEF CombInv, FibersOK, ExitsOK, CombinatorTypeOK
<1>3. /\ phase \in [Scopes -> {"absent", "open", "closed"} \cup ClosingPhases]
      /\ owner \in [Children -> Scopes \cup {None}]
  BY DEF ScopeInv, TypeOK
<1>4. Makes(Root, Inner)
  BY <1>1, <1>2, <1>3, CombinatorFibers DEF Makes
<1>5. ScopeInv'
  BY <1>4, CombinatorFibers, MakesStep
<1>6. order = <<>>
  <2>1. ToSet(order) = {}
    BY <1>2
  <2>2. ASSUME order # <<>> PROVE FALSE
    <3>1. 1 \in DOMAIN order
      BY <1>2, <2>2
    <3> QED
      BY <2>1, <3>1 DEF ToSet
  <2> QED
    BY <2>2
<1>7. phase'[Inner] = "open"
  BY <1>1, <1>3, CombinatorFibers
<1>8. CombinatorTypeOK' /\ NoCall' /\ AnswerJustified'
  BY <1>1 DEF CombInv, CombinatorTypeOK, CallStages, NoCall, AnswerJustified
<1>9. FibersOK'
  BY <1>1, <1>2, <1>7, CombinatorFibers DEF CombInv, FibersOK
<1>10. ExitsOK'
  <2>1. \A f \in Children : exit[f] = None
    BY <1>2 DEF CombInv, CombinatorTypeOK
  <2> QED
    BY <1>1, <1>2, <1>6, <2>1, CombinatorFibers DEF CombInv, ExitsOK, Failed, Exits
<1>11. SomebodyAnswers'
  BY <1>1, <1>2, CombinatorFibers DEF SomebodyAnswers
<1> QED
  BY <1>5, <1>8, <1>9, <1>10, <1>11 DEF CombInv

LEMMA CallRefusedStep == ASSUME ScopeInv, CombInv, CallRefused PROVE ScopeInv' /\ CombInv'
<1>1. /\ program # "scopes" /\ stage = "before" /\ stage' = "refused"
      /\ UNCHANGED <<vars, program, effects, order, exit, answer, closeQueued, unheard>>
  BY DEF CallRefused, Called
<1>2. ScopeInv'
  <2>1. /\ UNCHANGED <<treeVars, closeVars, phase, ran, ended, interrupted, result, closing, answered>>
    BY <1>1 DEF vars, callVars
  <2>2. CallersKeep /\ CallsOK' /\ ResultOK'
    BY <2>1 DEF ScopeInv, TypeOK, CallersKeep, CallsOK, ResultOK, ClosedByOthers, Began
  <2> QED
    BY <2>1, <2>2, QuietScopes DEF ScopeInv, TypeOK
<1>3. UNCHANGED <<owner, ended, phase, interrupted>>
  BY <1>1 DEF vars, treeVars
<1>4. CombinatorTypeOK' /\ NoCall' /\ FibersOK' /\ AnswerJustified' /\ SomebodyAnswers'
  BY <1>1, <1>3 DEF CombInv, CombinatorTypeOK, CallStages, NoCall, FibersOK, AnswerJustified,
                    SomebodyAnswers
<1>5. ExitsOK'
  BY <1>1, <1>3 DEF CombInv, ExitsOK, Failed
<1> QED
  BY <1>2, <1>4, <1>5 DEF CombInv

\* When the fiber of scope.close() has run, the scope is no longer open.
LEMMA CloserRunsStep == ASSUME ScopeInv, CombInv, CloserRuns PROVE ScopeInv' /\ CombInv'
<1>1. /\ closeQueued /\ closeQueued' = FALSE /\ UserCloses(Closer, Inner)
      /\ UNCHANGED <<program, effects, stage, order, exit, answer, unheard>>
  BY DEF CloserRuns
<1>2. UNCHANGED <<treeVars, ended>> /\ CallClose(Closer, Inner, {})
  BY <1>1 DEF UserCloses
<1>3. ScopeInv'
  BY <1>1, CombinatorFibers, UserClosesStep
<1>4. Began(Inner)'
  <2>1. CASE phase[Inner] = "open" /\ BeginClose(Inner, {})
    <3>1. phase \in [Scopes -> {"absent", "open", "closed"} \cup ClosingPhases]
      BY DEF ScopeInv, TypeOK
    <3> QED
      BY <2>1, <3>1, CombinatorFibers DEF BeginClose, Began
  <2>2. CASE phase[Inner] \in ClosingPhases \cup {"closed"} /\ UNCHANGED phase
    BY <2>2 DEF Began, ClosingPhases
  <2> QED
    BY <1>2, <2>1, <2>2 DEF CallClose
<1>5. /\ phase'[Inner] = "absent" <=> phase[Inner] = "absent"
      /\ \A f \in Children : f \in interrupted' => f \in interrupted \/ f \notin ended
  BY <1>2, CombinatorFibers, CallFrame
<1>6. program # "scopes"
  BY <1>1 DEF CombInv, NoCall
<1>7. owner' = owner
  BY <1>2 DEF treeVars
<1>8. CombinatorTypeOK' /\ NoCall' /\ FibersOK' /\ AnswerJustified' /\ SomebodyAnswers'
  BY <1>1, <1>2, <1>5, <1>6, <1>7
     DEF CombInv, CombinatorTypeOK, NoCall, FibersOK, AnswerJustified, SomebodyAnswers, Failed
<1>9. ExitsOK'
  <2>1. \A f \in Children : exit[f] = "success" => f \in ended
    BY <1>6, CombinatorFibers DEF CombInv, CombinatorTypeOK, FibersOK, Exits
  <2> QED
    BY <1>1, <1>2, <1>4, <1>5, <2>1 DEF CombInv, ExitsOK, Failed
<1> QED
  BY <1>3, <1>8, <1>9 DEF CombInv

\* A fiber of the combinator ends: what is known before its joiners are told.
EndedAs(f, x) ==
  /\ program # "scopes" /\ owner[f] # None /\ f \notin ended /\ x \in Exits
  /\ ended' = ended \cup {f} /\ exit' = [exit EXCEPT ![f] = x] /\ order' = Append(order, f)
  /\ f \in interrupted => x = "failure"
  /\ UNCHANGED <<phase, interrupted, program, effects>>

LEMMA EndedFacts ==
  ASSUME CombInv, NEW f \in Children, NEW x, EndedAs(f, x)
  PROVE  /\ exit[f] = None /\ exit'[f] = x /\ x # None
         /\ \A g \in Children \ {f} : exit'[g] = exit[g]
         /\ exit' \in [Children -> Exits \cup {None}] /\ order' \in Seq(Children) /\ order' # <<>>
         /\ ToSet(order') = {g \in Children : exit'[g] # None}
         /\ ToSet(order') = ended' \cap Children
         /\ order # <<>> => order'[1] = order[1] /\ order[1] \in Children \ {f}
         /\ order = <<>> => order'[1] = f
         /\ \A g \in Children : exit'[g] = "success" => g \notin interrupted'
         /\ \A g \in Children : g \in ended <=> exit[g] # None
         /\ f \in effects \/ (f = Continuation /\ program = "raceWith" /\ stage \in {"continued", "answered"})
         /\ stage \in {"waiting", "continued", "answered", "thrown"}
<1>1. /\ exit \in [Children -> Exits \cup {None}] /\ order \in Seq(Children)
      /\ ToSet(order) = {g \in Children : exit[g] # None} /\ ToSet(order) = ended \cap Children
  BY DEF CombInv, CombinatorTypeOK, FibersOK, EndedAs
<1>2. /\ exit[f] = None /\ exit'[f] = x /\ x # None
      /\ \A g \in Children \ {f} : exit'[g] = exit[g]
      /\ exit' \in [Children -> Exits \cup {None}]
  BY <1>1, CombinatorFibers DEF EndedAs
<1>3. PICK q, r : q = order /\ r = Append(q, f)
  OBVIOUS
<1>4. r \in Seq(Children) /\ ToSet(r) = ToSet(q) \cup {f}
  BY <1>1, <1>3, AppendNode
<1>5. /\ r # <<>> /\ (q = <<>> => r[1] = f)
      /\ q # <<>> => r[1] = q[1] /\ q[1] \in ToSet(q)
  <2>1. q \in Seq(Children) /\ Len(q) \in Nat /\ DOMAIN q = 1..Len(q)
    BY <1>1, <1>3
  <2>2. r # <<>> /\ (q = <<>> => r[1] = f)
    BY <1>3, <2>1
  <2>3. q # <<>> => 1 \in DOMAIN q /\ r[1] = q[1]
    BY <1>3, <2>1
  <2> QED
    BY <2>2, <2>3 DEF ToSet
<1>6. order' = r
  BY <1>3 DEF EndedAs
<1>7. order # <<>> => order[1] \in Children \ {f}
  BY <1>1, <1>3, <1>5 DEF EndedAs
<1>8. /\ ToSet(order') = {g \in Children : exit'[g] # None}
      /\ ToSet(order') = ended' \cap Children
  BY <1>1, <1>2, <1>3, <1>4, <1>6 DEF EndedAs
<1>9. \A g \in Children : exit'[g] = "success" => g \notin interrupted'
  <2>1. \A g \in Children : exit[g] = "success" => g \notin interrupted
    BY DEF CombInv, ExitsOK
  <2> QED
    BY <1>2, <2>1 DEF EndedAs
<1>10. f \in effects \/ (f = Continuation /\ program = "raceWith" /\ stage \in {"continued", "answered"})
  BY DEF CombInv, FibersOK, EndedAs
<1>11. stage \in {"waiting", "continued", "answered", "thrown"}
  BY DEF CombInv, FibersOK, CombinatorTypeOK, CallStages, EndedAs
<1> QED
  BY <1>1, <1>2, <1>3, <1>4, <1>5, <1>6, <1>7, <1>8, <1>9, <1>10, <1>11

\* The combinator answers with y.
LEMMA RespondKeeps ==
  ASSUME CombInv, NEW f \in Children, NEW x, EndedAs(f, x), NEW y \in Exits,
         stage \in {"waiting", "continued"}, Respond(y), AnswerJustified',
         y = "success" /\ program \in {"zipPar", "collectAllPar"} => effects \subseteq ended',
         program = "raceWith" => Continuation \in ended'
  PROVE  CombInv'
<1>1. /\ stage' = "answered" /\ answer' = y /\ closeQueued' = TRUE
      /\ UNCHANGED <<unheard, owner>>
  BY DEF Respond
<1>2. /\ UNCHANGED <<phase, interrupted, program, effects>> /\ program # "scopes"
      /\ ended' = ended \cup {f} /\ owner[f] # None
  BY DEF EndedAs
<1>3. CombinatorTypeOK'
  BY <1>1, <1>2, EndedFacts DEF CombInv, CombinatorTypeOK, CallStages
<1>4. NoCall' /\ SomebodyAnswers'
  BY <1>1, <1>2 DEF NoCall, SomebodyAnswers
<1>5. FibersOK'
  <2>1. /\ order' \in Seq(Children) /\ ToSet(order') = ended' \cap Children
    BY EndedFacts
  <2> QED
    BY <1>1, <1>2, <2>1 DEF CombInv, FibersOK
<1>6. ExitsOK'
  <2>1. order' # <<>> /\ \A g \in Children : exit'[g] = "success" => g \notin interrupted'
    BY EndedFacts
  <2> QED
    BY <1>1, <1>2, <2>1 DEF ExitsOK
<1> QED
  BY <1>3, <1>4, <1>5, <1>6 DEF CombInv

\* The joiner does nothing: the call was decided, or it waits for others.
LEMMA IgnoredKeeps ==
  ASSUME CombInv, NEW f \in Children, NEW x, EndedAs(f, x), Ignored,
         stage = "waiting" => /\ program \in {"zipPar", "collectAllPar"}
                              /\ ~(effects \subseteq ended')
                              /\ program = "collectAllPar" => x # "failure",
         stage = "continued" => f # Continuation
  PROVE  CombInv'
<1>1. /\ UNCHANGED <<stage, answer, closeQueued, unheard, owner>>
  BY DEF Ignored
<1>2. /\ UNCHANGED <<phase, interrupted, program, effects>> /\ program # "scopes"
      /\ ended' = ended \cup {f} /\ owner[f] # None /\ f \notin ended
  BY DEF EndedAs
<1>3. CombinatorTypeOK'
  BY <1>1, <1>2, EndedFacts DEF CombInv, CombinatorTypeOK
<1>4. NoCall' /\ SomebodyAnswers'
  BY <1>1, <1>2 DEF CombInv, NoCall, SomebodyAnswers
<1>5. FibersOK'
  <2>1. /\ order' \in Seq(Children) /\ ToSet(order') = ended' \cap Children
    BY EndedFacts
  <2> QED
    BY <1>1, <1>2, <2>1 DEF CombInv, FibersOK
<1>6. ExitsOK'
  <2>1. order' # <<>> /\ \A g \in Children : exit'[g] = "success" => g \notin interrupted'
    BY EndedFacts
  <2>2. stage = "waiting" /\ program = "collectAllPar" => \A g \in effects : ~Failed(g)'
    <3> SUFFICES ASSUME stage = "waiting", program = "collectAllPar", NEW g \in effects
                 PROVE  exit'[g] # "failure"
      BY DEF Failed
    <3>1. exit[g] # "failure" /\ g \in Children
      BY CombinatorFibers DEF CombInv, ExitsOK, CombinatorTypeOK, Failed
    <3> QED
      BY <3>1, EndedFacts
  <2>3. /\ stage = "waiting" => program \notin {"race", "raceWith"}
        /\ effects \subseteq ended => effects \subseteq ended'
        /\ Continuation \in ended => Continuation \in ended'
        /\ Began(Inner)' <=> Began(Inner)
    BY <1>2 DEF Began
  <2> QED
    BY <1>1, <1>2, <2>1, <2>2, <2>3 DEF CombInv, ExitsOK
<1>7. AnswerJustified'
  <2> SUFFICES ASSUME stage = "answered" PROVE AnswerJustified'
    BY <1>1 DEF AnswerJustified
  <2>1. /\ order # <<>> /\ answer \in Exits \cup {None}
        /\ answer = "success" /\ program \in {"zipPar", "collectAllPar"} => effects \subseteq ended
        /\ program = "raceWith" => Continuation \in ended
        /\ effects \subseteq Children /\ Continuation \in Children
        /\ program \in Programs
    BY CombinatorFibers DEF CombInv, ExitsOK, CombinatorTypeOK
  <2>2. order'[1] = order[1] /\ exit'[order[1]] = exit[order[1]]
    BY <2>1, EndedFacts
  <2>3. program = "raceWith" => exit'[Continuation] = exit[Continuation]
    BY <1>2, <2>1, EndedFacts
  <2>4. answer = "success" /\ program \in {"zipPar", "collectAllPar"}
          => \A g \in effects : exit'[g] = exit[g]
    BY <1>2, <2>1, EndedFacts
  <2>5. \A g \in effects : Failed(g) => Failed(g)'
    <3> SUFFICES ASSUME NEW g \in effects, exit[g] = "failure" PROVE exit'[g] = "failure"
      BY DEF Failed
    <3>1. g # f
      <4>1. exit[f] = None
        BY EndedFacts
      <4> QED
        BY <4>1, CombinatorFibers DEF Exits
    <3> QED
      BY <2>1, <3>1, EndedFacts
  <2>6. program \in {"race", "raceWith", "zipPar", "collectAllPar"}
    BY <1>2, <2>1, StructuredAssumption
  <2>7. CASE program = "race"
    BY <1>1, <1>2, <2>2, <2>7 DEF CombInv, AnswerJustified
  <2>8. CASE program = "raceWith"
    BY <1>1, <1>2, <2>3, <2>8 DEF CombInv, AnswerJustified
  <2>9. CASE program \in {"zipPar", "collectAllPar"}
    <3>1. /\ answer = "success" => \A g \in effects : exit[g] = "success"
          /\ answer = "failure" => \E g \in effects : Failed(g)
      BY <2>9 DEF CombInv, AnswerJustified
    <3>2. /\ answer = "success" => \A g \in effects : exit'[g] = "success"
          /\ answer = "failure" => \E g \in effects : Failed(g)'
      BY <2>4, <2>5, <2>9, <3>1
    <3> QED
      BY <1>1, <1>2, <2>9, <3>2 DEF AnswerJustified
  <2> QED
    BY <2>6, <2>7, <2>8, <2>9
<1> QED
  BY <1>3, <1>4, <1>5, <1>6, <1>7 DEF CombInv

\* What an end does to the scopes, whatever the combinator makes of it.
LEMMA EffectScopes ==
  ASSUME ScopeInv, NEW f \in Children, FiberEnds(f), UNCHANGED <<parent, subScopes, finalizers>>,
         owner' = owner \/ (owner' = [owner EXCEPT ![Continuation] = Inner] /\ phase[Inner] = "open")
  PROVE  ScopeInv'
<1>1. /\ owner \in [Children -> Scopes \cup {None}] /\ ended' = ended \cup {f}
      /\ UNCHANGED <<closeVars, callVars, phase, interrupted, ran, result>>
  BY DEF ScopeInv, TypeOK, FiberEnds
<1>2. /\ owner' \in [Children -> Scopes \cup {None}]
      /\ \A g \in Children : owner'[g] = owner[g] \/ ~Began(owner'[g])
  BY <1>1, CombinatorFibers DEF Began
<1>3. FiberStep
  BY <1>1, <1>2 DEF FiberStep, Began
<1> QED
  BY <1>3, FiberStepKeeps

\* raceWith() has seen the first end: it goes on, or its fork throws.
LEMMA TellRaceWithKeeps ==
  ASSUME CombInv, NEW f \in Children, NEW x, EndedAs(f, x), stage = "waiting",
         program = "raceWith", owner \in [Children -> Scopes \cup {None}], TellRaceWith(f)
  PROVE  CombInv'
<1>1. /\ UNCHANGED <<phase, interrupted, program, effects, answer, closeQueued>>
      /\ ended' = ended \cup {f} /\ owner[f] # None /\ f \notin ended
      /\ stage' \in {"continued", "thrown"} /\ unheard' \subseteq unheard \cup {f}
      /\ \/ owner' = owner /\ stage' = "thrown"
         \/ owner' = [owner EXCEPT ![Continuation] = Inner] /\ stage' = "continued"
  BY DEF EndedAs, TellRaceWith
<1>2. /\ order' \in Seq(Children) /\ order' # <<>> /\ ToSet(order') = ended' \cap Children
      /\ \A g \in Children : exit'[g] = "success" => g \notin interrupted'
      /\ exit' \in [Children -> Exits \cup {None}]
      /\ ToSet(order') = {g \in Children : exit'[g] # None}
  BY EndedFacts
<1>3. /\ \A g \in Children : owner[g] # None => g \in effects
      /\ \A g \in Children : g \in ended => owner[g] # None
      /\ effects \subseteq {Left, Right} /\ answer = None /\ phase[Inner] # "absent"
  BY <1>1 DEF CombInv, FibersOK, ExitsOK, CombinatorTypeOK
<1>4. /\ Continuation \in Children /\ Continuation \notin effects /\ Inner # None
      /\ Continuation \notin ended /\ Continuation # f
  BY <1>1, <1>3, CombinatorFibers
<1>5. CombinatorTypeOK'
  BY <1>1, <1>2 DEF CombInv, CombinatorTypeOK, CallStages
<1>6. NoCall' /\ AnswerJustified' /\ SomebodyAnswers'
  BY <1>1, <1>4 DEF NoCall, AnswerJustified, SomebodyAnswers
<1>7. FibersOK'
  <2>1. /\ \A g \in Children : owner'[g] # None => owner[g] # None \/ (g = Continuation /\ stage' = "continued")
        /\ \A g \in Children : owner[g] # None => owner'[g] # None
        /\ stage' = "continued" => owner'[Continuation] = Inner
    BY <1>1, <1>4
  <2>2. \A g \in Children : g \in ended' => owner'[g] # None
    BY <1>1, <1>3, <2>1
  <2>3. \A g \in Children : owner'[g] # None => g \in effects \/ (g = Continuation /\ stage' = "continued")
    BY <1>3, <2>1
  <2> QED
    BY <1>1, <1>2, <1>3, <2>1, <2>2, <2>3 DEF FibersOK
<1>8. ExitsOK'
  BY <1>1, <1>2, <1>3 DEF ExitsOK
<1> QED
  BY <1>5, <1>6, <1>7, <1>8 DEF CombInv

LEMMA TellKeeps ==
  ASSUME CombInv, NEW f \in Children, NEW x, EndedAs(f, x), Tell(f),
         owner \in [Children -> Scopes \cup {None}]
  PROVE  CombInv'
<1>1. /\ exit[f] = None /\ exit'[f] = x /\ x \in Exits
      /\ order = <<>> => order'[1] = f
      /\ f \in effects \/ (f = Continuation /\ program = "raceWith" /\ stage \in {"continued", "answered"})
      /\ stage \in {"waiting", "continued", "answered", "thrown"}
  BY EndedFacts DEF EndedAs
<1>2. /\ program' = program /\ effects' = effects /\ ended' = ended \cup {f}
      /\ program \in {"race", "zipPar", "collectAllPar", "raceWith"}
      /\ effects \subseteq {Left, Right} /\ {Left, Right, Continuation} \subseteq Children
      /\ Continuation \notin effects
  <2>1. program \in Programs /\ program # "scopes" /\ effects \subseteq {Left, Right}
    BY DEF CombInv, CombinatorTypeOK, EndedAs
  <2> QED
    BY <2>1, StructuredAssumption, CombinatorFibers DEF EndedAs
<1>3. CASE stage = "continued" /\ f = Continuation
  <2>1. program = "raceWith" /\ Respond(x)
    BY <1>1, <1>3 DEF CombInv, FibersOK, EndedAs, Tell
  <2>2. AnswerJustified'
    BY <1>1, <1>2, <1>3, <2>1 DEF AnswerJustified, Respond
  <2>3. Continuation \in ended' /\ x \in Exits
    BY <1>1, <1>2, <1>3
  <2> QED
    BY <1>3, <2>1, <2>2, <2>3, RespondKeeps
<1>4. CASE stage = "waiting" /\ program = "race"
  <2>1. Respond(x) /\ order = <<>>
    BY <1>1, <1>4 DEF CombInv, ExitsOK, Tell
  <2>2. AnswerJustified'
    BY <1>1, <1>2, <1>4, <2>1 DEF AnswerJustified, Respond
  <2> QED
    BY <1>1, <1>4, <2>1, <2>2, RespondKeeps
<1>5. CASE stage = "waiting" /\ program = "zipPar"
  <2>1. TellZip(f)
    BY <1>5 DEF Tell
  <2>2. CASE effects \subseteq ended'
    <3>1. PICK y : y = Both(exit')
      OBVIOUS
    <3>2. y \in Exits /\ Respond(y)
      BY <2>1, <2>2, <3>1 DEF TellZip, Both, Exits
    <3>3. /\ y = "success" => \A g \in effects : exit'[g] = "success"
          /\ y = "failure" => \E g \in effects : exit'[g] # "success"
      BY <3>1 DEF Both
    <3>4. \A g \in effects : exit'[g] \in Exits
      <4>1. /\ exit' \in [Children -> Exits \cup {None}]
            /\ ToSet(order') = {g \in Children : exit'[g] # None} /\ ToSet(order') = ended' \cap Children
        BY EndedFacts
      <4> QED
        BY <1>2, <2>2, <4>1
    <3>5. AnswerJustified'
      <4>1. \A g \in effects : exit'[g] # "success" => exit'[g] = "failure"
        BY <3>4 DEF Exits
      <4>2. stage' = "answered" /\ answer' = y
        BY <3>2 DEF Respond
      <4> QED
        BY <1>2, <1>5, <3>3, <4>1, <4>2 DEF AnswerJustified, Failed
    <3> QED
      BY <1>1, <1>5, <2>2, <3>2, <3>5, RespondKeeps
  <2>3. CASE ~(effects \subseteq ended')
    BY <1>5, <2>1, <2>3, IgnoredKeeps DEF TellZip
  <2> QED
    BY <2>2, <2>3
<1>6. CASE stage = "waiting" /\ program = "collectAllPar"
  <2>1. TellCollect(f) /\ f \in effects
    BY <1>1, <1>6 DEF Tell
  <2>2. CASE x = "failure" \/ effects \subseteq ended'
    <3>1. Respond(x)
      BY <1>1, <2>1, <2>2 DEF TellCollect
    <3>2. x = "success" => effects \subseteq ended'
      BY <2>2
    <3>3. x = "success" => \A g \in effects : exit'[g] = "success"
      <4> SUFFICES ASSUME x = "success", NEW g \in effects PROVE exit'[g] = "success"
        OBVIOUS
      <4>1. g \in Children /\ g \in ended'
        BY <1>2, <3>2
      <4>2. CASE g = f
        BY <1>1, <4>2
      <4>3. CASE g # f
        <5>1. exit'[g] = exit[g] /\ exit[g] # None /\ exit[g] \in Exits \cup {None}
          BY <1>2, <4>1, <4>3, EndedFacts DEF CombInv, CombinatorTypeOK
        <5>2. exit[g] # "failure"
          BY <1>6 DEF CombInv, ExitsOK, Failed
        <5> QED
          BY <5>1, <5>2 DEF Exits
      <4> QED
        BY <4>2, <4>3
    <3>4. AnswerJustified'
      <4>1. stage' = "answered" /\ answer' = x
        BY <3>1 DEF Respond
      <4>2. x = "failure" => \E g \in effects : exit'[g] = "failure"
        BY <1>1, <2>1
      <4> QED
        BY <1>2, <1>6, <3>3, <4>1, <4>2 DEF AnswerJustified, Failed
    <3> QED
      BY <1>1, <1>6, <3>1, <3>2, <3>4, RespondKeeps
  <2>3. CASE ~(x = "failure" \/ effects \subseteq ended')
    BY <1>1, <1>6, <2>1, <2>3, IgnoredKeeps DEF TellCollect
  <2> QED
    BY <2>2, <2>3
<1>7. CASE stage = "waiting" /\ program = "raceWith"
  BY <1>7, TellRaceWithKeeps DEF Tell
<1>8. CASE stage \in {"answered", "thrown"} \/ (stage = "continued" /\ f # Continuation)
  <2>1. Ignored
    BY <1>8 DEF Tell
  <2> QED
    BY <1>8, <2>1, IgnoredKeeps
<1> QED
  BY <1>1, <1>2, <1>3, <1>4, <1>5, <1>6, <1>7, <1>8

LEMMA EffectEndsStep ==
  ASSUME ScopeInv, CombInv, NEW f \in Children, EffectEnds(f) PROVE ScopeInv' /\ CombInv'
<1>1. PICK x \in Exits : (f \in interrupted => x = "failure") /\ exit' = [exit EXCEPT ![f] = x]
  BY DEF EffectEnds
<1>2. /\ program # "scopes" /\ FiberEnds(f) /\ order' = Append(order, f) /\ Tell(f)
      /\ UNCHANGED <<parent, subScopes, finalizers, program, effects>>
  BY DEF EffectEnds
<1>3. EndedAs(f, x)
  BY <1>1, <1>2 DEF EndedAs, FiberEnds
<1>4. owner \in [Children -> Scopes \cup {None}]
  BY DEF ScopeInv, TypeOK
<1>5. owner' = owner \/ (owner' = [owner EXCEPT ![Continuation] = Inner] /\ phase[Inner] = "open")
  <2>1. Tell(f) => \/ \E y : Respond(y)
                   \/ Ignored \/ TellRaceWith(f)
    BY DEF Tell, TellZip, TellCollect
  <2> QED
    BY <1>2, <2>1 DEF Respond, Ignored, TellRaceWith
<1> QED
  BY <1>2, <1>3, <1>4, <1>5, EffectScopes, TellKeeps

-----------------------------------------------------------------------------
(* The invariant holds *)

LEMMA ClosingStepOk ==
  ASSUME ScopeInv, CombInv, NEW s \in Scopes, ClosingStep(s) PROVE ScopeInv' /\ CombInv'
<1>1. ClosingStepOf(s) /\ UNCHANGED combVars
  BY DEF ClosingStep
<1> QED
  BY <1>1, ClosingStepKeeps, ClosingFrame, CombFrameKeeps

LEMMA InitHolds == StructuredInit => ScopeInv /\ CombInv
<1> SUFFICES ASSUME StructuredInit PROVE ScopeInv /\ CombInv
  OBVIOUS
<1>1. /\ parent = [s \in Scopes |-> None] /\ subScopes = [s \in Scopes |-> <<>>]
      /\ phase = [s \in Scopes |-> IF s = Root THEN "open" ELSE "absent"]
      /\ owner = [f \in Children |-> None] /\ ended = {} /\ interrupted = {}
      /\ finalizers = [s \in Scopes |-> 0]
      /\ todo = [s \in Scopes |-> <<>>] /\ awaited = [s \in Scopes |-> None]
      /\ kids = [s \in Scopes |-> {}] /\ left = [s \in Scopes |-> 0]
      /\ inFinalizer = [s \in Scopes |-> FALSE] /\ ran = [s \in Scopes |-> <<>>]
      /\ closing = [c \in AllCallers |-> None] /\ answered = [c \in AllCallers |-> None]
      /\ result = "pending"
  BY DEF StructuredInit, Init
<1>2. /\ program \in Programs /\ effects \subseteq {Left, Right}
      /\ stage = "before" /\ order = <<>> /\ exit = [f \in Children |-> None]
      /\ answer = None /\ closeQueued = FALSE /\ unheard = {}
  BY DEF StructuredInit
<1>3. /\ Root \in Scopes /\ Subs \subseteq Scopes /\ Root \notin Subs /\ \A s \in Scopes : s # None
      /\ OnEnd \in AllCallers /\ Callers \subseteq AllCallers /\ 0 \in 0..MaxFinalizers
      /\ MaxFinalizers \in Nat
  BY ScopeAssumption DEF Scopes, AllCallers
<1>4. TypeOK
  <2>1. <<>> \in Seq(Subs) /\ <<>> \in Seq(1..MaxFinalizers)
    OBVIOUS
  <2> QED
    BY <1>1, <1>3, <2>1 DEF TypeOK
<1>5. TreeOK
  <2>1. ASSUME NEW s \in Scopes
        PROVE IsInjective(subScopes[s]) /\ ToSet(subScopes[s]) = {x \in Subs : parent[x] = s}
    BY <1>1, <1>3 DEF IsInjective, ToSet
  <2> QED
    BY <1>1, <1>3, <2>1 DEF TreeOK
<1>6. ResultOK /\ CallsOK
  BY <1>1, <1>3 DEF ResultOK, CallsOK, Began
<1>7. ASSUME NEW s \in Scopes PROVE OwnedOK(s) /\ ChainOK(s) /\ OrderOK(s)
  <2>1. phase[s] \in {"absent", "open"}
    BY <1>1
  <2>2. OwnedOK(s) /\ ChainOK(s)
    BY <1>1, <2>1 DEF OwnedOK, ChainOK, Began
  <2>3. OrderOK(s)
    BY <1>1, <2>1 DEF OrderOK
  <2> QED
    BY <2>2, <2>3
<1>8. \A x \in Subs : LeftToParent(x)
  BY <1>1, <1>3 DEF LeftToParent
<1>9. CombInv
  <2>1. phase[Inner] = "absent" /\ Inner # Root
    BY <1>1, <1>3, CombinatorFibers
  <2>2. CombinatorTypeOK
    BY <1>1, <1>2 DEF CombinatorTypeOK, CallStages, ToSet
  <2>3. FibersOK
    <3>1. <<>> \in Seq(Children) /\ ToSet(<<>>) = {}
      BY DEF ToSet
    <3> QED
      BY <1>1, <1>2, <2>1, <3>1 DEF FibersOK
  <2>4. NoCall /\ AnswerJustified /\ SomebodyAnswers
    BY <1>2 DEF NoCall, AnswerJustified, SomebodyAnswers
  <2>5. ExitsOK
    BY <1>1, <1>2 DEF ExitsOK
  <2> QED
    BY <2>2, <2>3, <2>4, <2>5 DEF CombInv
<1> QED
  BY <1>4, <1>5, <1>6, <1>7, <1>8, <1>9 DEF ScopeInv

LEMMA NextKeeps ==
  ScopeInv /\ CombInv /\ [StructuredNext]_allVars => ScopeInv' /\ CombInv'
<1> SUFFICES ASSUME ScopeInv, CombInv, [StructuredNext]_allVars PROVE ScopeInv' /\ CombInv'
  OBVIOUS
<1>1. CASE Calls
  BY <1>1, CallsStep
<1>2. CASE CallRefused
  BY <1>2, CallRefusedStep
<1>3. CASE CloserRuns
  BY <1>3, CloserRunsStep
<1>4. ASSUME NEW f \in Children, EffectEnds(f) PROVE ScopeInv' /\ CombInv'
  BY <1>4, EffectEndsStep
<1>5. ASSUME NEW s \in Scopes, ClosingStep(s) PROVE ScopeInv' /\ CombInv'
  BY <1>5, ClosingStepOk
<1>6. CASE ScopeSteps /\ UNCHANGED combVars
  BY <1>6, ScopeStepsStep, CombFrameKeeps
<1>7. CASE UNCHANGED allVars
  <2>1. /\ UNCHANGED <<parent, subScopes, owner, finalizers, phase, ended, interrupted, ran,
                       result, todo, awaited, kids, left, inFinalizer, closing, answered>>
        /\ UNCHANGED <<program, effects, stage, order, exit, answer, closeQueued, unheard>>
    BY <1>7 DEF allVars, vars, treeVars, closeVars, callVars, combVars, callStateVars
  <2>2. ScopeInv'
    <3>1. TypeOK' /\ TreeOK' /\ ResultOK' /\ CallsOK'
      BY <2>1 DEF ScopeInv, TypeOK, TreeOK, ResultOK, CallsOK, ClosedByOthers, Began
    <3>2. \A s \in Scopes : OwnedOK(s)' /\ ChainOK(s)' /\ OrderOK(s)'
      BY <2>1 DEF ScopeInv, OwnedOK, ChainOK, OrderOK, Began
    <3>3. \A x \in Subs : LeftToParent(x)'
      BY <2>1 DEF ScopeInv, LeftToParent, ClosedByOthers, Began
    <3> QED
      BY <3>1, <3>2, <3>3 DEF ScopeInv
  <2>3. CombFrame
    BY <2>1 DEF CombFrame, CombInv, FibersOK, combVars, callStateVars, Began
  <2> QED
    BY <2>2, <2>3, CombFrameKeeps
<1> QED
  BY <1>1, <1>2, <1>3, <1>4, <1>5, <1>6, <1>7 DEF StructuredNext

-----------------------------------------------------------------------------
(* What the invariant says of the order of a close *)

\* While a scope closes its sub-scopes, those still to close are the oldest.
LEMMA StillToClose ==
  ASSUME ScopeInv, NEW s \in Scopes, NEW i \in DOMAIN subScopes[s]
  PROVE  /\ Len(todo[s]) \in Nat /\ i \in Nat
         /\ subScopes[s][i] \in ToSet(todo[s]) <=> i <= Len(todo[s])
         /\ awaited[s] = subScopes[s][i] => i = Len(todo[s])
<1>1. PICK q, t, a : q = subScopes[s] /\ t = todo[s] /\ a = awaited[s]
  OBVIOUS
<1>2. /\ q \in Seq(Subs) /\ t \in Seq(Subs) /\ IsInjective(q) /\ \A x \in Subs : x # None
  BY <1>1, ScopeAssumption DEF ScopeInv, TypeOK, TreeOK
<1>3. /\ Len(t) <= Len(q) /\ \A k \in DOMAIN t : t[k] = q[Len(t) + 1 - k]
      /\ a # None => t # <<>> /\ a = Head(t)
  BY <1>1 DEF ScopeInv, OrderOK
<1>4. PICK n, m : n = Len(t) /\ m = Len(q)
  OBVIOUS
<1>5. n \in Nat /\ m \in Nat /\ n <= m /\ DOMAIN t = 1..n /\ DOMAIN q = 1..m /\ i \in 1..m
  BY <1>1, <1>2, <1>3, <1>4
<1>6. \A k \in 1..n : t[k] = q[n + 1 - k]
  BY <1>3, <1>4, <1>5
<1>7. \A k, l \in 1..m : q[k] = q[l] => k = l
  BY <1>2, <1>5 DEF IsInjective
<1>8. i <= n => q[i] \in ToSet(t)
  <2> SUFFICES ASSUME i <= n PROVE \E k \in 1..n : t[k] = q[i]
    BY <1>5 DEF ToSet
  <2>1. n + 1 - i \in 1..n /\ n + 1 - (n + 1 - i) = i
    BY <1>5
  <2> QED
    BY <1>6, <2>1
<1>9. q[i] \in ToSet(t) => i <= n
  <2> SUFFICES ASSUME q[i] \in ToSet(t) PROVE i <= n
    OBVIOUS
  <2>1. PICK k \in 1..n : t[k] = q[i]
    BY <1>5 DEF ToSet
  <2>2. n + 1 - k \in 1..m /\ n + 1 - k <= n
    BY <1>5
  <2>3. q[n + 1 - k] = q[i]
    BY <1>6, <2>1
  <2>4. n + 1 - k = i
    BY <1>5, <1>7, <2>2, <2>3
  <2> QED
    BY <2>2, <2>4
<1>10. a = q[i] => i = n
  <2> SUFFICES ASSUME a = q[i] PROVE i = n
    OBVIOUS
  <2>1. q[i] \in Subs
    BY <1>2, <1>5
  <2>2. t # <<>> /\ a = Head(t)
    BY <1>2, <1>3, <2>1
  <2>3. 1 \in 1..n /\ t[1] = a
    BY <1>2, <1>4, <1>5, <2>2
  <2>4. n \in 1..m /\ q[n] = q[i]
    BY <1>5, <1>6, <2>3
  <2> QED
    BY <1>5, <1>7, <2>4
<1> QED
  BY <1>1, <1>4, <1>5, <1>8, <1>9, <1>10

\* A finalizer of s ran: the sub-scopes left to s are closed.
LEMMA ParentAfterChildren ==
  ASSUME ScopeInv, NEW x \in Subs, parent[x] # None, ~ClosedByOthers(x) PROVE ChildBeforeParent(x)
<1>1. PICK p \in Scopes : p = parent[x]
  BY DEF ScopeInv, TypeOK, Scopes
<1>2. SUFFICES ASSUME ran[p] # <<>> PROVE phase[x] = "closed"
  BY <1>1 DEF ChildBeforeParent
<1>3. phase[p] \in {"finalizers", "closed"}
  BY <1>2 DEF ScopeInv, TypeOK, ChainOK, ClosingPhases
<1> QED
  BY <1>1, <1>3 DEF ScopeInv, LeftToParent

\* Of two sub-scopes left to their parent the younger is closed first.
LEMMA YoungestFirst ==
  ASSUME ScopeInv, NEW s \in Scopes, NEW i \in DOMAIN subScopes[s], NEW j \in DOMAIN subScopes[s],
         i < j, NEW x, x = subScopes[s][i], NEW y, y = subScopes[s][j],
         ~ClosedByOthers(x), ~ClosedByOthers(y), ran[x] # <<>>
  PROVE  phase[y] = "closed"
<1>1. /\ x \in Subs /\ y \in Subs /\ parent[x] = s /\ parent[y] = s /\ s # None /\ x \in Scopes
  <2>1. x \in ToSet(subScopes[s]) /\ y \in ToSet(subScopes[s])
    BY DEF ToSet
  <2>2. ToSet(subScopes[s]) = {z \in Subs : parent[z] = s}
    BY DEF ScopeInv, TreeOK
  <2> QED
    BY <2>1, <2>2, ScopeAssumption DEF Scopes
<1>2. phase[x] \in {"finalizers", "closed"}
  BY <1>1 DEF ScopeInv, TypeOK, ChainOK, ClosingPhases
<1>3. LeftToParent(x) /\ LeftToParent(y)
  BY <1>1 DEF ScopeInv
<1>4. phase[s] \in ClosingPhases \cup {"closed"}
  BY <1>1, <1>2, <1>3 DEF ScopeInv, TypeOK, LeftToParent, Began
<1>5. CASE phase[s] = "subs"
  <2>1. y \notin ToSet(todo[s])
    <3>1. PICK n : n = Len(todo[s]) /\ n \in Nat /\ i \in Nat /\ j \in Nat
      BY StillToClose
    <3>2. y \in ToSet(todo[s]) <=> j <= n
      BY <3>1, StillToClose
    <3>3. x \in ToSet(todo[s]) <=> i <= n
      BY <3>1, StillToClose
    <3>4. awaited[s] = x => i = n
      BY <3>1, StillToClose
    <3>5. x \in ToSet(todo[s]) => awaited[s] = x
      BY <1>1, <1>2, <1>3, <1>5 DEF LeftToParent
    <3> QED
      BY <3>1, <3>2, <3>3, <3>4, <3>5
  <2> QED
    BY <1>1, <1>3, <1>5, <2>1 DEF LeftToParent
<1>6. CASE phase[s] \in {"children", "finalizers", "closed"}
  BY <1>1, <1>3, <1>6 DEF LeftToParent
<1> QED
  BY <1>4, <1>5, <1>6 DEF ClosingPhases

LEMMA InvSaysInOrder == ScopeInv => ClosedInOrder
<1> SUFFICES ASSUME ScopeInv PROVE ClosedInOrder
  OBVIOUS
<1>1. TypeOK
  BY DEF ScopeInv
<1>2. NoOrphans
  BY DEF ScopeInv, NoOrphans, OwnedOK, Began
<1>3. LastRegisteredFirst
  BY DEF ScopeInv, LastRegisteredFirst, ChainOK
<1>4. SubScopesInOrder
  BY ParentAfterChildren, YoungestFirst DEF SubScopesInOrder
<1>5. ResultAfterClose
  BY DEF ScopeInv, ResultOK, ResultAfterClose
<1> QED
  BY <1>1, <1>2, <1>3, <1>4, <1>5 DEF ClosedInOrder

LEMMA InvSaysExact == ScopeInv /\ CombInv => CombinatorExact
<1> SUFFICES ASSUME ScopeInv, CombInv PROVE CombinatorExact
  OBVIOUS
<1>1. /\ stage # "answered" => answer = None
      /\ stage = "answered" => closeQueued \/ Began(Inner)
      /\ stage = "answered" => program # "scopes"
      /\ stage = "answered" /\ program # "scopes" => phase[Inner] # "absent"
      /\ \A f \in Children : exit[f] = "success" => f \notin interrupted
      /\ effects \subseteq Children
  BY CombinatorFibers DEF CombInv, ExitsOK, NoCall, FibersOK, CombinatorTypeOK
<1>2. SuccessUndisturbed
  <2> SUFFICES ASSUME answer = "success", program \in {"zipPar", "collectAllPar"}
               PROVE  effects \cap interrupted = {}
    BY DEF SuccessUndisturbed
  <2>1. stage = "answered"
    BY <1>1, CombinatorFibers DEF Exits
  <2>2. \A f \in effects : exit[f] = "success"
    BY <2>1 DEF CombInv, AnswerJustified
  <2> QED
    BY <1>1, <2>2
<1>3. LosersStopped
  <2> SUFFICES ASSUME stage = "answered", NEW f \in Children, owner[f] = Inner, f \notin ended,
                      f \notin interrupted
               PROVE  closeQueued /\ phase[Inner] = "open"
    BY DEF LosersStopped
  <2>1. ~Began(Inner)
    BY CombinatorFibers DEF ScopeInv, OwnedOK
  <2> QED
    BY <1>1, <2>1 DEF Began
<1> QED
  BY <1>2, <1>3 DEF CombInv, CombinatorExact

-----------------------------------------------------------------------------

LEMMA InvHolds == StructuredSpec => [](ScopeInv /\ CombInv)
BY InitHolds, NextKeeps, PTL DEF StructuredSpec

\* Whatever the owners of the scopes, the users of closeAsync() and the
\* combinator do, a close is orderly (closeAsync() in scope.ts): no fiber of a
\* scope is alive beside its finalizers, these run once each and the last
\* registered first, sub-scopes left to their parent close before it and the
\* youngest first, and withScopeAsync() answers after all of it.
THEOREM ClosedInOrderTheorem == StructuredSpec => []ClosedInOrder
BY InvHolds, InvSaysInOrder, PTL

\* A call of race(), zipPar(), collectAllPar() or raceWith() answers what the
\* ends of its effects justify (structuredConcurrency.ts), never leaves its
\* caller with nobody to answer, and leaves no effect running behind the answer.
THEOREM CombinatorExactTheorem == StructuredSpec => []CombinatorExact
BY InvHolds, InvSaysExact, PTL
=============================================================================
