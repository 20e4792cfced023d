--------------------------- MODULE FiberContract ---------------------------
(***************************************************************************)
(* What a Fiber promises to the code that holds it (the type Fiber of      *)
(* core/runtime/fiber.ts: join, interrupt, status), whatever it evaluates: *)
(* it ends at most once, an interrupt requested before the end rules out a *)
(* success, and each joiner is told the one published exit, once.          *)
(***************************************************************************)
CONSTANTS Joiners, None

VARIABLES requested, \* interrupt() was called
          committed, \* the exit decided, finalizers not yet over
          exit,      \* the exit visible to joiners
          waiting,   \* joiners not yet told
          told       \* what each joiner was told

vars == <<requested, committed, exit, waiting, told>>

Success == {}
Exits == SUBSET {"fail", "die", "interrupt"}

Init == /\ requested = FALSE /\ committed = None /\ exit = None
        /\ waiting = {} /\ told = [j \in Joiners |-> None]

\* interrupt(), a refused one included: the scheduler's refusal to take the step
\* is itself the end of the fiber.
Request ==
  /\ ~requested /\ exit = None /\ requested' = TRUE
  /\ committed' \in IF committed = None THEN {None, {"die"}} ELSE {committed}
  /\ UNCHANGED <<exit, waiting, told>>

Commit(e) ==
  /\ committed = None
  /\ requested => e # Success
  /\ committed' = e
  /\ UNCHANGED <<requested, exit, waiting, told>>

Publish ==
  /\ committed # None /\ exit = None
  /\ exit' = committed
  /\ UNCHANGED <<requested, committed, waiting, told>>

Join(j) ==
  /\ j \notin waiting /\ told[j] = None
  /\ IF exit = None THEN waiting' = waiting \union {j} /\ UNCHANGED told
                    ELSE told' = [told EXCEPT ![j] = exit] /\ UNCHANGED waiting
  /\ UNCHANGED <<requested, committed, exit>>

Tell(j) ==
  /\ exit # None /\ j \in waiting
  /\ waiting' = waiting \ {j}
  /\ told' = [told EXCEPT ![j] = exit]
  /\ UNCHANGED <<requested, committed, exit>>

Next == \/ Request \/ Publish
        \/ \E e \in Exits : Commit(e)
        \/ \E j \in Joiners : Join(j) \/ Tell(j)

Spec == Init /\ [][Next]_vars
=============================================================================
