---------------------------- MODULE MCLifecycle ----------------------------
(* Three requests of one key and two of one batch key share one slot.      *)
(* Those of one kind differ in their names only, and come in their order.  *)
EXTENDS Lifecycle
CONSTANTS g1, g2, g3, p1, p2, k1
McGetters == {g1, g2, g3}
McPosters == {p1, p2}
McKeys == {k1}
McJobs == McGetters \cup McPosters \cup McKeys
McKeyOf == [r \in McGetters |-> k1]
McEarlier == [r \in McGetters \cup McPosters |->
                CASE r = g2 -> {g1} [] r = g3 -> {g2} [] r = p2 -> {p1} [] OTHER -> {}]
\* Posters are less urgent; an aged key is revalidated with the priority of
\* the request that found it old.
McPriority == [j \in McJobs |-> IF j \in McPosters THEN 5 ELSE 4]
=============================================================================
