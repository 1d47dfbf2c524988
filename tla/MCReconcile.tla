--------------------------- MODULE MCReconcile ---------------------------
(* Instances of Reconcile for TLC: tenants, venues and orders are model    *)
(* values; tasks and press threads are interchangeable.                    *)
EXTENDS Reconcile, TLC

CONSTANTS c1, c2, v1, v2, o1, o2

AllOwnedByC1 == [o \in Orders |-> c1]
OneBook == [o \in Orders |-> v1]
TwoBooks == (o1 :> v1) @@ (o2 :> v2)

\* A second press only while the other tenant was never stopped.
InDepth == spent.presses <= 1 \/ tenants[c2] = NoRecord

TaskSymmetry == Permutations(Jobs) \cup Permutations(Pressers)

=============================================================================
