--------------------------- MODULE MCReceipts ---------------------------
(* Instances of Receipts for TLC.  Later versions halt the first tenant  *)
(* and give the second token to it.                                      *)
EXTENDS Receipts, TLC

CONSTANTS c1, c2, t1, t2

Before == t1 :> [customer |-> c1, mode |-> "Active"] @@ t2 :> [customer |-> c2, mode |-> "CancelOnly"]
After == t1 :> [customer |-> c1, mode |-> "Halted"] @@ t2 :> [customer |-> c1, mode |-> "Active"]

TwoTenants == [v \in Versions |-> IF v = 1 THEN Before ELSE After]

\* Refreshes race in full depth while no request has arrived; next to requests
\* one refresh is in flight, of the first two versions and challenges.
Balanced ==
    \/ arrivals = 0 /\ key = NoKey
    \/ /\ issued <= 2 /\ head <= 2
       /\ \E k \in Calls : \A other \in Calls \ {k} : call[other] = NoCall

TaskSymmetry == Permutations(Requests) \cup Permutations(Calls)

=============================================================================
