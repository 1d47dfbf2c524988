-------------------------- MODULE MCDailyBudget --------------------------
(* An instance of DailyBudget for TLC: both budgets, orders of two keys,   *)
(* transfers of different sizes of one payer.                              *)
EXTENDS DailyBudget, TLC

OnePayer ==
    kind = "x402" =>
        \E k \in Keys :
            /\ \A r \in Requests : request[r] # NoRequest => request[r].key = k
            /\ \A other \in Keys \ {k} : cache.sums[other] = 0 /\ disk.sums[other] = 0

RequestSymmetry == Permutations(Requests) \cup Permutations(Keys)

=============================================================================
