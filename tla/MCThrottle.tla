----------------------------- MODULE MCThrottle -----------------------------
(***************************************************************************)
(* Instance of Throttle for TLC: blanket, split, half-split and dry-run     *)
(* configurations, and more keys than the enclave tracks.                   *)
(***************************************************************************)
EXTENDS Throttle, TLC

CONSTANTS r1, r2, k1, k2, k3, k4

Config(rate, orders, cancels, dry) ==
    [caps |-> [b \in Buckets |-> CASE b = "rate" -> rate [] b = "orders" -> orders [] OTHER -> cancels],
     dry |-> dry]

MCConfigs == {Config(1, NoCap, NoCap, FALSE), Config(NoCap, 2, NoCap, FALSE), Config(NoCap, 1, 1, TRUE)}

\* Either throttle in depth, next to the first steps of the other.
InDepth ==
    \/ now = 0 /\ Len(tracked) <= 1 /\ asks <= 4
    \/ clock = 1 /\ \A b \in Buckets, t \in Tokens : newest[b][t] = 0 /\ admitted[b][t][0] = 0

Symmetry == Permutations({r1, r2}) \cup Permutations({k1, k2, k3, k4})
=============================================================================
