---------------------------- MODULE HedgePromise ----------------------------
(***************************************************************************)
(* What the answer of POST /hedge promises about the two venue orders.      *)
(* Legs are placed at any time before the answer; after it only if the      *)
(* answer was "unknown".  The other answers are final and exact.            *)
(***************************************************************************)
CONSTANT Legs

VARIABLES
    live,   \* legs that are orders at a venue
    told    \* what the caller was told; "none" until then

Reports == {"executed", "partial", "failed", "rejected", "unknown"}

Init == live = {} /\ told = "none"

\* What a report says of the orders.
Truthful(status, orders) ==
    CASE status = "executed" -> orders = Legs
      [] status = "partial"  -> orders # {} /\ orders # Legs
      [] status \in {"failed", "rejected"} -> orders = {}
      [] OTHER -> TRUE

Place(l) ==
    /\ told \in {"none", "unknown"}
    /\ live' = live \cup {l}
    /\ UNCHANGED told

Report(status) ==
    /\ told = "none"
    /\ Truthful(status, live)
    /\ told' = status
    /\ UNCHANGED live

Next == (\E l \in Legs : Place(l)) \/ (\E status \in Reports : Report(status))

Spec == Init /\ [][Next]_<<live, told>>

=============================================================================
