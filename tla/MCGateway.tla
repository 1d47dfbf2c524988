----------------------------- MODULE MCGateway -----------------------------
(***************************************************************************)
(* Instance of Gateway for TLC: one slot asks anything, the others stop the *)
(* tenant or compete for the pool, the circuit and the enclave.             *)
(***************************************************************************)
EXTENDS Gateway

MCKindsOf   == [q \in Requests |-> IF q = "q1" THEN Kinds ELSE {"halt", "okxOrder"}]
MCApi       == <<[token |-> "t1", customer |-> "c1"]>>
MCOperators == <<[token |-> "t2", customer |-> "c1"]>>
MCScopes    == Customers \X {"binance", "okx", "hyperliquid", "wallet"}

Okx == <<"c1", "okx">>

\* The third slot is used in two stories only: once an order was answered with
\* rate_limited, two more meet at the half-open circuit; and while two orders fill
\* the pool, a third one or a stop comes in.
Crowded ==
    /\ spent.releases = 0 /\ spent.hedges = 0
    /\ \A q \in {"q1", "q2"} : task[q] # NoTask => task[q].kind = "okxOrder"
    /\ \/ strikes[Okx] > 0 /\ level["c1"] = Active
       \/ strikes[Okx] = 0 /\ Cardinality(Holding("sign")) = SignCap

Stories == spent.arrivals["q3"] = 1 => Crowded

=============================================================================
