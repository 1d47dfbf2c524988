------------------------------ MODULE Backoff ------------------------------
(***************************************************************************)
(* The gateway's circuit breaker (backoff.rs): one circuit per scope, a     *)
(* customer's key at a venue.  An answer that says rate_limited opens it;   *)
(* after its backoff every caller is let through, and the answer decides:   *)
(* success removes the circuit, another rate_limited doubles the backoff.   *)
(* The map is bounded: at the limit, circuits whose backoff is over make    *)
(* room, and if there is none the new circuit is not tracked.               *)
(***************************************************************************)
EXTENDS Integers, FiniteSets

CONSTANTS
    Scopes,
    MaxCircuits,   \* MAX_CIRCUITS
    MaxDoublings   \* log2(MAX_BACKOFF / INITIAL_BACKOFF), rounded up

ASSUME BackoffAssumption == MaxCircuits \in Nat \ {0} /\ MaxDoublings \in Nat

VARIABLES
    circuits,   \* NoCircuit, or how often it doubled and where its clock stands
    strikes,    \* history: rate_limited answers of a scope since its last success
    waits       \* history: backoffs a scope has sat out since its last success

backoffVars == <<circuits, strikes, waits>>

NoCircuit == [open |-> FALSE]
Circuits  == {NoCircuit} \cup
             [open : {TRUE}, doubled : 0..MaxDoublings, elapsed : BOOLEAN, half : BOOLEAN]

BackoffInit ==
    /\ circuits = [s \in Scopes |-> NoCircuit]
    /\ strikes = [s \in Scopes |-> 0]
    /\ waits = [s \in Scopes |-> 0]

Open == {s \in Scopes : circuits[s].open}

\* allow: no circuit, or its backoff has elapsed; then it is marked half-open.
Allows(s) == circuits[s].open => circuits[s].elapsed

Allow(s) ==
    /\ Allows(s)
    /\ circuits' = IF circuits[s].open THEN [circuits EXCEPT ![s].half = TRUE] ELSE circuits
    /\ UNCHANGED <<strikes, waits>>

ReportSuccess(s) ==
    /\ circuits' = [circuits EXCEPT ![s] = NoCircuit]
    /\ strikes' = [strikes EXCEPT ![s] = 0]
    /\ waits' = [waits EXCEPT ![s] = 0]

\* report_rate_limited at the limit: circuits whose backoff is over are dropped.
Pruned == [s \in Scopes |-> IF circuits[s].open /\ circuits[s].elapsed THEN NoCircuit
                            ELSE circuits[s]]

\* Mutated form of Struck: it stays half-open, so that each of the callers that
\* were let through together doubles the backoff.
StruckAgain(c) ==
    [open |-> TRUE, elapsed |-> FALSE, half |-> c.half,
     doubled |-> IF c.half /\ c.doubled < MaxDoublings THEN c.doubled + 1 ELSE c.doubled]

\* The circuit after a rate_limited answer: only a probe doubles the backoff, and
\* only the first of several to be answered.
Struck(c) ==
    [open |-> TRUE, elapsed |-> FALSE, half |-> FALSE,
     doubled |-> IF c.half /\ c.doubled < MaxDoublings THEN c.doubled + 1 ELSE c.doubled]

Fresh == [open |-> TRUE, elapsed |-> FALSE, half |-> FALSE, doubled |-> 0]

ReportRateLimited(s) ==
    /\ strikes' = [strikes EXCEPT ![s] = @ + 1]
    /\ LET full == Cardinality(Open) >= MaxCircuits /\ s \notin Open
           kept == IF full THEN Pruned ELSE circuits
           room == s \in Open \/ Cardinality({x \in Scopes : kept[x].open}) < MaxCircuits
       IN circuits' = IF ~room THEN kept
                      ELSE [kept EXCEPT ![s] = Struck(IF @.open THEN @ ELSE Fresh)]
    /\ UNCHANGED waits

\* Time passes: the backoff of an open circuit is over.
Elapse(s) ==
    /\ circuits[s].open
    /\ ~circuits[s].elapsed
    /\ circuits' = [circuits EXCEPT ![s].elapsed = TRUE]
    /\ waits' = [waits EXCEPT ![s] = @ + 1]
    /\ UNCHANGED strikes

-----------------------------------------------------------------------------

\* Types of the circuit breaker.
BackoffTypeOK ==
    /\ circuits \in [Scopes -> Circuits]
    /\ strikes \in [Scopes -> Nat] /\ waits \in [Scopes -> Nat]

\* A scope is held back only for what its own requests were told, and one backoff
\* sat out is doubled once, however many callers the half-open circuit let
\* through together: an open circuit that doubled n times has sat out at least n
\* backoffs and seen more than n rate_limited answers since the last success of
\* that scope, however requests of other customers and venues, probes and late
\* answers interleave.  The map never outgrows its bound (allow, report_success,
\* report_rate_limited).
BackoffIsEarned ==
    /\ \A s \in Open : circuits[s].doubled < strikes[s] /\ circuits[s].doubled <= waits[s]
    /\ Cardinality(Open) <= MaxCircuits

=============================================================================
