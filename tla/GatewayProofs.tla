--------------------------- MODULE GatewayProofs ---------------------------
(***************************************************************************)
(* Proofs about the gateway at work, for any number of requests, tenants,   *)
(* tokens, pools and presses: a hedge keeps the promise of its answer, a    *)
(* circuit is opened only by what its own requests were told, the pools     *)
(* keep their bounds, a stop is final, no order is signed without a charge, *)
(* and the types are kept.                                                  *)
(***************************************************************************)
EXTENDS Gateway, FiniteSetTheorems, SequenceTheorems, WellFoundedInduction, TLAPS

-----------------------------------------------------------------------------
(* The execution of a hedge implements what its answer promises, for any    *)
(* number of legs and whatever the venues do.  The promise is about what    *)
(* the venues did; the invariant ties to it what the gateway recorded of    *)
(* each leg, and says that a final report leaves no leg in flight.          *)

\* What the gateway recorded of a leg is true of the venue.
LegsAreTrue ==
    \A l \in Legs :
        /\ l \in placed => l \notin refused
        /\ leg[l] \in {"idle", "signed"} => l \notin placed
        /\ leg[l] = "ok" => l \in placed
        /\ leg[l] = "rejected" => l \notin placed

\* The legs are signed together.
LegsAreTogether == (\E l \in Legs : leg[l] = "idle") => \A l \in Legs : leg[l] = "idle"

\* A report other than "unknown" is made when no leg can still be placed.
ReportIsLast ==
    /\ report \in {"executed", "partial", "failed"} =>
          \A l \in Legs : leg[l] \in {"ok", "rejected"}
    /\ report = "rejected" => \A l \in Legs : leg[l] = "idle"
    /\ report = "unknown" => \A l \in Legs : leg[l] \in LegOutcomes

HedgeInv == HedgeTypeOK /\ LegsAreTrue /\ LegsAreTogether /\ ReportIsLast

LEMMA HedgeInvInit == HedgeInit => HedgeInv
  BY DEF HedgeInit, HedgeInv, HedgeTypeOK, LegStages, LegsAreTrue, LegsAreTogether, ReportIsLast

\* The status of two sorted legs is one of the answers, and true.
LEMMA StatusIsTrue ==
    ASSUME HedgeInv, \A l \in Legs : leg[l] \in LegOutcomes
    PROVE  /\ HedgeStatus \in {"executed", "partial", "failed", "unknown"}
           /\ HedgeStatus # "unknown" => \A l \in Legs : leg[l] \in {"ok", "rejected"}
           /\ Promise!Truthful(HedgeStatus, placed)
<1> DEFINE ok == {l \in Legs : leg[l] = "ok"}
<1>1. CASE \E l \in Legs : leg[l] = "unknown"
  <2>1. HedgeStatus = "unknown"
    BY <1>1 DEF HedgeStatus
  <2>2. Promise!Truthful("unknown", placed)
    BY DEF Promise!Truthful
  <2> QED
    BY <2>1, <2>2
<1>2. CASE \A l \in Legs : leg[l] # "unknown"
  <2>1. \A l \in Legs : leg[l] \in {"ok", "rejected"}
    BY <1>2 DEF LegOutcomes
  <2>2. placed = ok
    BY <2>1 DEF HedgeInv, HedgeTypeOK, LegsAreTrue
  <2>3. CASE ok = Legs
    <3>1. HedgeStatus = "executed"
      BY <1>2, <2>3, HedgeAssumption DEF HedgeStatus
    <3> QED
      BY <2>1, <2>2, <2>3, <3>1 DEF Promise!Truthful
  <2>4. CASE ok = {}
    <3>1. HedgeStatus = "failed"
      BY <1>2, <2>4, HedgeAssumption DEF HedgeStatus
    <3> QED
      BY <2>1, <2>2, <2>4, <3>1 DEF Promise!Truthful
  <2>5. CASE ok # Legs /\ ok # {}
    <3>1. HedgeStatus = "partial"
      BY <1>2, <2>5 DEF HedgeStatus
    <3> QED
      BY <2>1, <2>2, <2>5, <3>1 DEF Promise!Truthful
  <2> QED
    BY <2>3, <2>4, <2>5
<1> QED
  BY <1>1, <1>2

LEMMA HedgeInvNext == HedgeInv /\ [HedgeNext]_hedgeVars => HedgeInv'
<1> SUFFICES ASSUME HedgeInv, [HedgeNext]_hedgeVars
             PROVE  HedgeInv'
  OBVIOUS
<1> USE DEF HedgeInv, HedgeTypeOK, LegStages, LegOutcomes, LegsAreTrue, LegsAreTogether, ReportIsLast
<1>1. CASE Execute
  BY <1>1 DEF Execute
<1>2. CASE RejectHedge
  BY <1>2 DEF RejectHedge
<1>3. ASSUME NEW l \in Legs, ConnectFails(l)
      PROVE  HedgeInv'
  BY <1>3 DEF ConnectFails
<1>4. ASSUME NEW l \in Legs, Send(l)
      PROVE  HedgeInv'
  BY <1>4 DEF Send
<1>5. ASSUME NEW l \in Legs, LegAnswered(l)
      PROVE  HedgeInv'
  BY <1>5 DEF LegAnswered, Verdict
<1>6. ASSUME NEW l \in Legs, LegLost(l)
      PROVE  HedgeInv'
  BY <1>6 DEF LegLost
<1>7. ASSUME NEW l \in Legs, VenuePlaces(l)
      PROVE  HedgeInv'
  BY <1>7 DEF VenuePlaces, Reached
<1>8. ASSUME NEW l \in Legs, VenueRefuses(l)
      PROVE  HedgeInv'
  BY <1>8 DEF VenueRefuses, Reached
<1>9. CASE ReportHedge
  <2>1. HedgeStatus \in {"executed", "partial", "failed", "unknown"}
    BY <1>9, StatusIsTrue DEF ReportHedge
  <2>2. HedgeStatus # "unknown" => \A l \in Legs : leg[l] \in {"ok", "rejected"}
    BY <1>9, StatusIsTrue DEF ReportHedge
  <2> QED
    BY <1>9, <2>1, <2>2 DEF ReportHedge
<1>10. CASE ExecutionPanics
  <2>1. PICK x \in Legs : leg[x] # "idle"
    BY <1>10 DEF ExecutionPanics
  <2>2. \A l \in Legs : leg'[l] = CASE leg[l] = "signed" -> "rejected"
                                    [] leg[l] = "sent" -> "unknown"
                                    [] OTHER -> leg[l]
    BY <1>10 DEF ExecutionPanics
  <2> QED
    BY <1>10, <2>1, <2>2 DEF ExecutionPanics
<1>11. CASE UNCHANGED hedgeVars
  BY <1>11 DEF hedgeVars
<1> QED
  BY <1>1, <1>2, <1>3, <1>4, <1>5, <1>6, <1>7, <1>8, <1>9, <1>10, <1>11 DEF HedgeNext, ExecutionStep

(***************************************************************************)
(* What the caller is told about the orders is true and stays true          *)
(* (post_hedge, execute_leg): the execution implements HedgePromise.        *)
(***************************************************************************)
THEOREM HedgeImplementsPromise == HedgeSpec => HedgeKeepsPromise
<1>1. HedgeInit => Promise!Init
  BY DEF HedgeInit, Promise!Init
<1>2. HedgeInv /\ [HedgeNext]_hedgeVars => [Promise!Next]_<<placed, report>>
  <2> SUFFICES ASSUME HedgeInv, [HedgeNext]_hedgeVars
               PROVE  Promise!Next \/ UNCHANGED <<placed, report>>
    OBVIOUS
  <2>1. CASE RejectHedge
    <3>1. placed = {}
      BY <2>1 DEF RejectHedge, HedgeInv, HedgeTypeOK, LegsAreTrue
    <3>2. Promise!Report("rejected")
      BY <2>1, <3>1 DEF RejectHedge, Promise!Report, Promise!Truthful
    <3> QED
      BY <3>2 DEF Promise!Next, Promise!Reports
  <2>2. ASSUME NEW l \in Legs, VenuePlaces(l)
        PROVE  Promise!Next
    <3>1. report \in {"none", "unknown"}
      BY <2>2 DEF VenuePlaces, Reached, HedgeInv, HedgeTypeOK, ReportIsLast
    <3>2. Promise!Place(l)
      BY <2>2, <3>1 DEF VenuePlaces, Promise!Place
    <3> QED
      BY <3>2 DEF Promise!Next
  <2>3. CASE ReportHedge
    <3>1. HedgeStatus \in Promise!Reports /\ Promise!Truthful(HedgeStatus, placed)
      BY <2>3, StatusIsTrue DEF ReportHedge, Promise!Reports
    <3>2. Promise!Report(HedgeStatus)
      BY <2>3, <3>1 DEF ReportHedge, Promise!Report
    <3> QED
      BY <3>1, <3>2 DEF Promise!Next
  <2>4. CASE ExecutionPanics
    <3>1. Promise!Report("unknown")
      BY <2>4 DEF ExecutionPanics, Promise!Report, Promise!Truthful
    <3> QED
      BY <3>1 DEF Promise!Next, Promise!Reports
  <2>5. CASE Execute
    BY <2>5 DEF Execute
  <2>6. ASSUME NEW l \in Legs,
               ConnectFails(l) \/ Send(l) \/ LegAnswered(l) \/ LegLost(l) \/ VenueRefuses(l)
        PROVE  UNCHANGED <<placed, report>>
    BY <2>6 DEF ConnectFails, Send, LegAnswered, LegLost, VenueRefuses
  <2>7. CASE UNCHANGED hedgeVars
    BY <2>7 DEF hedgeVars
  <2> QED
    BY <2>1, <2>2, <2>3, <2>4, <2>5, <2>6, <2>7 DEF HedgeNext, ExecutionStep
<1> QED
  BY <1>1, <1>2, HedgeInvInit, HedgeInvNext, PTL DEF HedgeSpec, HedgeKeepsPromise, Promise!Spec

\* The steps of Next, one by one.
LEMMA NextSteps ==
    ASSUME Next
    PROVE  \/ \E q \in Requests, kind \in UNION {KindsOf[r] : r \in Requests}, token \in Tokens,
                sends \in Sends : kind \in KindsOf[q] /\ Arrive(q, kind, token, sends)
           \/ \E q \in Requests :
                Shed(q) \/ TakeSlot(q) \/ SignLegs(q) \/ JoinLegs(q) \/ TellHedge(q) \/ TimeOut(q)
           \/ \E t \in Tasks : TaskStep(t) \/ EnclaveStep(t)
           \/ \E c \in Customers : Release(c)
           \/ \E s \in Scopes : TimePasses(s)
           \/ Execution
  BY DEF Next, RequestStep, Tasks

\* Around the execution of a hedge the gateway does nothing to it (post_hedge).
LEMMA HedgeBelow == [Next]_vars => [HedgeNext]_hedgeVars
<1> SUFFICES ASSUME [Next]_vars PROVE HedgeNext \/ UNCHANGED hedgeVars
  BY DEF hedgeVars
<1>1. ASSUME NEW q \in Requests, NEW kind, NEW token, NEW sends, Arrive(q, kind, token, sends)
      PROVE  UNCHANGED hedgeVars
  BY <1>1 DEF Arrive
<1>2. ASSUME NEW q \in Requests,
             Shed(q) \/ TakeSlot(q) \/ SignLegs(q) \/ JoinLegs(q) \/ TellHedge(q) \/ TimeOut(q)
      PROVE  HedgeNext \/ UNCHANGED hedgeVars
  BY <1>2 DEF Shed, TakeSlot, SignLegs, JoinLegs, TellHedge, TimeOut, HedgeNext
<1>3. ASSUME NEW t \in Tasks, TaskStep(t) PROVE UNCHANGED hedgeVars
  BY <1>3 DEF TaskStep, Authenticate, StateGate, BodyGate, Check, CheckFails, ReadBody, Count,
              CountDenies, AskBreaker, Succeed, Answer, PressStop, Connect, Unreachable, Quiet
<1>4. ASSUME NEW t \in Tasks, EnclaveStep(t) PROVE UNCHANGED hedgeVars
  BY <1>4 DEF EnclaveStep, Accept, EnclaveAnswers, ConnectionBreaks
<1>5. ASSUME NEW c \in Customers, Release(c) PROVE UNCHANGED hedgeVars
  BY <1>5 DEF Release
<1>6. ASSUME NEW s \in Scopes, TimePasses(s) PROVE UNCHANGED hedgeVars
  BY <1>6 DEF TimePasses
<1>7. CASE Execution
  BY <1>7 DEF Execution, HedgeNext
<1>8. CASE UNCHANGED vars
  BY <1>8 DEF vars
<1> QED
  BY <1>1, <1>2, <1>3, <1>4, <1>5, <1>6, <1>7, <1>8, NextSteps

\* The hedge keeps its promise inside the gateway too: whatever requests, timeouts
\* and lost answers there are around it (post_hedge).
THEOREM GatewayKeepsPromise == Spec => HedgeKeepsPromise
<1>1. Init => HedgeInit
  BY DEF Init
<1>2. Spec => HedgeSpec
  BY <1>1, HedgeBelow, PTL DEF Spec, HedgeSpec
<1> QED
  BY <1>2, HedgeImplementsPromise

-----------------------------------------------------------------------------
(* The circuits.                                                            *)

\* A circuit that may double next has sat out one backoff more than it doubled.
Ripe(c, n) == c.elapsed \/ c.half => c.doubled < n

\* The circuits with the bound made inductive: the map is finite, and a circuit
\* that is half-open, or may become it, has sat out the backoff it will double.
BackoffInv ==
    /\ BackoffTypeOK /\ IsFiniteSet(Open) /\ BackoffIsEarned
    /\ \A x \in Open : Ripe(circuits[x], waits[x])

\* An open circuit after a rate_limited answer doubled at most once more, and only
\* if it was half-open, which it no longer is.
LEMMA StruckCircuit ==
    ASSUME NEW c \in Circuits, c.open
    PROVE  /\ c.doubled \in 0..MaxDoublings /\ Struck(c).doubled \in 0..MaxDoublings
           /\ Struck(c) \in Circuits /\ Struck(c).open
           /\ Struck(c).doubled <= c.doubled + 1
           /\ ~c.half => Struck(c).doubled = c.doubled
           /\ ~Struck(c).elapsed /\ ~Struck(c).half
<1> DEFINE OpenCircuits == [open : {TRUE}, doubled : 0..MaxDoublings, elapsed : BOOLEAN, half : BOOLEAN]
<1>1. c \in OpenCircuits
  <2>1. ~NoCircuit.open
    BY DEF NoCircuit
  <2>2. c # NoCircuit
    BY <2>1
  <2> QED
    BY <2>2 DEF Circuits
<1>2. c.doubled \in 0..MaxDoublings /\ c.half \in BOOLEAN
  BY <1>1
<1> DEFINE n == IF c.half /\ c.doubled < MaxDoublings THEN c.doubled + 1 ELSE c.doubled
<1>3. n \in 0..MaxDoublings /\ n <= c.doubled + 1 /\ (~c.half => n = c.doubled)
  <2>1. CASE c.half /\ c.doubled < MaxDoublings
    BY <1>2, <2>1, BackoffAssumption
  <2>2. CASE ~(c.half /\ c.doubled < MaxDoublings)
    BY <1>2, <2>2, BackoffAssumption
  <2> QED
    BY <2>1, <2>2
<1>4. Struck(c) = [open |-> TRUE, elapsed |-> FALSE, half |-> FALSE, doubled |-> n]
  BY DEF Struck
<1> HIDE DEF n
<1>5. /\ Struck(c) \in OpenCircuits /\ Struck(c).open /\ Struck(c).doubled = n
      /\ ~Struck(c).elapsed /\ ~Struck(c).half
  BY <1>3, <1>4
<1> QED
  BY <1>2, <1>3, <1>5 DEF Circuits

\* The circuit of a scope the gateway did not track.
LEMMA FreshCircuit == Fresh \in Circuits /\ Fresh.open /\ Struck(Fresh).doubled = 0
<1>1. 0 \in 0..MaxDoublings
  BY BackoffAssumption
<1> QED
  BY <1>1 DEF Fresh, Circuits, Struck

\* A rate_limited answer opens a circuit or doubles it only for its own scope, and
\* only if there is room (report_rate_limited).
LEMMA RateLimitedStep ==
    ASSUME BackoffInv, NEW s, ReportRateLimited(s)
    PROVE  BackoffInv'
<1> DEFINE full == Cardinality(Open) >= MaxCircuits /\ s \notin Open
           kept == IF full THEN Pruned ELSE circuits
           left == {x \in Scopes : kept[x].open}
           room == s \in Open \/ Cardinality(left) < MaxCircuits
<1>1. /\ circuits \in [Scopes -> Circuits] /\ strikes \in [Scopes -> Nat] /\ IsFiniteSet(Open)
      /\ Open \subseteq Scopes /\ Cardinality(Open) <= MaxCircuits
      /\ \A x \in Open : circuits[x].doubled < strikes[x] /\ circuits[x].doubled <= waits[x]
      /\ \A x \in Open : Ripe(circuits[x], waits[x])
      /\ waits \in [Scopes -> Nat]
  BY DEF BackoffInv, BackoffTypeOK, BackoffIsEarned, Open
<1>2. strikes' = [strikes EXCEPT ![s] = @ + 1] /\ waits' = waits
  BY DEF ReportRateLimited
<1>3. circuits' = IF ~room THEN kept ELSE [kept EXCEPT ![s] = Struck(IF @.open THEN @ ELSE Fresh)]
  BY DEF ReportRateLimited
<1>4. kept \in [Scopes -> Circuits] /\ \A x \in Scopes : kept[x] = circuits[x] \/ kept[x] = NoCircuit
  BY <1>1 DEF Pruned, Circuits
<1>5. left \subseteq Open /\ \A x \in left : kept[x] = circuits[x]
  BY <1>4 DEF Open, NoCircuit
<1>6. IsFiniteSet(left) /\ Cardinality(left) <= Cardinality(Open) /\ Cardinality(left) \in Nat
      /\ Cardinality(Open) \in Nat
  BY <1>1, <1>5, FS_Subset, FS_CardinalityType
<1> HIDE DEF kept, room
<1>7. \A x \in Scopes : strikes'[x] \in Nat /\ strikes'[x] >= strikes[x]
  BY <1>1, <1>2
<1>8. \A x \in left : circuits[x].doubled \in Nat /\ circuits[x].doubled < strikes[x]
  BY <1>1, <1>5, StruckCircuit DEF Open
<1>9. \A x \in left :
         kept[x].doubled < strikes'[x] /\ kept[x].doubled <= waits'[x] /\ Ripe(kept[x], waits'[x])
  BY <1>1, <1>2, <1>5, <1>7, <1>8
<1>10. strikes' \in [Scopes -> Nat] /\ waits' \in [Scopes -> Nat]
  <2>1. strikes' = [x \in Scopes |-> IF x = s THEN strikes[x] + 1 ELSE strikes[x]]
    BY <1>1, <1>2
  <2>2. strikes' \in [Scopes -> Nat]
    BY <1>1, <2>1
  <2>3. waits' \in [Scopes -> Nat]
    BY <1>1, <1>2
  <2> QED
    BY <2>2, <2>3
<1>11. CASE ~room \/ s \notin Scopes
  <2>1. circuits' = kept
    BY <1>3, <1>4, <1>11
  <2>2. Open' = left
    BY <2>1 DEF Open
  <2>3. Cardinality(left) <= MaxCircuits
    BY <1>1, <1>6, BackoffAssumption
  <2> QED
    BY <1>4, <1>6, <1>9, <1>10, <2>1, <2>2, <2>3 DEF BackoffInv, BackoffTypeOK, BackoffIsEarned
<1>12. CASE room /\ s \in Scopes
  <2> DEFINE old == IF kept[s].open THEN kept[s] ELSE Fresh
  <2>1. circuits' = [kept EXCEPT ![s] = Struck(old)]
    BY <1>3, <1>12
  <2>2. old \in Circuits /\ old.open
    BY <1>12, <1>4, FreshCircuit
  <2>3. Struck(old) \in Circuits /\ Struck(old).open /\ Struck(old).doubled \in Nat
    BY <2>2, StruckCircuit
  <2>4. Struck(old).doubled <= strikes[s] /\ strikes[s] \in Nat /\ Struck(old).doubled <= waits[s]
    <3>1. CASE kept[s].open
      <4>1. /\ old = circuits[s] /\ circuits[s].doubled \in Nat /\ circuits[s].doubled < strikes[s]
            /\ circuits[s].doubled <= waits[s] /\ (circuits[s].half => circuits[s].doubled < waits[s])
        BY <1>1, <1>12, <1>5, <1>8, <3>1 DEF Ripe
      <4>2. /\ Struck(old).doubled <= circuits[s].doubled + 1
            /\ ~circuits[s].half => Struck(old).doubled = circuits[s].doubled
        BY <2>2, <4>1, StruckCircuit
      <4>3. strikes[s] \in Nat /\ waits[s] \in Nat
        BY <1>12, <1>1
      <4> HIDE DEF old
      <4> QED
        BY <2>3, <4>1, <4>2, <4>3
    <3>2. CASE ~kept[s].open
      BY <1>12, <1>1, <3>2, FreshCircuit
    <3> QED
      BY <3>1, <3>2
  <2> HIDE DEF old
  <2>5. circuits' \in [Scopes -> Circuits]
    BY <1>4, <2>1, <2>3
  <2>6. Open' = left \cup {s}
    BY <1>12, <1>4, <2>1, <2>3 DEF Open
  <2>7. IsFiniteSet(left \cup {s}) /\ Cardinality(left \cup {s}) <= MaxCircuits
    <3>1. CASE s \in Open
      <4>1. kept = circuits
        BY <3>1 DEF kept
      <4>2. left \cup {s} = Open
        BY <3>1, <4>1 DEF Open
      <4> QED
        BY <1>1, <4>2
    <3>2. CASE s \notin Open
      <4>1. s \notin left /\ Cardinality(left) < MaxCircuits
        BY <1>5, <1>12, <3>2 DEF room
      <4>2. IsFiniteSet(left \cup {s}) /\ Cardinality(left \cup {s}) = Cardinality(left) + 1
        BY <1>6, <4>1, FS_AddElement
      <4> QED
        BY <1>6, <4>1, <4>2, BackoffAssumption
    <3> QED
      BY <3>1, <3>2
  <2>8. ASSUME NEW x \in left \cup {s}
        PROVE  /\ circuits'[x].doubled < strikes'[x] /\ circuits'[x].doubled <= waits'[x]
               /\ Ripe(circuits'[x], waits'[x])
    <3>1. CASE x = s
      <4>1. /\ circuits'[x] = Struck(old) /\ strikes'[x] = strikes[s] + 1 /\ strikes[s] \in Nat
            /\ waits'[x] = waits[s]
        BY <1>12, <1>1, <1>2, <1>4, <2>1, <3>1
      <4>2. ~Struck(old).elapsed /\ ~Struck(old).half
        BY <2>2, StruckCircuit
      <4> QED
        BY <2>3, <2>4, <4>1, <4>2 DEF Ripe
    <3>2. CASE x # s
      <4>1. x \in left /\ circuits'[x] = kept[x]
        BY <1>4, <2>1, <3>2
      <4> QED
        BY <1>9, <4>1
    <3> QED
      BY <3>1, <3>2
  <2> QED
    BY <1>10, <2>5, <2>6, <2>7, <2>8 DEF BackoffInv, BackoffTypeOK, BackoffIsEarned
<1> QED
  BY <1>11, <1>12

\* Letting a probe through, a success and the passing of time open no circuit and
\* double none (allow, report_success).
LEMMA QuietBackoffStep ==
    ASSUME BackoffInv, NEW s, Allow(s) \/ ReportSuccess(s) \/ Elapse(s) \/ UNCHANGED backoffVars
    PROVE  BackoffInv'
<1>1. /\ circuits \in [Scopes -> Circuits] /\ strikes \in [Scopes -> Nat] /\ IsFiniteSet(Open)
      /\ Cardinality(Open) <= MaxCircuits /\ waits \in [Scopes -> Nat]
      /\ \A x \in Open : circuits[x].doubled < strikes[x] /\ circuits[x].doubled <= waits[x]
      /\ \A x \in Open : Ripe(circuits[x], waits[x])
  BY DEF BackoffInv, BackoffTypeOK, BackoffIsEarned
<1> DEFINE OpenCircuits == [open : {TRUE}, doubled : 0..MaxDoublings, elapsed : BOOLEAN, half : BOOLEAN]
<1>2. \A x \in Open : circuits[x] \in OpenCircuits
  <2>1. ~NoCircuit.open
    BY DEF NoCircuit
  <2> QED
    BY <1>1, <2>1 DEF Circuits, Open
<1>3. \A r \in OpenCircuits :
         /\ [r EXCEPT !.half = TRUE] \in OpenCircuits /\ [r EXCEPT !.elapsed = TRUE] \in OpenCircuits
         /\ [r EXCEPT !.half = TRUE].doubled = r.doubled /\ [r EXCEPT !.elapsed = TRUE].doubled = r.doubled
  OBVIOUS
<1>4. \A r \in OpenCircuits : r \in Circuits /\ r.open
  BY DEF Circuits
<1>5. NoCircuit \in Circuits /\ ~NoCircuit.open
  BY DEF Circuits, NoCircuit
<1>6. ASSUME circuits' \in [Scopes -> Circuits], strikes' \in [Scopes -> Nat],
             waits' \in [Scopes -> Nat],
             \A x \in Scopes : circuits'[x].open =>
                 /\ x \in Open /\ circuits'[x].doubled = circuits[x].doubled /\ strikes'[x] = strikes[x]
                 /\ waits'[x] >= waits[x] /\ Ripe(circuits'[x], waits'[x])
      PROVE  BackoffInv'
  <2>0. \A x \in Open : circuits[x].doubled \in Nat
    BY <1>1, StruckCircuit DEF Open
  <2>1. /\ Open' \subseteq Open
        /\ \A x \in Open' : circuits'[x].doubled < strikes'[x] /\ Ripe(circuits'[x], waits'[x])
    BY <1>1, <1>6 DEF Open
  <2>5. ASSUME NEW x \in Open' PROVE circuits'[x].doubled <= waits'[x]
    <3>1. /\ x \in Open /\ circuits'[x].doubled = circuits[x].doubled /\ waits'[x] >= waits[x]
          /\ waits'[x] \in Nat /\ waits[x] \in Nat
      BY <1>1, <1>6, <2>5 DEF Open
    <3> QED
      BY <1>1, <2>0, <3>1
  <2>2. IsFiniteSet(Open') /\ Cardinality(Open') <= Cardinality(Open)
    BY <1>1, <2>1, FS_Subset
  <2>3. Cardinality(Open') \in Nat /\ Cardinality(Open) \in Nat
    BY <1>1, <2>2, FS_CardinalityType
  <2>4. Cardinality(Open') <= MaxCircuits
    BY <1>1, <2>2, <2>3, BackoffAssumption
  <2> QED
    BY <1>6, <2>1, <2>2, <2>4, <2>5 DEF BackoffInv, BackoffTypeOK, BackoffIsEarned
<1> HIDE DEF OpenCircuits
<1>7. CASE Allow(s)
  <2>1. CASE circuits[s].open /\ s \in Scopes
    <3>1. /\ circuits' = [circuits EXCEPT ![s] = [circuits[s] EXCEPT !.half = TRUE]]
          /\ strikes' = strikes /\ waits' = waits /\ circuits[s].elapsed
      BY <1>7, <2>1 DEF Allow, Allows
    <3>2. s \in Open
      BY <2>1 DEF Open
    <3>3. ASSUME NEW x \in Scopes, circuits'[x].open PROVE Ripe(circuits'[x], waits'[x]) /\ waits'[x] >= waits[x]
      <4>1. CASE x = s
        <5>1. circuits'[x].doubled = circuits[s].doubled
          BY <1>1, <1>2, <1>3, <2>1, <3>1, <3>2, <4>1
        <5> QED
          BY <1>1, <2>1, <3>1, <3>2, <4>1, <5>1 DEF Ripe
      <4>2. CASE x # s
        BY <1>1, <3>1, <3>3, <4>2 DEF Open
      <4> QED
        BY <4>1, <4>2
    <3>4. circuits' \in [Scopes -> Circuits]
      BY <1>1, <1>2, <1>3, <1>4, <3>1, <3>2
    <3>5. \A x \in Scopes : circuits'[x].open => x \in Open /\ circuits'[x].doubled = circuits[x].doubled
      BY <1>1, <1>2, <1>3, <1>4, <3>1, <3>2 DEF Open
    <3> QED
      BY <1>1, <1>6, <3>1, <3>3, <3>4, <3>5
  <2>2. CASE ~(circuits[s].open /\ s \in Scopes)
    <3>1. circuits' = circuits /\ strikes' = strikes /\ waits' = waits
      BY <1>1, <1>7, <2>2 DEF Allow
    <3> QED
      BY <1>1, <1>6, <3>1 DEF Open
  <2> QED
    BY <2>1, <2>2
<1>8. CASE ReportSuccess(s)
  <2>1. /\ circuits' = [circuits EXCEPT ![s] = NoCircuit]
        /\ strikes' = [strikes EXCEPT ![s] = 0] /\ waits' = [waits EXCEPT ![s] = 0]
    BY <1>8 DEF ReportSuccess
  <2>2. \A x \in Scopes : circuits'[x].open =>
           /\ x # s /\ x \in Open /\ circuits'[x] = circuits[x]
           /\ strikes'[x] = strikes[x] /\ waits'[x] = waits[x]
    BY <1>1, <1>5, <2>1 DEF Open
  <2>3. circuits' \in [Scopes -> Circuits] /\ strikes' \in [Scopes -> Nat] /\ waits' \in [Scopes -> Nat]
    BY <1>1, <1>5, <2>1
  <2> QED
    BY <1>1, <1>6, <2>2, <2>3
<1>9. CASE Elapse(s)
  <2>1. CASE s \in Scopes
    <3>1. /\ circuits' = [circuits EXCEPT ![s] = [circuits[s] EXCEPT !.elapsed = TRUE]]
          /\ strikes' = strikes /\ waits' = [waits EXCEPT ![s] = @ + 1]
      BY <1>9 DEF Elapse
    <3>2. s \in Open
      BY <1>9, <2>1 DEF Open, Elapse
    <3>3. ASSUME NEW x \in Scopes, circuits'[x].open PROVE Ripe(circuits'[x], waits'[x]) /\ waits'[x] >= waits[x]
      <4>1. CASE x = s
        <5>1. circuits'[x].doubled = circuits[s].doubled /\ waits'[x] = waits[s] + 1 /\ waits[s] \in Nat
          BY <1>1, <1>2, <1>3, <2>1, <3>1, <3>2, <4>1
        <5>2. circuits[s].doubled \in Nat /\ circuits[s].doubled <= waits[s]
          BY <1>1, <3>2, StruckCircuit DEF Open
        <5> QED
          BY <4>1, <5>1, <5>2 DEF Ripe
      <4>2. CASE x # s
        BY <1>1, <3>1, <3>3, <4>2 DEF Open
      <4> QED
        BY <4>1, <4>2
    <3>4. circuits' \in [Scopes -> Circuits]
      BY <1>1, <1>2, <1>3, <1>4, <3>1, <3>2
    <3>5. \A x \in Scopes : circuits'[x].open => x \in Open /\ circuits'[x].doubled = circuits[x].doubled
      BY <1>1, <1>2, <1>3, <1>4, <3>1, <3>2 DEF Open
    <3>6. waits' \in [Scopes -> Nat]
      <4>1. waits' = [x \in Scopes |-> IF x = s THEN waits[x] + 1 ELSE waits[x]]
        BY <1>1, <3>1
      <4> QED
        BY <1>1, <4>1
    <3> QED
      BY <1>1, <1>6, <3>1, <3>3, <3>4, <3>5, <3>6
  <2>2. CASE s \notin Scopes
    <3>1. circuits' = circuits /\ strikes' = strikes /\ waits' = waits
      BY <1>1, <1>9, <2>2 DEF Elapse
    <3> QED
      BY <1>1, <1>6, <3>1 DEF Open
  <2> QED
    BY <2>1, <2>2
<1>10. CASE UNCHANGED backoffVars
  BY <1>1, <1>6, <1>10 DEF backoffVars, Open
<1> QED
  BY <1>7, <1>8, <1>9, <1>10

LEMMA BackoffStays == Spec => []BackoffInv
<1>1. Init => BackoffInv
  <2> SUFFICES ASSUME Init PROVE BackoffInv
    OBVIOUS
  <2>1. /\ circuits \in [Scopes -> Circuits] /\ strikes \in [Scopes -> Nat]
        /\ waits \in [Scopes -> Nat]
    BY DEF Init, BackoffInit, Circuits
  <2>2. Open = {}
    BY DEF Init, BackoffInit, Open, NoCircuit
  <2>3. IsFiniteSet(Open) /\ Cardinality(Open) <= MaxCircuits
    BY <2>2, FS_EmptySet, BackoffAssumption
  <2> QED
    BY <2>1, <2>2, <2>3 DEF BackoffInv, BackoffTypeOK, BackoffIsEarned
<1>2. BackoffInv /\ [Next]_vars => BackoffInv'
  <2> SUFFICES ASSUME BackoffInv, [Next]_vars PROVE BackoffInv'
    OBVIOUS
  <2>1. ASSUME UNCHANGED backoffVars PROVE BackoffInv'
    BY <2>1, QuietBackoffStep
  <2>2. ASSUME NEW t \in Tasks, TaskStep(t) PROVE BackoffInv'
    <3>1. CASE AskBreaker(t)
      BY <2>1, <3>1, QuietBackoffStep DEF AskBreaker
    <3>2. CASE Succeed(t)
      BY <3>2, QuietBackoffStep DEF Succeed
    <3>3. CASE ~AskBreaker(t) /\ ~Succeed(t)
      BY <2>1, <2>2, <3>3 DEF TaskStep, Authenticate, StateGate, BodyGate, Check, CheckFails, ReadBody,
                 Count, CountDenies, Answer, PressStop, Connect, Unreachable, Quiet
    <3> QED
      BY <3>1, <3>2, <3>3
  <2>3. ASSUME NEW t \in Tasks, EnclaveStep(t) PROVE BackoffInv'
    BY <2>1, <2>3, RateLimitedStep DEF EnclaveStep, Accept, EnclaveAnswers, ConnectionBreaks, backoffVars
  <2>4. ASSUME NEW s \in Scopes, TimePasses(s) PROVE BackoffInv'
    BY <2>4, QuietBackoffStep DEF TimePasses
  <2>5. ASSUME NEW q \in Requests, NEW kind, NEW token, NEW sends, Arrive(q, kind, token, sends)
        PROVE  BackoffInv'
    BY <2>1, <2>5 DEF Arrive
  <2>6. ASSUME NEW q \in Requests,
               Shed(q) \/ TakeSlot(q) \/ SignLegs(q) \/ JoinLegs(q) \/ TellHedge(q) \/ TimeOut(q)
        PROVE  BackoffInv'
    BY <2>1, <2>6 DEF Shed, TakeSlot, SignLegs, JoinLegs, TellHedge, TimeOut
  <2>7. CASE Execution \/ UNCHANGED vars \/ \E c \in Customers : Release(c)
    BY <2>1, <2>7 DEF Execution, Release, vars
  <2> QED
    BY <2>2, <2>3, <2>4, <2>5, <2>6, <2>7, NextSteps
<1> QED
  BY <1>1, <1>2, PTL DEF Spec

\* A scope is held back only for what its own requests were told, and the map never
\* outgrows its bound, however requests of other tenants and venues, probes, lost
\* and late answers interleave (allow, report_success, report_rate_limited).
THEOREM BackoffTheorem == Spec => []BackoffIsEarned
<1>1. BackoffInv => BackoffIsEarned
  BY DEF BackoffInv
<1> QED
  BY <1>1, BackoffStays, PTL

-----------------------------------------------------------------------------
(* A stop is final, and orders are counted.  Both rest on the order of the  *)
(* steps in the programs of the routes: the gate that knows what a request  *)
(* does, and the charge, come before every step that lets the enclave sign. *)
(* The invariants say where a request is in its program, and follow it past *)
(* the end of its handler, into a connection that outlives it and into the  *)
(* legs of a hedge.                                                         *)

\* In a program, a step of S comes only after the step g.
Before(g, S, todo) ==
    \A i \in 1..Len(todo) : todo[i] \in S => \E j \in 1..(i - 1) : todo[j] = g

\* The step that lets the enclave sign, of the handler or of its legs.
Signing == {"call", "legs"}

\* The look at the tenant's state that knows what the request does.
GateOf(kind) == IF kind \in SignKinds \cup RequestKinds THEN "body" ELSE "state"

\* Only a hedge has legs, and it calls the enclave through them alone.
StepsOf(kind) == IF kind = "hedge" THEN Steps \ {"call"} ELSE Steps \ {"legs"}

\* A task is what its handler makes it, and who waits for the enclave stands at the
\* call.
Fits(t, k) ==
    k = NoTask \/
    /\ k \in TaskRecords
    /\ t \in Requests => k.kind \in Kinds /\ k.todo \in Seq(StepsOf(k.kind))
    /\ t \in Legs => k.kind = t
    /\ k.at = "calling" => k.todo # <<>> /\ Head(k.todo) = "call"

TasksFit ==
    /\ task \in [Tasks -> {NoTask} \cup TaskRecords]
    /\ \A t \in Tasks : Fits(t, task[t])

OthersFit ==
    /\ conn \in [Tasks -> {NoConn} \cup ConnRecords]
    /\ level \in [Customers -> TenantStates]

\* A task whose tenant's state lets it through now was seen.
SeenNow ==
    \A t \in Tasks : task[t] # NoTask =>
        (LetsThrough(LevelOf(level, task[t].cust), task[t].kind) => t \in saw)

\* A request nobody saw allowed has its gate still ahead of every signature.
GateAhead ==
    \A q \in Requests : task[q] # NoTask /\ Tier(task[q].kind) = "sign" /\ q \notin saw =>
        Before(GateOf(task[q].kind), Signing, task[q].todo)

\* Legs are only signed for a hedge that went through its gate.
LegsAreSeen == \A l \in Legs : task[l] # NoTask => l \in saw

\* What the enclave was sent had been seen allowed.
SentWasSeen ==
    \A t \in Tasks : conn[t] # NoConn /\ Tier(conn[t].kind) \in {"sign", "leg"} => t \in saw

StopInv == TasksFit /\ OthersFit /\ SeenNow /\ GateAhead /\ LegsAreSeen /\ SentWasSeen /\ StopIsFinal

\* A hedge asks for no signature of its own.
HedgeHasLegsOnly ==
    \A q \in Requests : task[q] # NoTask /\ task[q].kind = "hedge" => q \notin signed /\ conn[q] = NoConn

\* A request with a handler of its own still at work.
Live == {"arriving", "run", "calling"}

\* Past its charge, and still on its way to the enclave.
Armed(q, c) ==
    /\ task[q] # NoTask /\ task[q].at \in Live
    /\ task[q].cust = c /\ Effect(task[q].kind) = "Order"
    /\ ~Before("count", Signing, task[q].todo)

Sent(t, c) == conn[t] # NoConn /\ conn[t].cust = c /\ Effect(conn[t].kind) = "Order"

\* Requests that were charged for an order that is not signed yet, if ever.
Credit(c) == {q \in Requests : q \notin signed /\ (Armed(q, c) \/ Sent(q, c))}

\* The one order of the legs, charged and not signed yet.
LegCredit(c) ==
    IF signed \cap Legs = {} /\ \E l \in Legs : (task[l] # NoTask /\ task[l].cust = c) \/ Sent(l, c)
    THEN 1 ELSE 0

\* The counter pays for the orders signed and for all that may still be.
ChargesCover ==
    /\ counted \in [Customers -> Nat] /\ ordered \in [Customers -> Nat]
    /\ \A c \in Customers : ordered[c] + Cardinality(Credit(c)) + LegCredit(c) <= counted[c]

CountInv == TasksFit /\ OthersFit /\ HedgeHasLegsOnly /\ ChargesCover

\* The programs are made of known steps, and only that of a hedge has legs.
LEMMA HandlerSteps ==
    /\ \A kind \in (Kinds \cup LegKinds) \ {"hedge"} : Handler(kind) \in Seq(Steps \ {"legs"})
    /\ Handler("hedge") \in Seq(Steps \ {"call"})
<1> DEFINE N == Steps \ {"legs"}
           H == Steps \ {"call"}
<1>1. /\ N = {"auth", "state", "rate", "shape", "body", "creds", "call", "success", "orders",
              "count", "cancel", "spend", "blob", "breaker", "fields", "press", "read"}
      /\ H = {"auth", "state", "rate", "shape", "body", "creds", "success", "legs", "orders",
              "count", "cancel", "spend", "blob", "breaker", "fields", "press", "read"}
  BY DEF Steps
<1>2. /\ "shape" \in N /\ "body" \in N /\ "creds" \in N /\ "call" \in N /\ "success" \in N
      /\ "orders" \in N /\ "count" \in N /\ "cancel" \in N /\ "spend" \in N /\ "blob" \in N
      /\ "breaker" \in N /\ "fields" \in N /\ "press" \in N
  BY <1>1
<1>3. "shape" \in H /\ "orders" \in H /\ "count" \in H /\ "legs" \in H
  BY <1>1
<1> HIDE DEF N, H
<1>4. \A s, u \in Seq(N) : s \o u \in Seq(N)
  BY ConcatProperties
<1>5. \A s, u \in Seq(H) : s \o u \in Seq(H)
  BY ConcatProperties
<1>6. /\ <<>> \in Seq(N) /\ <<"shape">> \in Seq(N) /\ OrderGate \in Seq(N) /\ CancelGate \in Seq(N)
      /\ SignedQuery \in Seq(N) /\ SignShape \in Seq(N) /\ SignKey \in Seq(N)
      /\ <<"shape", "body">> \in Seq(N)
  BY <1>2 DEF OrderGate, CancelGate, SignedQuery, SignShape, SignKey
<1>7. SignAnswer \in Seq(N) /\ X402Answer \in Seq(N) /\ Permit2Answer \in Seq(N) /\ RequestAnswer \in Seq(N)
      /\ <<"blob", "breaker", "creds">> \in Seq(N)
  BY <1>2 DEF SignAnswer, X402Answer, Permit2Answer, RequestAnswer
<1>8. Structured \in Seq(N)
  BY <1>2 DEF Structured
<1>9. SignedRead \in Seq(N) /\ Permit2Checks \in Seq(N)
  BY <1>2 DEF SignedRead, Permit2Checks
<1>10. X402Checks \in Seq(N) /\ PostVerifyBlob \in Seq(N)
  BY <1>2 DEF X402Checks, PostVerifyBlob
<1>11. PostSignData \in Seq(N) /\ PostHeartbeat \in Seq(N) /\ GetAttestation \in Seq(N)
       /\ GetHealthz \in Seq(N) /\ PostTenantHalt \in Seq(N)
  BY <1>2 DEF PostSignData, PostHeartbeat, GetAttestation, GetHealthz, PostTenantHalt
<1>12. \A kind : SignBudget(kind) \in Seq(N) /\ RequestBudget(kind) \in Seq(N)
  BY <1>6 DEF SignBudget, RequestBudget
<1>13. \A kind : PostSign(kind) \in Seq(N) /\ PostBinanceRequest(kind) \in Seq(N)
  BY <1>4, <1>6, <1>7, <1>12 DEF PostSign, PostBinanceRequest, RequestChecks
<1>14. /\ PostSignX402 \in Seq(N) /\ PostSignPermit2 \in Seq(N) /\ PostBinanceOrder \in Seq(N)
       /\ PostBinanceCancel \in Seq(N) /\ PostSpotOrder \in Seq(N) /\ PostSpotCancel \in Seq(N)
       /\ PostOkxOrder \in Seq(N) /\ PostOkxCancel \in Seq(N)
  BY <1>4, <1>6, <1>7, <1>8, <1>9, <1>10
     DEF PostSignX402, PostSignPermit2, PostBinanceOrder, PostBinanceCancel, PostSpotOrder,
         PostSpotCancel, PostOkxOrder, PostOkxCancel
<1>15. /\ GetAccountBinance \in Seq(N) /\ GetAccountOkx \in Seq(N) /\ OpenOrdersBinance \in Seq(N)
       /\ OpenOrdersOkx \in Seq(N) /\ UserTradesBinance \in Seq(N) /\ UserTradesOkx \in Seq(N)
       /\ PostCancelAll \in Seq(N) /\ LegBinance \in Seq(N) /\ LegOkx \in Seq(N)
  BY <1>4, <1>6, <1>8, <1>9
     DEF GetAccountBinance, GetAccountOkx, OpenOrdersBinance, OpenOrdersOkx, UserTradesBinance,
         UserTradesOkx, PostCancelAll, LegBinance, LegOkx
<1>16. PostHedge \in Seq(H)
  <2>1. <<"shape">> \in Seq(H) /\ OrderGate \in Seq(H) /\ <<"legs">> \in Seq(H)
    BY <1>3 DEF OrderGate
  <2> QED
    BY <1>5, <2>1 DEF PostHedge
<1>17. ASSUME NEW kind, kind # "hedge" PROVE Handler(kind) \in Seq(N)
  BY <1>17, <1>11, <1>13, <1>14, <1>15, <1>10 DEF Handler
<1>18. Handler("hedge") = PostHedge
  BY DEF Handler, SignKinds, RequestKinds
<1> QED
  BY <1>16, <1>17, <1>18 DEF N, H

LEMMA ProgramSteps ==
    /\ \A kind \in Kinds : Program(kind) \in Seq(StepsOf(kind))
    /\ \A kind \in LegKinds : Program(kind) \in Seq(Steps)
<1>1. ASSUME NEW kind \in Kinds \cup LegKinds, NEW S, S = StepsOf(kind)
      PROVE  Program(kind) \in Seq(S)
  <2>1. "auth" \in S /\ "state" \in S /\ "rate" \in S /\ "read" \in S
    BY <1>1 DEF StepsOf, Steps
  <2>2. Layers(Tier(kind)) \in Seq(S) /\ Extractors(kind) \in Seq(S)
    <3>1. <<"auth", "state", "rate">> \in Seq(S) /\ <<"auth">> \in Seq(S) /\ <<"read">> \in Seq(S)
          /\ <<>> \in Seq(S)
      BY <2>1
    <3> QED
      BY <3>1 DEF Layers, Extractors
  <2>3. Handler(kind) \in Seq(S)
    BY <1>1, HandlerSteps DEF StepsOf
  <2> QED
    BY <2>2, <2>3, ConcatProperties DEF Program
<1>2. ASSUME NEW kind \in LegKinds PROVE Program(kind) \in Seq(Steps)
  <2>1. kind # "hedge"
    BY DEF LegKinds
  <2>2. Program(kind) \in Seq(Steps \ {"legs"})
    BY <1>1, <2>1 DEF StepsOf
  <2> QED
    BY <2>2
<1> QED
  BY <1>1, <1>2

\* A program that starts with a guarded part is guarded, and so is one that starts
\* with steps of no interest before it.
LEMMA GuardedPrefix ==
    ASSUME NEW s \in Seq(Steps), NEW u \in Seq(Steps), NEW g, NEW S,
           Before(g, S, s), \E j \in 1..Len(s) : s[j] = g
    PROVE  Before(g, S, s \o u) /\ \E j \in 1..Len(s \o u) : (s \o u)[j] = g
<1>1. /\ Len(s \o u) = Len(s) + Len(u) /\ Len(s) \in Nat /\ Len(u) \in Nat
      /\ \A i \in 1..Len(s) : (s \o u)[i] = s[i]
  BY ConcatProperties
<1>2. PICK j \in 1..Len(s) : s[j] = g
  OBVIOUS
<1>3. ASSUME NEW i \in 1..Len(s \o u), (s \o u)[i] \in S
      PROVE  \E k \in 1..(i - 1) : (s \o u)[k] = g
  <2>1. CASE i <= Len(s)
    <3>1. i \in 1..Len(s) /\ s[i] \in S
      BY <1>1, <1>3, <2>1
    <3>2. PICK k \in 1..(i - 1) : s[k] = g
      BY <3>1 DEF Before
    <3>3. k \in 1..Len(s)
      BY <1>1, <3>1
    <3> QED
      BY <1>1, <3>2, <3>3
  <2>2. CASE i > Len(s)
    <3>1. j \in 1..(i - 1)
      BY <1>1, <2>2
    <3> QED
      BY <1>1, <1>2, <3>1
  <2> QED
    BY <1>1, <2>1, <2>2
<1>4. j \in 1..Len(s \o u) /\ (s \o u)[j] = g
  BY <1>1, <1>2
<1> QED
  BY <1>3, <1>4 DEF Before

LEMMA GuardedSuffix ==
    ASSUME NEW s \in Seq(Steps), NEW u \in Seq(Steps), NEW g, NEW S,
           \A i \in 1..Len(s) : s[i] \notin S, Before(g, S, u), \E j \in 1..Len(u) : u[j] = g
    PROVE  Before(g, S, s \o u) /\ \E j \in 1..Len(s \o u) : (s \o u)[j] = g
<1>1. /\ Len(s \o u) = Len(s) + Len(u) /\ Len(s) \in Nat /\ Len(u) \in Nat
      /\ \A i \in 1..Len(s) + Len(u) : (s \o u)[i] = IF i <= Len(s) THEN s[i] ELSE u[i - Len(s)]
  BY ConcatProperties
<1>2. \A k \in 1..Len(u) : Len(s) + k \in 1..Len(s \o u) /\ (s \o u)[Len(s) + k] = u[k]
  BY <1>1
<1>3. ASSUME NEW i \in 1..Len(s \o u), (s \o u)[i] \in S
      PROVE  \E k \in 1..(i - 1) : (s \o u)[k] = g
  <2>1. i \in 1..Len(s) + Len(u) /\ ~(i <= Len(s))
    BY <1>1, <1>3
  <2>2. i - Len(s) \in 1..Len(u) /\ u[i - Len(s)] \in S
    BY <1>1, <1>3, <2>1
  <2>3. PICK k \in 1..(i - Len(s) - 1) : u[k] = g
    BY <2>2 DEF Before
  <2>4. k \in 1..Len(u) /\ Len(s) + k \in 1..(i - 1)
    BY <1>1, <2>1, <2>2
  <2> QED
    BY <1>2, <2>3, <2>4
<1>4. PICK j \in 1..Len(u) : u[j] = g
  OBVIOUS
<1> QED
  BY <1>2, <1>3, <1>4 DEF Before

\* One step further a program is still guarded, unless the step was the guard; and
\* the step itself is not one of the guarded.
LEMMA GuardedTail ==
    ASSUME NEW s \in Seq(Steps), s # <<>>, NEW g, NEW S, Before(g, S, s)
    PROVE  Head(s) \notin S /\ (Head(s) # g => Before(g, S, Tail(s)))
<1>1. /\ Len(Tail(s)) = Len(s) - 1 /\ Len(s) \in Nat /\ Len(s) >= 1 /\ Head(s) = s[1]
      /\ \A i \in 1..Len(Tail(s)) : Tail(s)[i] = s[i + 1]
  BY HeadTailProperties, EmptySeq, LenProperties
<1>2. Head(s) \notin S
  <2>1. 1 \in 1..Len(s) /\ \A j \in 1..(1 - 1) : FALSE
    BY <1>1
  <2> QED
    BY <1>1, <2>1 DEF Before
<1>3. ASSUME Head(s) # g, NEW i \in 1..Len(Tail(s)), Tail(s)[i] \in S
      PROVE  \E k \in 1..(i - 1) : Tail(s)[k] = g
  <2>1. i + 1 \in 1..Len(s) /\ s[i + 1] \in S
    BY <1>1, <1>3
  <2>2. PICK j \in 1..i : s[j] = g
    <3>1. (i + 1) - 1 = i
      BY <1>1
    <3> QED
      BY <2>1, <3>1 DEF Before
  <2>3. j # 1
    BY <1>1, <1>3, <2>2
  <2>4. j - 1 \in 1..(i - 1) /\ j - 1 \in 1..Len(Tail(s)) /\ (j - 1) + 1 = j
    BY <1>1, <2>1, <2>3
  <2> QED
    BY <1>1, <2>2, <2>4
<1> QED
  BY <1>2, <1>3 DEF Before

\* On every route of the money path the gate that knows what the request does comes
\* before the enclave is asked (tenant_state_mw, body_route_gate).
LEMMA ProgramIsGated ==
    ASSUME NEW kind \in SignTier
    PROVE  Before(GateOf(kind), Signing, Program(kind))
<1> DEFINE front == <<"auth", "state", "rate">>
<1>1. /\ "auth" \in Steps /\ "state" \in Steps /\ "rate" \in Steps /\ "read" \in Steps
      /\ "shape" \in Steps /\ "body" \in Steps
  BY DEF Steps
<1>2. Layers(Tier(kind)) = front
  <2>1. Tier(kind) = "sign"
    BY DEF Tier, SignTier, SignKinds, RequestKinds, OrderRoutes, CancelRoutes, ReadRoutes, OperatorTier, LegKinds
  <2> QED
    BY <2>1 DEF Layers
<1>3. front \in Seq(Steps) /\ <<"read">> \in Seq(Steps) /\ <<>> \in Seq(Steps) /\ <<"shape", "body">> \in Seq(Steps)
  BY <1>1
<1>4. Handler(kind) \in Seq(Steps)
  <2>1. kind \in Kinds
    BY DEF Kinds
  <2>2. Handler(kind) \in Seq(Steps \ {"legs"}) \/ Handler(kind) \in Seq(Steps \ {"call"})
    BY <2>1, HandlerSteps
  <2> QED
    BY <2>2
<1>5. Extractors(kind) \in Seq(Steps)
  BY <1>3 DEF Extractors
<1>6. front \o Extractors(kind) \in Seq(Steps)
  BY <1>3, <1>5, ConcatProperties
<1>7. CASE kind \notin SignKinds \cup RequestKinds
  <2>1. Before("state", Signing, front) /\ \E j \in 1..Len(front) : front[j] = "state"
    BY DEF Before, Signing
  <2>2. Before("state", Signing, front \o Extractors(kind))
        /\ \E j \in 1..Len(front \o Extractors(kind)) : (front \o Extractors(kind))[j] = "state"
    <3> HIDE DEF front
    <3> QED
      BY <1>3, <1>5, <2>1, GuardedPrefix
  <2>3. Before("state", Signing, (front \o Extractors(kind)) \o Handler(kind))
    <3> HIDE DEF front
    <3> QED
      BY <1>4, <1>6, <2>2, GuardedPrefix
  <2> QED
    BY <1>2, <1>7, <2>3 DEF Program, GateOf
<1>8. CASE kind \in SignKinds \cup RequestKinds
  <2> DEFINE check == <<"shape", "body">>
  <2>1. Before("body", Signing, check) /\ \E j \in 1..Len(check) : check[j] = "body"
    BY DEF Before, Signing
  <2>2. \A s \in Seq(Steps) : \A u \in Seq(Steps) :
            Before("body", Signing, s) /\ (\E j \in 1..Len(s) : s[j] = "body") =>
                /\ s \o u \in Seq(Steps)
                /\ Before("body", Signing, s \o u) /\ \E j \in 1..Len(s \o u) : (s \o u)[j] = "body"
    BY GuardedPrefix, ConcatProperties
  <2>3. Before("body", Signing, Handler(kind)) /\ \E j \in 1..Len(Handler(kind)) : Handler(kind)[j] = "body"
    <3>1. CASE kind \in SignKinds
      <4>1. SignBudget(kind) \in Seq(Steps) /\ SignKey \in Seq(Steps) /\ SignAnswer \in Seq(Steps)
        <5>1. /\ "orders" \in Steps /\ "count" \in Steps /\ "cancel" \in Steps /\ "creds" \in Steps
              /\ "blob" \in Steps /\ "breaker" \in Steps /\ "call" \in Steps /\ "fields" \in Steps
              /\ "success" \in Steps
          BY DEF Steps
        <5> QED
          BY <1>3, <5>1 DEF SignBudget, SignKey, SignAnswer, OrderGate, CancelGate
      <4>2. Handler(kind) = ((check \o SignBudget(kind)) \o SignKey) \o SignAnswer
        BY <3>1 DEF Handler, PostSign, SignShape, SignKinds, RequestKinds
      <4>3. check \in Seq(Steps)
        BY <1>3
      <4> HIDE DEF check
      <4>4. LET s == check \o SignBudget(kind) IN
            s \in Seq(Steps) /\ Before("body", Signing, s) /\ \E j \in 1..Len(s) : s[j] = "body"
        BY <2>1, <2>2, <4>1, <4>3
      <4>5. LET s == (check \o SignBudget(kind)) \o SignKey IN
            s \in Seq(Steps) /\ Before("body", Signing, s) /\ \E j \in 1..Len(s) : s[j] = "body"
        BY <2>2, <4>1, <4>4
      <4> DEFINE most == (check \o SignBudget(kind)) \o SignKey
      <4>6. most \in Seq(Steps) /\ Before("body", Signing, most) /\ \E j \in 1..Len(most) : most[j] = "body"
        BY <4>5
      <4>7. Handler(kind) = most \o SignAnswer
        BY <4>2
      <4> HIDE DEF most
      <4>8. Before("body", Signing, most \o SignAnswer)
            /\ \E j \in 1..Len(most \o SignAnswer) : (most \o SignAnswer)[j] = "body"
        BY <2>2, <4>1, <4>6
      <4> QED
        BY <4>7, <4>8
    <3>2. CASE kind \in RequestKinds
      <4>1. RequestBudget(kind) \in Seq(Steps) /\ <<"blob", "breaker", "creds">> \in Seq(Steps)
            /\ RequestAnswer \in Seq(Steps)
        <5>1. /\ "orders" \in Steps /\ "count" \in Steps /\ "cancel" \in Steps /\ "creds" \in Steps
              /\ "blob" \in Steps /\ "breaker" \in Steps /\ "call" \in Steps /\ "fields" \in Steps
              /\ "success" \in Steps
          BY DEF Steps
        <5> QED
          BY <1>3, <5>1 DEF RequestBudget, RequestAnswer, OrderGate, CancelGate
      <4>2. Handler(kind) = ((check \o RequestBudget(kind)) \o <<"blob", "breaker", "creds">>) \o RequestAnswer
        BY <3>2 DEF Handler, PostBinanceRequest, RequestChecks, SignKinds, RequestKinds
      <4>3. check \in Seq(Steps)
        BY <1>3
      <4> HIDE DEF check
      <4>4. LET s == check \o RequestBudget(kind) IN
            s \in Seq(Steps) /\ Before("body", Signing, s) /\ \E j \in 1..Len(s) : s[j] = "body"
        BY <2>1, <2>2, <4>1, <4>3
      <4>5. LET s == (check \o RequestBudget(kind)) \o <<"blob", "breaker", "creds">> IN
            s \in Seq(Steps) /\ Before("body", Signing, s) /\ \E j \in 1..Len(s) : s[j] = "body"
        BY <2>2, <4>1, <4>4
      <4> DEFINE most == (check \o RequestBudget(kind)) \o <<"blob", "breaker", "creds">>
      <4>6. most \in Seq(Steps) /\ Before("body", Signing, most) /\ \E j \in 1..Len(most) : most[j] = "body"
        BY <4>5
      <4>7. Handler(kind) = most \o RequestAnswer
        BY <4>2
      <4> HIDE DEF most
      <4>8. Before("body", Signing, most \o RequestAnswer)
            /\ \E j \in 1..Len(most \o RequestAnswer) : (most \o RequestAnswer)[j] = "body"
        BY <2>2, <4>1, <4>6
      <4> QED
        BY <4>7, <4>8
    <3> QED
      BY <1>8, <3>1, <3>2
  <2>4. Extractors(kind) = <<"read">>
    BY <1>8 DEF Extractors, SignKinds, RequestKinds, ReadRoutes, PublicTier, LegKinds
  <2>5. \A i \in 1..Len(front \o <<"read">>) : (front \o <<"read">>)[i] \notin Signing
    BY DEF Signing
  <2>6. Before("body", Signing, (front \o Extractors(kind)) \o Handler(kind))
    <3> HIDE DEF front
    <3> QED
      BY <1>4, <1>6, <2>3, <2>4, <2>5, GuardedSuffix
  <2> QED
    BY <1>2, <1>8, <2>6 DEF Program, GateOf
<1> QED
  BY <1>7, <1>8

\* The requests that open a position.
OrderKinds == {"signOrder", "requestOrder", "hedge"} \cup OrderRoutes

\* An order is charged before the enclave is asked for it, on every route the
\* gateway can read (order_gate).
LEMMA ProgramIsCharged ==
    ASSUME NEW kind \in OrderKinds
    PROVE  Before("count", Signing, Program(kind))
<1> DEFINE C(s) == /\ s \in Seq(Steps) /\ Before("count", Signing, s)
                   /\ \E j \in 1..Len(s) : s[j] = "count"
           front == <<"auth", "state", "rate">> \o <<"read">>
<1>1. /\ "auth" \in Steps /\ "state" \in Steps /\ "rate" \in Steps /\ "read" \in Steps
      /\ "shape" \in Steps /\ "body" \in Steps /\ "orders" \in Steps /\ "count" \in Steps
      /\ "creds" \in Steps /\ "blob" \in Steps /\ "breaker" \in Steps /\ "call" \in Steps
      /\ "fields" \in Steps /\ "success" \in Steps /\ "legs" \in Steps
  BY DEF Steps
<1>2. \A s, u \in Seq(Steps) : C(s) => C(s \o u)
  BY GuardedPrefix, ConcatProperties
<1>3. /\ OrderGate \in Seq(Steps) /\ SignShape \in Seq(Steps) /\ SignKey \in Seq(Steps)
      /\ <<"shape">> \in Seq(Steps) /\ <<"legs">> \in Seq(Steps) /\ SignedQuery \in Seq(Steps)
      /\ <<"shape", "body">> \in Seq(Steps) /\ <<"blob", "breaker", "creds">> \in Seq(Steps)
      /\ <<"auth", "state", "rate">> \in Seq(Steps) /\ <<"read">> \in Seq(Steps)
  BY <1>1 DEF OrderGate, SignShape, SignKey, SignedQuery
<1>4. SignAnswer \in Seq(Steps) /\ RequestAnswer \in Seq(Steps)
  BY <1>1 DEF SignAnswer, RequestAnswer
<1>5. Structured \in Seq(Steps)
  BY <1>1 DEF Structured
<1>6. C(OrderGate)
  BY <1>3 DEF OrderGate, Before, Signing
<1>pad. \A s \in Seq(Steps) : (\A i \in 1..Len(s) : s[i] \notin Signing) => C(s \o OrderGate)
  <2> SUFFICES ASSUME NEW s \in Seq(Steps), \A i \in 1..Len(s) : s[i] \notin Signing
               PROVE  C(s \o OrderGate)
    OBVIOUS
  <2>1. s \o OrderGate \in Seq(Steps)
    BY <1>3, ConcatProperties
  <2>2. OrderGate \in Seq(Steps) /\ Before("count", Signing, OrderGate)
        /\ \E j \in 1..Len(OrderGate) : OrderGate[j] = "count"
    BY <1>6
  <2>3. Before("count", Signing, s \o OrderGate)
        /\ \E j \in 1..Len(s \o OrderGate) : (s \o OrderGate)[j] = "count"
    BY <2>2, GuardedSuffix
  <2> QED
    BY <2>1, <2>3
<1>7. C(<<"shape">> \o OrderGate)
  <2>1. \A i \in 1..Len(<<"shape">>) : <<"shape">>[i] \notin Signing
    BY DEF Signing
  <2> QED
    BY <1>pad, <1>3, <2>1
<1>8. C(<<"shape", "body">> \o OrderGate)
  <2>1. \A i \in 1..Len(<<"shape", "body">>) : <<"shape", "body">>[i] \notin Signing
    BY DEF Signing
  <2> QED
    BY <1>pad, <1>3, <2>1
<1>9. C(Handler(kind))
  <2> HIDE DEF C
  <2>1. CASE kind = "signOrder"
    <3>1. Handler(kind) = ((<<"shape", "body">> \o OrderGate) \o SignKey) \o SignAnswer
      BY <2>1 DEF Handler, PostSign, SignShape, SignBudget, SignKinds, RequestKinds
    <3>2. C((<<"shape", "body">> \o OrderGate) \o SignKey)
      BY <1>2, <1>3, <1>8, ConcatProperties
    <3> QED
      BY <1>2, <1>3, <1>4, <3>1, <3>2, ConcatProperties
  <2>2. CASE kind = "requestOrder"
    <3>1. Handler(kind) = ((<<"shape", "body">> \o OrderGate) \o <<"blob", "breaker", "creds">>) \o RequestAnswer
      BY <2>2 DEF Handler, PostBinanceRequest, RequestChecks, RequestBudget, SignKinds, RequestKinds
    <3>2. C((<<"shape", "body">> \o OrderGate) \o <<"blob", "breaker", "creds">>)
      BY <1>2, <1>3, <1>8, ConcatProperties
    <3> QED
      BY <1>2, <1>3, <1>4, <3>1, <3>2, ConcatProperties
  <2>3. CASE kind = "hedge"
    <3>1. Handler(kind) = (<<"shape">> \o OrderGate) \o <<"legs">>
      BY <2>3 DEF Handler, PostHedge, SignKinds, RequestKinds
    <3> QED
      BY <1>2, <1>3, <1>7, <3>1, ConcatProperties
  <2>4. CASE kind = "binanceOrder"
    <3>1. Handler(kind) = (OrderGate \o Structured) \o SignedQuery
      BY <2>4 DEF Handler, PostBinanceOrder, SignKinds, RequestKinds
    <3>2. C(OrderGate \o Structured)
      BY <1>2, <1>3, <1>5, <1>6
    <3> QED
      BY <1>2, <1>3, <1>5, <3>1, <3>2, ConcatProperties
  <2>5. CASE kind = "spotOrder"
    <3>1. Handler(kind) = ((<<"shape">> \o OrderGate) \o Structured) \o SignedQuery
      BY <2>5 DEF Handler, PostSpotOrder, SignKinds, RequestKinds
    <3>2. C((<<"shape">> \o OrderGate) \o Structured)
      BY <1>2, <1>3, <1>5, <1>7, ConcatProperties
    <3> QED
      BY <1>2, <1>3, <1>5, <3>1, <3>2, ConcatProperties
  <2>6. CASE kind = "okxOrder"
    <3>1. Handler(kind) = OrderGate \o Structured
      BY <2>6 DEF Handler, PostOkxOrder, SignKinds, RequestKinds
    <3> QED
      BY <1>2, <1>3, <1>5, <1>6, <3>1
  <2> QED
    BY <2>1, <2>2, <2>3, <2>4, <2>5, <2>6 DEF OrderKinds, OrderRoutes
<1>10. Program(kind) = front \o Handler(kind)
  <2>1. Tier(kind) = "sign"
    BY DEF OrderKinds, Tier, SignTier, SignKinds, RequestKinds, OrderRoutes, CancelRoutes, ReadRoutes,
           OperatorTier, LegKinds
  <2>2. Extractors(kind) = <<"read">>
    BY DEF OrderKinds, Extractors, OrderRoutes, ReadRoutes, PublicTier, LegKinds
  <2> QED
    BY <2>1, <2>2 DEF Program, Layers
<1>11. front \in Seq(Steps) /\ \A i \in 1..Len(front) : front[i] \notin Signing
  <2>1. front \in Seq(Steps)
    BY <1>3, ConcatProperties
  <2> QED
    BY <2>1 DEF Signing
<1> HIDE DEF front
<1> QED
  BY <1>9, <1>10, <1>11, GuardedSuffix

\* The class the path or the body gives a request is never milder than what the
\* request does: a gate that passes saw a state that lets the request through
\* (classify, classify_binance_op, decide).
LEMMA GateIsRight ==
    ASSUME NEW kind \in SignTier, NEW s \in TenantStates,
           IF kind \in SignKinds \cup RequestKinds
           THEN BodyClass(kind) \in AllowedClasses(s) ELSE PathClass(kind) \in AllowedClasses(s)
    PROVE  LetsThrough(s, kind)
<1>0. kind \in SignKinds \cup RequestKinds \cup OrderRoutes \cup CancelRoutes \cup ReadRoutes
              \cup {"x402", "permit2", "cancelAll", "hedge", "heartbeat"}
  BY DEF SignTier
<1>1. CASE kind \in SignKinds
  BY <1>1 DEF BodyClass, SignBodyClass, SignKinds, LetsThrough, Effect, AllowedClasses, RouteClasses,
              OrderRoutes, LegKinds, CancelRoutes, ReadRoutes, TenantStates
<1>2. CASE kind \in RequestKinds
  BY <1>2 DEF BodyClass, BinanceOpClass, SignKinds, RequestKinds, LetsThrough, Effect, AllowedClasses,
              RouteClasses, OrderRoutes, LegKinds, CancelRoutes, ReadRoutes, TenantStates
<1>3. CASE kind \in OrderRoutes \cup {"hedge"}
  <2>1. PathClass(kind) = "Order"
    BY <1>3 DEF PathClass, SignKinds, RequestKinds, OrderRoutes, CancelRoutes, ReadRoutes
  <2>2. Effect(kind) = "Order" /\ kind \notin SignKinds \cup RequestKinds
    BY <1>3 DEF Effect, SignKinds, RequestKinds, OrderRoutes, CancelRoutes, ReadRoutes, LegKinds
  <2> QED
    BY <2>1, <2>2 DEF LetsThrough
<1>4. CASE kind \in CancelRoutes \cup {"cancelAll"}
  <2>1. PathClass(kind) = "Cancel"
    BY <1>4 DEF PathClass, SignKinds, RequestKinds, OrderRoutes, CancelRoutes, ReadRoutes
  <2>2. Effect(kind) = "Cancel" /\ kind \notin SignKinds \cup RequestKinds
    BY <1>4 DEF Effect, SignKinds, RequestKinds, OrderRoutes, CancelRoutes, ReadRoutes, LegKinds
  <2> QED
    BY <2>1, <2>2 DEF LetsThrough
<1>5. CASE kind \in ReadRoutes
  <2>1. PathClass(kind) = "Read"
    BY <1>5 DEF PathClass, SignKinds, RequestKinds, OrderRoutes, CancelRoutes, ReadRoutes
  <2>2. Effect(kind) = "Read" /\ kind \notin SignKinds \cup RequestKinds
    BY <1>5 DEF Effect, SignKinds, RequestKinds, OrderRoutes, CancelRoutes, ReadRoutes, LegKinds
  <2> QED
    BY <2>1, <2>2 DEF LetsThrough
<1>6. CASE kind \in {"x402", "permit2", "heartbeat"}
  <2>1. kind \notin SignKinds \cup RequestKinds \cup OrderRoutes \cup CancelRoutes \cup ReadRoutes \cup LegKinds
    BY <1>6 DEF SignKinds, RequestKinds, OrderRoutes, CancelRoutes, ReadRoutes, LegKinds
  <2> QED
    BY <1>6, <2>1 DEF PathClass, LetsThrough, Effect, AllowedClasses, RouteClasses, TenantStates
<1> QED
  BY <1>0, <1>1, <1>2, <1>3, <1>4, <1>5, <1>6

\* What the classes say of the tenants' states: ACTIVE lets everything through, and
\* a stop lets through no more than what it replaces.
LEMMA StopsOnlyTighten ==
    /\ \A kind : LetsThrough(Active, kind)
    /\ \A from \in TenantStates, to \in {CancelOnly, Halted} : Changes(from, to, "Client", TRUE) =>
          \A kind : LetsThrough(to, kind) => LetsThrough(from, kind)
<1>1. \A kind : Effect(kind) \in RouteClasses
  BY DEF Effect, RouteClasses
<1>2. ASSUME NEW from \in TenantStates, NEW to \in {CancelOnly, Halted}, Changes(from, to, "Client", TRUE)
      PROVE  AllowedClasses(to) \subseteq AllowedClasses(from)
  BY <1>2 DEF TenantStates, Active, CancelOnly, Halted, Changes, Refused, Severity, AllowedClasses, RouteClasses
<1>3. AllowedClasses(Active) = RouteClasses
  BY DEF AllowedClasses, Active, CancelOnly
<1> QED
  BY <1>1, <1>2, <1>3 DEF LetsThrough

\* What a step does to a task it does not start: it ends, or goes on with its
\* program, past a gate only if the gate lets it, past the charge only with it, and
\* into the router only with a slot.
Advances(u) ==
    \/ task'[u] = NoTask
    \/ /\ task[u] # NoTask /\ task'[u] # NoTask
       /\ task'[u].kind = task[u].kind /\ task'[u].cust = task[u].cust
       /\ task'[u].at \in Live => task[u].at \in Live
       /\ u \in Requests /\ task[u].at = "arriving" => task'[u].at = "arriving" \/ TakeSlot(u)
       /\ \/ task'[u].todo = task[u].todo
          \/ task'[u].todo = <<>>
          \/ /\ task[u].todo # <<>> /\ task'[u].todo = Tail(task[u].todo)
             /\ Head(task[u].todo) = "state" =>
                   PathClass(task[u].kind) \in AllowedClasses(level[task[u].cust])
             /\ Head(task[u].todo) = "body" =>
                   BodyClass(task[u].kind) \in AllowedClasses(level[task[u].cust])
             /\ Head(task[u].todo) = "count" =>
                   counted' = [counted EXCEPT ![task[u].cust] = @ + 1]

\* A task that is not idle is a record with all its fields.
LEMMA RunningTask ==
    ASSUME TasksFit, NEW t \in Tasks, task[t].at # "idle"
    PROVE  task[t] # NoTask /\ task[t] \in TaskRecords
  BY DEF TasksFit, NoTask

\* One step of a program done.
LEMMA PassedFits ==
    ASSUME NEW t, NEW k, Fits(t, k), k # NoTask, k.at \in {"run", "calling"}, k.todo # <<>>,
           NEW n, n = [k EXCEPT !.at = "run", !.todo = Tail(k.todo)]
    PROVE  n # NoTask /\ n \in TaskRecords /\ Fits(t, n)
<1>1. k \in TaskRecords /\ k.todo \in Seq(Steps)
  BY DEF Fits, TaskRecords
<1>2. Tail(k.todo) \in Seq(Steps)
  BY <1>1, HeadTailProperties
<1>3. /\ n.at = "run" /\ n.kind = k.kind /\ n.cust = k.cust /\ n.sends = k.sends
      /\ n.todo = Tail(k.todo) /\ n.ok = k.ok
  BY <1>1 DEF TaskRecords
<1>4. n \in TaskRecords
  BY <1>1, <1>2 DEF TaskRecords
<1>5. n # NoTask
  BY <1>3 DEF NoTask
<1>6. ASSUME t \in Requests PROVE n.kind \in Kinds /\ n.todo \in Seq(StepsOf(n.kind))
  <2>1. k.kind \in Kinds /\ k.todo \in Seq(StepsOf(k.kind))
    BY <1>6 DEF Fits
  <2>2. Tail(k.todo) \in Seq(StepsOf(k.kind))
    BY <2>1, HeadTailProperties
  <2> QED
    BY <1>3, <2>1, <2>2
<1> QED
  BY <1>3, <1>4, <1>5, <1>6 DEF Fits

\* A task with a new place and the same program.
LEMMA MovedFits ==
    ASSUME NEW t, NEW k, Fits(t, k), k # NoTask,
           NEW at \in {"run", "calling", "joining", "executing"},
           at = "calling" => k.todo # <<>> /\ Head(k.todo) = "call",
           NEW n, n = [k EXCEPT !.at = at]
    PROVE  /\ n # NoTask /\ n \in TaskRecords /\ Fits(t, n)
           /\ n.at = at /\ n.kind = k.kind /\ n.cust = k.cust /\ n.todo = k.todo
<1>1. k \in TaskRecords
  BY DEF Fits
<1>2. n \in TaskRecords /\ n.at = at /\ n.kind = k.kind /\ n.cust = k.cust /\ n.todo = k.todo
  BY <1>1 DEF TaskRecords
<1>3. n # NoTask
  BY <1>2 DEF NoTask
<1> QED
  BY <1>2, <1>3 DEF Fits

\* The two ways a step leaves a task, and what else stands still.
LEMMA PassedAdvances ==
    ASSUME TasksFit, NEW t \in Tasks, task[t].at = "run" /\ task[t].todo # <<>>, task' = Passed(t),
           Head(task[t].todo) = "state" => PathClass(task[t].kind) \in AllowedClasses(level[task[t].cust]),
           Head(task[t].todo) = "body" => BodyClass(task[t].kind) \in AllowedClasses(level[task[t].cust]),
           Head(task[t].todo) = "count" => counted' = [counted EXCEPT ![task[t].cust] = @ + 1]
    PROVE  TasksFit' /\ \A u \in Tasks : Advances(u)
<1> DEFINE k == task[t]
           n == [k EXCEPT !.at = "run", !.todo = Tail(k.todo)]
<1>1. k # NoTask /\ k \in TaskRecords /\ Fits(t, k)
  BY RunningTask DEF TasksFit
<1>2. task' = [task EXCEPT ![t] = n]
  <2>1. [k EXCEPT !.todo = Tail(k.todo)] = n
    BY <1>1 DEF TaskRecords
  <2> QED
    BY <2>1 DEF Passed
<1>3. n # NoTask /\ n \in TaskRecords /\ Fits(t, n)
  BY <1>1, PassedFits
<1>4. n.at = "run" /\ n.kind = k.kind /\ n.cust = k.cust /\ n.todo = Tail(k.todo)
  BY <1>1 DEF TaskRecords
<1> HIDE DEF n
<1>5. task'[t] = n /\ \A u \in Tasks : u # t => task'[u] = task[u]
  BY <1>2 DEF TasksFit
<1>6. TasksFit'
  <2>1. task' \in [Tasks -> {NoTask} \cup TaskRecords]
    BY <1>2, <1>3 DEF TasksFit
  <2>2. \A u \in Tasks : Fits(u, task'[u])
    BY <1>3, <1>5 DEF TasksFit
  <2> QED
    BY <2>1, <2>2 DEF TasksFit, Fits
<1>7. Advances(t)
  BY <1>1, <1>3, <1>4, <1>5 DEF Advances, Live
<1>8. ASSUME NEW u \in Tasks, u # t PROVE Advances(u)
  BY <1>5, <1>8 DEF Advances
<1> QED
  BY <1>6, <1>7, <1>8

LEMMA EndedAdvances ==
    ASSUME TasksFit, NEW t \in Tasks, task[t].at # "idle", NEW ok \in BOOLEAN,
           task' = Ended(t, ok) \/ (t \in Requests /\ task' = [task EXCEPT ![t] = NoTask])
    PROVE  TasksFit' /\ \A u \in Tasks : Advances(u)
<1> DEFINE k == task[t]
           n == [k EXCEPT !.at = "done", !.todo = <<>>, !.ok = ok]
<1>1. k # NoTask /\ k \in TaskRecords /\ Fits(t, k)
  BY RunningTask DEF TasksFit
<1>2. CASE t \in Requests
  <2>1. task' = [task EXCEPT ![t] = NoTask]
    BY <1>2 DEF Ended
  <2>2. task'[t] = NoTask /\ \A u \in Tasks : u # t => task'[u] = task[u]
    BY <2>1 DEF TasksFit
  <2>3. TasksFit'
    <3>1. task' \in [Tasks -> {NoTask} \cup TaskRecords]
      BY <2>1 DEF TasksFit
    <3>2. \A u \in Tasks : Fits(u, task'[u])
      BY <2>2 DEF TasksFit, Fits
    <3> QED
      BY <3>1, <3>2 DEF TasksFit, Fits
  <2> QED
    BY <2>2, <2>3 DEF Advances
<1>3. CASE t \notin Requests
  <2>0. t \in Legs
    BY <1>3 DEF Tasks
  <2>1. task' = [task EXCEPT ![t] = n]
    BY <1>3 DEF Ended
  <2>2. /\ n # NoTask /\ n \in TaskRecords /\ Fits(t, n)
        /\ n.at = "done" /\ n.kind = k.kind /\ n.cust = k.cust /\ n.todo = <<>>
    <3>1. k.kind = t /\ t \notin Requests /\ <<>> \in Seq(Steps)
      BY <1>1, <1>3, <2>0, GatewayAssumption DEF Fits
    <3>2. n \in TaskRecords /\ n.at = "done" /\ n.kind = k.kind /\ n.cust = k.cust /\ n.todo = <<>>
      BY <1>1, <3>1 DEF TaskRecords
    <3>3. n # NoTask
      BY <3>2 DEF NoTask
    <3> HIDE DEF n
    <3> QED
      BY <3>1, <3>2, <3>3 DEF Fits
  <2> HIDE DEF n
  <2>3. task'[t] = n /\ \A u \in Tasks : u # t => task'[u] = task[u]
    BY <2>1 DEF TasksFit
  <2>4. TasksFit'
    <3>1. task' \in [Tasks -> {NoTask} \cup TaskRecords]
      BY <2>1, <2>2 DEF TasksFit
    <3>2. \A u \in Tasks : Fits(u, task'[u])
      BY <2>2, <2>3 DEF TasksFit
    <3> QED
      BY <3>1, <3>2 DEF TasksFit, Fits
  <2>5. Advances(t)
    BY <1>1, <1>3, <2>2, <2>3 DEF Advances, Live
  <2>6. ASSUME NEW u \in Tasks, u # t PROVE Advances(u)
    BY <2>3, <2>6 DEF Advances
  <2> QED
    BY <2>4, <2>5, <2>6
<1> QED
  BY <1>2, <1>3

\* A task with a new place and the same program.
LEMMA MovedAdvances ==
    ASSUME TasksFit, NEW t \in Tasks, task[t].at # "idle",
           NEW at \in {"run", "calling", "joining", "executing"},
           at = "calling" => task[t].todo # <<>> /\ Head(task[t].todo) = "call",
           at \in Live => task[t].at \in Live, task[t].at = "arriving" => TakeSlot(t),
           task' = [task EXCEPT ![t] = [task[t] EXCEPT !.at = at]]
    PROVE  TasksFit' /\ \A u \in Tasks : Advances(u)
<1> DEFINE k == task[t]
           n == [k EXCEPT !.at = at]
<1>1. k # NoTask /\ k \in TaskRecords /\ Fits(t, k)
  BY RunningTask DEF TasksFit
<1>2. /\ n # NoTask /\ n \in TaskRecords /\ Fits(t, n)
      /\ n.at = at /\ n.kind = k.kind /\ n.cust = k.cust /\ n.todo = k.todo
  BY <1>1, MovedFits
<1>3. task' = [task EXCEPT ![t] = n]
  OBVIOUS
<1> HIDE DEF n
<1>4. task'[t] = n /\ \A u \in Tasks : u # t => task'[u] = task[u]
  BY <1>3 DEF TasksFit
<1>5. TasksFit'
  <2>1. task' \in [Tasks -> {NoTask} \cup TaskRecords]
    BY <1>2, <1>3 DEF TasksFit
  <2>2. \A u \in Tasks : Fits(u, task'[u])
    BY <1>2, <1>4 DEF TasksFit
  <2> QED
    BY <2>1, <2>2 DEF TasksFit, Fits
<1>6. Advances(t)
  BY <1>1, <1>2, <1>4 DEF Advances
<1>7. ASSUME NEW u \in Tasks, u # t PROVE Advances(u)
  BY <1>4, <1>7 DEF Advances
<1> QED
  BY <1>5, <1>6, <1>7

\* Tasks that are dropped together, or not touched.
LEMMA DroppedAdvances ==
    ASSUME TasksFit, NEW D, task' = [u \in Tasks |-> IF u \in D THEN NoTask ELSE task[u]]
    PROVE  TasksFit' /\ \A u \in Tasks : Advances(u)
<1>1. \A u \in Tasks : task'[u] = NoTask \/ task'[u] = task[u]
  OBVIOUS
<1>2. task' \in [Tasks -> {NoTask} \cup TaskRecords]
  BY DEF TasksFit
<1>3. \A u \in Tasks : Fits(u, task'[u])
  BY <1>1 DEF TasksFit, Fits
<1> QED
  BY <1>1, <1>2, <1>3 DEF TasksFit, Fits, Advances

LEMMA SameAdvances ==
    ASSUME TasksFit, task' = task
    PROVE  TasksFit' /\ \A u \in Tasks : Advances(u)
  BY DEF TasksFit, Fits, Advances

LEMMA TaskStepAdvances ==
    ASSUME TasksFit, NEW t \in Tasks, TaskStep(t)
    PROVE  TasksFit' /\ \A u \in Tasks : Advances(u)
<1>1. ASSUME NEW S, At(t, S) PROVE task[t].at = "run" /\ task[t].todo # <<>> /\ Head(task[t].todo) \in S
  BY <1>1 DEF At
<1>2. ASSUME NEW S, At(t, S), S \cap {"state", "body", "count"} = {}, task' = Passed(t)
      PROVE  TasksFit' /\ \A u \in Tasks : Advances(u)
  <2>1. task[t].at = "run" /\ task[t].todo # <<>> /\ Head(task[t].todo) \in S
    BY <1>1, <1>2
  <2> QED
    BY <1>2, <2>1, PassedAdvances
<1>3. ASSUME task[t].at = "run", task' = Ended(t, TRUE) \/ task' = Ended(t, FALSE)
      PROVE  TasksFit' /\ \A u \in Tasks : Advances(u)
  BY <1>3, EndedAdvances
<1>4. CASE Authenticate(t)
  <2>1. At(t, {"auth"}) /\ (task' = Ended(t, FALSE) \/ task' = Passed(t))
    BY <1>4 DEF Authenticate
  <2> QED
    BY <1>1, <1>2, <1>3, <2>1
<1>5. CASE StateGate(t)
  <2>1. task[t].at = "run" /\ task[t].todo # <<>> /\ Head(task[t].todo) = "state"
    BY <1>5 DEF StateGate, At
  <2>2. CASE PathClass(task[t].kind) \in AllowedClasses(level[task[t].cust])
    <3>1. task' = Passed(t)
      BY <1>5, <2>2 DEF StateGate
    <3> QED
      BY <2>1, <2>2, <3>1, PassedAdvances
  <2>3. CASE PathClass(task[t].kind) \notin AllowedClasses(level[task[t].cust])
    <3>1. task' = Ended(t, FALSE)
      BY <1>5, <2>3 DEF StateGate
    <3> QED
      BY <1>3, <2>1, <3>1
  <2> QED
    BY <2>2, <2>3
<1>6. CASE BodyGate(t)
  <2>1. task[t].at = "run" /\ task[t].todo # <<>> /\ Head(task[t].todo) = "body"
    BY <1>6 DEF BodyGate, At
  <2>2. CASE BodyClass(task[t].kind) \in AllowedClasses(level[task[t].cust])
    <3>1. task' = Passed(t)
      BY <1>6, <2>2 DEF BodyGate
    <3> QED
      BY <2>1, <2>2, <3>1, PassedAdvances
  <2>3. CASE BodyClass(task[t].kind) \notin AllowedClasses(level[task[t].cust])
    <3>1. task' = Ended(t, FALSE)
      BY <1>6, <2>3 DEF BodyGate
    <3> QED
      BY <1>3, <2>1, <3>1
  <2> QED
    BY <2>2, <2>3
<1>7. CASE ReadBody(t)
  <2>1. At(t, {"read"}) /\ (task' = Ended(t, FALSE) \/ task' = Passed(t))
    BY <1>7 DEF ReadBody
  <2> QED
    BY <1>1, <1>2, <1>3, <2>1
<1>8. CASE Check(t)
  <2>1. At(t, OpenChecks) /\ task' = Passed(t) /\ OpenChecks \cap {"state", "body", "count"} = {}
    BY <1>8 DEF Check, OpenChecks
  <2> QED
    BY <1>2, <2>1
<1>9. CASE CheckFails(t)
  BY <1>1, <1>3, <1>9 DEF CheckFails
<1>10. CASE Count(t)
  <2>1. task[t].at = "run" /\ task[t].todo # <<>> /\ Head(task[t].todo) = "count" /\ task' = Passed(t)
    BY <1>10 DEF Count, At
  <2>2. counted' = [counted EXCEPT ![task[t].cust] = @ + 1]
    BY <1>10 DEF Count
  <2> QED
    BY <2>1, <2>2, PassedAdvances
<1>11. CASE CountDenies(t)
  BY <1>1, <1>3, <1>11 DEF CountDenies
<1>12. CASE AskBreaker(t)
  <2>1. At(t, {"breaker"}) /\ (task' = Ended(t, FALSE) \/ task' = Passed(t))
    BY <1>12 DEF AskBreaker
  <2> QED
    BY <1>1, <1>2, <1>3, <2>1
<1>13. CASE Succeed(t)
  <2>1. At(t, {"success"}) /\ task' = Passed(t)
    BY <1>13 DEF Succeed
  <2> QED
    BY <1>2, <2>1
<1>14. CASE Answer(t)
  BY <1>3, <1>14 DEF Answer
<1>15. CASE \E to \in {CancelOnly, Halted} : PressStop(t, to)
  BY <1>1, <1>3, <1>15 DEF PressStop
<1>16. CASE Connect(t)
  <2>1. task[t].at = "run" /\ task[t].todo # <<>> /\ Head(task[t].todo) = "call"
    BY <1>16 DEF Connect, At
  <2>2. task' = [task EXCEPT ![t] = [task[t] EXCEPT !.at = "calling"]]
    BY <1>16 DEF Connect
  <2> QED
    BY <2>1, <2>2, MovedAdvances DEF Live
<1>17. CASE Unreachable(t)
  BY <1>1, <1>3, <1>17 DEF Unreachable
<1> QED
  BY <1>4, <1>5, <1>6, <1>7, <1>8, <1>9, <1>10, <1>11, <1>12, <1>13, <1>14, <1>15, <1>16, <1>17 DEF TaskStep

LEMMA RequestStepAdvances ==
    ASSUME TasksFit, NEW q \in Requests,
           Shed(q) \/ TakeSlot(q) \/ JoinLegs(q) \/ TellHedge(q) \/ TimeOut(q)
    PROVE  TasksFit' /\ \A u \in Tasks : Advances(u)
<1>0. q \in Tasks
  BY DEF Tasks
<1>1. CASE Shed(q)
  <2>1. task[q].at = "arriving" /\ task' = [task EXCEPT ![q] = NoTask]
    BY <1>1 DEF Shed
  <2> QED
    BY <1>0, <2>1, EndedAdvances
<1>2. CASE TakeSlot(q)
  <2>1. task[q].at = "arriving" /\ task' = [task EXCEPT ![q] = [task[q] EXCEPT !.at = "run"]]
    BY <1>2 DEF TakeSlot
  <2> QED
    BY <1>0, <1>2, <2>1, MovedAdvances DEF Live
<1>3. CASE JoinLegs(q)
  <2>1. task[q].at = "joining" /\ q \notin Legs
    BY <1>3, GatewayAssumption DEF JoinLegs
  <2> DEFINE ok == \A l \in Legs : task[l].ok
  <2>2. CASE ~ok
    <3>1. task' = [u \in Tasks |-> IF u \in Legs \cup {q} THEN NoTask ELSE task[u]]
      BY <1>3, <2>2 DEF JoinLegs
    <3> QED
      BY <3>1, DroppedAdvances
  <2>3. CASE ok
    <3> DEFINE n == [task[q] EXCEPT !.at = "executing"]
    <3>1. task' = [u \in Tasks |-> IF u = q THEN n ELSE IF u \in Legs THEN NoTask ELSE task[u]]
      BY <1>3, <2>1, <2>3 DEF JoinLegs
    <3>2. task[q] # NoTask /\ Fits(q, task[q])
      BY <1>0, <2>1, RunningTask DEF TasksFit
    <3>3. /\ n # NoTask /\ n \in TaskRecords /\ Fits(q, n)
          /\ n.at = "executing" /\ n.kind = task[q].kind /\ n.cust = task[q].cust /\ n.todo = task[q].todo
      BY <3>2, MovedFits
    <3> HIDE DEF n
    <3>4. task'[q] = n /\ \A u \in Tasks : u # q => task'[u] = NoTask \/ task'[u] = task[u]
      BY <1>0, <3>1
    <3>5. task' \in [Tasks -> {NoTask} \cup TaskRecords]
      BY <3>1, <3>3 DEF TasksFit
    <3>6. \A u \in Tasks : Fits(u, task'[u])
      BY <3>3, <3>4 DEF TasksFit, Fits
    <3>7. Advances(q)
      BY <2>1, <3>2, <3>3, <3>4 DEF Advances, Live
    <3>8. ASSUME NEW u \in Tasks, u # q PROVE Advances(u)
      BY <3>4, <3>8 DEF Advances
    <3> QED
      BY <3>5, <3>6, <3>7, <3>8 DEF TasksFit, Fits
  <2> QED
    BY <2>2, <2>3
<1>4. CASE TellHedge(q)
  <2>1. task[q].at = "executing" /\ task' = [task EXCEPT ![q] = NoTask]
    BY <1>4 DEF TellHedge
  <2> QED
    BY <1>0, <2>1, EndedAdvances
<1>5. CASE TimeOut(q)
  <2> DEFINE D == {u \in Tasks : u = q \/ (task[q].at = "joining" /\ u \in Legs)}
  <2>1. task' = [u \in Tasks |-> IF u \in D THEN NoTask ELSE task[u]]
    BY <1>5 DEF TimeOut
  <2> HIDE DEF D
  <2> QED
    BY <2>1, DroppedAdvances
<1> QED
  BY <1>1, <1>2, <1>3, <1>4, <1>5

LEMMA EnclaveStepAdvances ==
    ASSUME TasksFit, NEW t \in Tasks, EnclaveStep(t)
    PROVE  TasksFit' /\ \A u \in Tasks : Advances(u)
<1>1. CASE Accept(t)
  BY <1>1, SameAdvances DEF Accept
<1>2. ASSUME NEW reply \in {"signature", "error", "limited"}, EnclaveAnswers(t, reply)
      PROVE  TasksFit' /\ \A u \in Tasks : Advances(u)
  <2>1. CASE task[t].at # "calling"
    BY <1>2, <2>1, SameAdvances DEF EnclaveAnswers
  <2>2. CASE task[t].at = "calling" /\ reply # "signature"
    <3>1. task' = Ended(t, FALSE)
      BY <1>2, <2>2 DEF EnclaveAnswers
    <3> QED
      BY <2>2, <3>1, EndedAdvances
  <2>3. CASE task[t].at = "calling" /\ reply = "signature"
    <3> DEFINE k == task[t]
               n == [k EXCEPT !.at = "run", !.todo = Tail(k.todo)]
    <3>1. k # NoTask /\ k \in TaskRecords /\ Fits(t, k)
      BY <2>3, RunningTask DEF TasksFit
    <3>2. k.todo # <<>> /\ Head(k.todo) = "call"
      BY <2>3, <3>1 DEF Fits
    <3>3. task' = [task EXCEPT ![t] = n]
      <4>1. task' = [task EXCEPT ![t].at = "run", ![t].todo = Tail(@)]
        BY <1>2, <2>3 DEF EnclaveAnswers
      <4> QED
        BY <3>1, <4>1 DEF TasksFit, TaskRecords
    <3>4. n # NoTask /\ n \in TaskRecords /\ Fits(t, n)
      BY <2>3, <3>1, <3>2, PassedFits
    <3>5. n.at = "run" /\ n.kind = k.kind /\ n.cust = k.cust /\ n.todo = Tail(k.todo)
      BY <3>1 DEF TaskRecords
    <3> HIDE DEF n
    <3>6. task'[t] = n /\ \A u \in Tasks : u # t => task'[u] = task[u]
      BY <3>3 DEF TasksFit
    <3>7. task' \in [Tasks -> {NoTask} \cup TaskRecords]
      BY <3>3, <3>4 DEF TasksFit
    <3>8. \A u \in Tasks : Fits(u, task'[u])
      BY <3>4, <3>6 DEF TasksFit
    <3>9. Advances(t)
      BY <2>3, <3>1, <3>2, <3>4, <3>5, <3>6 DEF Advances, Live
    <3>10. ASSUME NEW u \in Tasks, u # t PROVE Advances(u)
      BY <3>6, <3>10 DEF Advances
    <3> QED
      BY <3>7, <3>8, <3>9, <3>10 DEF TasksFit, Fits
  <2> QED
    BY <2>1, <2>2, <2>3
<1>3. ASSUME NEW late \in BOOLEAN, ConnectionBreaks(t, late)
      PROVE  TasksFit' /\ \A u \in Tasks : Advances(u)
  <2>1. CASE task[t].at # "calling"
    BY <1>3, <2>1, SameAdvances DEF ConnectionBreaks
  <2>2. CASE task[t].at = "calling"
    <3>1. task' = Ended(t, FALSE)
      BY <1>3, <2>2 DEF ConnectionBreaks
    <3> QED
      BY <2>2, <3>1, EndedAdvances
  <2> QED
    BY <2>1, <2>2
<1> QED
  BY <1>1, <1>2, <1>3 DEF EnclaveStep

\* A token is nobody's or one of the tenants': the last entry exists
\* (AuthState::lookup).
LEMMA LookupIsSomebody ==
    ASSUME NEW entries \in Seq([token : Tokens, customer : Customers]), NEW token
    PROVE  Lookup(entries, token) \in Customers \cup {Nobody}
<1> DEFINE n == Len(entries)
           hits == {i \in 1..n : entries[i].token = token}
           back == {n - i : i \in hits}
           R == OpToRel(<, Nat)
<1>1. CASE hits = {}
  BY <1>1 DEF Lookup
<1>2. CASE hits # {}
  <2>1. n \in Nat /\ back \subseteq Nat /\ back # {}
    BY <1>2
  <2>2. IsWellFoundedOn(R, Nat)
    BY NatLessThanWellFounded
  <2>3. PICK x \in back : \A y \in back : ~(<<y, x>> \in R)
    <3> HIDE DEF back, R
    <3> QED
      BY <2>1, <2>2, WFMin
  <2>4. \A y \in back : ~(y < x)
    BY <2>1, <2>3 DEF OpToRel
  <2>5. PICK m \in hits : x = n - m
    OBVIOUS
  <2>6. \A j \in hits : j <= m
    <3> SUFFICES ASSUME NEW j \in hits PROVE j <= m
      OBVIOUS
    <3>1. n - j \in back /\ j \in Int /\ m \in Int
      OBVIOUS
    <3>2. ~(n - j < x)
      BY <2>4, <3>1
    <3> HIDE DEF n, hits, back
    <3> QED
      BY <2>1, <2>5, <3>1, <3>2
  <2> DEFINE last == CHOOSE i \in hits : \A j \in hits : j <= i
  <2>7. last \in hits
    BY <2>6
  <2>8. entries[last].customer \in Customers
    <3>1. last \in 1..Len(entries)
      BY <2>7
    <3> HIDE DEF last
    <3>2. entries[last] \in [token : Tokens, customer : Customers]
      BY <3>1, ElementOfSeq
    <3> QED
      BY <3>2
  <2>9. Lookup(entries, token) = entries[last].customer
    BY <1>2 DEF Lookup
  <2> QED
    BY <2>8, <2>9
<1> QED
  BY <1>1, <1>2

\* A request starts with the whole of its program.
LEMMA ArriveFits ==
    ASSUME TasksFit, NEW q \in Requests, NEW kind \in KindsOf[q], NEW token, NEW sends \in Sends,
           Arrive(q, kind, token, sends)
    PROVE  /\ TasksFit' /\ kind \in Kinds
           /\ task'[q] # NoTask /\ task'[q].at = "arriving" /\ task'[q].kind = kind
           /\ task'[q].cust = Resolved(kind, token) /\ task'[q].todo = Program(kind)
           /\ \A u \in Tasks : u # q => task'[u] = task[u]
<1> DEFINE n == [at |-> "arriving", kind |-> kind, cust |-> Resolved(kind, token), sends |-> sends,
                 todo |-> Program(kind), ok |-> FALSE]
<1>1. task' = [task EXCEPT ![q] = n]
  BY DEF Arrive
<1>2. kind \in Kinds /\ q \in Tasks /\ q \notin Legs
  BY GatewayAssumption DEF Tasks
<1>3. Resolved(kind, token) \in Customers \cup {Nobody}
  BY LookupIsSomebody, GatewayAssumption DEF Resolved
<1>4. Program(kind) \in Seq(StepsOf(kind))
  BY <1>2, ProgramSteps
<1>5. Program(kind) \in Seq(Steps)
  BY <1>4 DEF StepsOf
<1>6. n \in TaskRecords
  BY <1>2, <1>3, <1>5 DEF TaskRecords
<1>7. /\ n.at = "arriving" /\ n.kind = kind /\ n.cust = Resolved(kind, token) /\ n.todo = Program(kind)
  OBVIOUS
<1>8. n # NoTask
  BY <1>7 DEF NoTask
<1> HIDE DEF n
<1>9. Fits(q, n)
  BY <1>2, <1>4, <1>6, <1>7 DEF Fits
<1>10. task'[q] = n /\ \A u \in Tasks : u # q => task'[u] = task[u]
  BY <1>1, <1>2 DEF TasksFit
<1>11. task' \in [Tasks -> {NoTask} \cup TaskRecords]
  BY <1>1, <1>6 DEF TasksFit
<1>12. \A u \in Tasks : Fits(u, task'[u])
  BY <1>9, <1>10 DEF TasksFit
<1> QED
  BY <1>2, <1>7, <1>8, <1>10, <1>11, <1>12 DEF TasksFit, Fits

\* A hedge starts its legs for the tenant it serves, and waits.
LEMMA SignLegsFits ==
    ASSUME TasksFit, NEW q \in Requests, SignLegs(q)
    PROVE  /\ TasksFit'
           /\ task[q] # NoTask /\ task[q].at = "run" /\ task[q].kind = "hedge"
           /\ task[q].todo # <<>> /\ Head(task[q].todo) = "legs" /\ task[q].todo \in Seq(Steps)
           /\ task'[q] # NoTask /\ task'[q].at = "joining" /\ task'[q].kind = "hedge"
           /\ task'[q].cust = task[q].cust /\ task'[q].todo = task[q].todo
           /\ \A l \in Legs : task'[l] # NoTask /\ task'[l].kind = l /\ task'[l].cust = task[q].cust
           /\ \A u \in Requests : u # q => task'[u] = task[u]
<1> DEFINE k == task[q]
           n == [k EXCEPT !.at = "joining"]
           L(l) == [at |-> "run", kind |-> l, cust |-> k.cust, sends |-> "body", todo |-> Program(l), ok |-> FALSE]
<1>1. k.at = "run" /\ k.todo # <<>> /\ Head(k.todo) = "legs"
  BY DEF SignLegs, At
<1>2. q \in Tasks /\ q \notin Legs /\ \A u \in Requests : u \in Tasks /\ u \notin Legs
  BY GatewayAssumption DEF Tasks
<1>3. k # NoTask /\ k \in TaskRecords /\ Fits(q, k)
  BY <1>1, <1>2, RunningTask DEF TasksFit
<1>4. k.kind = "hedge" /\ k.todo \in Seq(Steps)
  <2>1. k.todo \in Seq(StepsOf(k.kind)) /\ k.todo \in Seq(Steps)
    BY <1>3 DEF Fits, TaskRecords
  <2>2. Head(k.todo) \in StepsOf(k.kind)
    BY <1>1, <2>1, HeadTailProperties
  <2> QED
    BY <1>1, <2>1, <2>2 DEF StepsOf
<1>5. /\ n # NoTask /\ n \in TaskRecords /\ Fits(q, n)
      /\ n.at = "joining" /\ n.kind = k.kind /\ n.cust = k.cust /\ n.todo = k.todo
  BY <1>3, MovedFits
<1>6. ASSUME NEW l \in Legs
      PROVE  L(l) # NoTask /\ L(l) \in TaskRecords /\ Fits(l, L(l)) /\ L(l).kind = l /\ L(l).cust = k.cust
  <2>1. l \in LegKinds /\ l \notin Requests
    BY GatewayAssumption
  <2>2. Program(l) \in Seq(Steps)
    BY <2>1, ProgramSteps
  <2>3. k.cust \in Customers \cup {Nobody} /\ "body" \in Sends
    BY <1>3 DEF TaskRecords, Sends
  <2>4. L(l) \in TaskRecords /\ L(l).at = "run" /\ L(l).kind = l /\ L(l).cust = k.cust
    BY <2>1, <2>2, <2>3 DEF TaskRecords
  <2>5. L(l) # NoTask
    BY <2>4 DEF NoTask
  <2> HIDE DEF L
  <2> QED
    BY <2>1, <2>4, <2>5 DEF Fits
<1>7. task' = [u \in Tasks |-> IF u = q THEN n ELSE IF u \in Legs THEN L(u) ELSE task[u]]
  BY DEF SignLegs
<1> HIDE DEF n, L
<1>8. /\ task'[q] = n /\ \A l \in Legs : task'[l] = L(l)
      /\ \A u \in Requests : u # q => task'[u] = task[u]
  BY <1>2, <1>7 DEF Tasks
<1>9. task' \in [Tasks -> {NoTask} \cup TaskRecords]
  BY <1>5, <1>6, <1>7 DEF TasksFit
<1>10. \A u \in Tasks : Fits(u, task'[u])
  BY <1>5, <1>6, <1>8 DEF TasksFit, Tasks
<1>11. TasksFit'
  BY <1>9, <1>10 DEF TasksFit, Fits
<1> QED
  BY <1>1, <1>3, <1>4, <1>5, <1>6, <1>8, <1>11

\* What the enclave was sent, and the levels, are records of their kind.
LEMMA OthersStep ==
    ASSUME TasksFit, OthersFit, [Next]_vars
    PROVE  OthersFit'
<1> USE DEF OthersFit
<1>1. ASSUME conn' = conn, level' = level PROVE OthersFit'
  BY <1>1
<1>2. ASSUME NEW t \in Tasks, Connect(t) PROVE OthersFit'
  <2> DEFINE n == [at |-> "waiting", kind |-> task[t].kind, cust |-> task[t].cust]
  <2>1. task[t] \in TaskRecords
    BY <1>2, RunningTask DEF Connect, At
  <2>2. n \in ConnRecords
    BY <2>1 DEF ConnRecords, TaskRecords
  <2>3. conn' = [conn EXCEPT ![t] = n] /\ level' = level
    BY <1>2 DEF Connect
  <2> HIDE DEF n
  <2> QED
    BY <2>2, <2>3
<1>3. ASSUME NEW t \in Tasks, NEW to \in {CancelOnly, Halted}, PressStop(t, to) PROVE OthersFit'
  <2>1. conn' = conn /\ (level' = level \/ level' = [level EXCEPT ![task[t].cust] = to])
    BY <1>3 DEF PressStop
  <2>2. to \in TenantStates
    BY DEF TenantStates
  <2> QED
    BY <2>1, <2>2
<1>4. ASSUME NEW t \in Tasks, Accept(t) PROVE OthersFit'
  <2>1. conn' = [conn EXCEPT ![t] = [conn[t] EXCEPT !.at = "served"]] /\ level' = level
    BY <1>4 DEF Accept
  <2>2. conn[t] \in ConnRecords
    BY <1>4 DEF Accept, NoConn
  <2>3. [conn[t] EXCEPT !.at = "served"] \in ConnRecords
    BY <2>2 DEF ConnRecords
  <2> QED
    BY <2>1, <2>3
<1>5. ASSUME NEW t \in Tasks, NEW reply, EnclaveAnswers(t, reply) PROVE OthersFit'
  <2>1. conn' = [conn EXCEPT ![t] = NoConn] /\ level' = level
    BY <1>5 DEF EnclaveAnswers
  <2> QED
    BY <2>1
<1>6. ASSUME NEW t \in Tasks, NEW late, ConnectionBreaks(t, late) PROVE OthersFit'
  <2>1. conn' = [conn EXCEPT ![t] = NoConn] /\ level' = level
    BY <1>6 DEF ConnectionBreaks
  <2> QED
    BY <2>1
<1>7. ASSUME NEW c \in Customers, Release(c) PROVE OthersFit'
  <2>1. conn' = conn /\ level' = [level EXCEPT ![c] = Active] /\ Active \in TenantStates
    BY <1>7 DEF Release, TenantStates
  <2> QED
    BY <2>1
<1>8. ASSUME NEW q \in Requests, NEW kind, NEW token, NEW sends, Arrive(q, kind, token, sends)
      PROVE  OthersFit'
  BY <1>1, <1>8 DEF Arrive
<1>9. ASSUME NEW q \in Requests,
             Shed(q) \/ TakeSlot(q) \/ SignLegs(q) \/ JoinLegs(q) \/ TellHedge(q) \/ TimeOut(q)
      PROVE  OthersFit'
  BY <1>1, <1>9 DEF Shed, TakeSlot, SignLegs, JoinLegs, TellHedge, TimeOut
<1>10. ASSUME NEW t \in Tasks, TaskStep(t), ~Connect(t), \A to \in {CancelOnly, Halted} : ~PressStop(t, to)
       PROVE  OthersFit'
  BY <1>1, <1>10 DEF TaskStep, Authenticate, StateGate, BodyGate, Check, CheckFails, ReadBody, Count,
              CountDenies, AskBreaker, Succeed, Answer, Unreachable, Quiet
<1>11. ASSUME NEW t \in Tasks, TaskStep(t) PROVE OthersFit'
  BY <1>2, <1>3, <1>10, <1>11
<1>12. ASSUME NEW t \in Tasks, EnclaveStep(t) PROVE OthersFit'
  BY <1>4, <1>5, <1>6, <1>12 DEF EnclaveStep
<1>13. CASE UNCHANGED vars \/ Execution \/ \E s \in Scopes : TimePasses(s)
  BY <1>1, <1>13 DEF vars, ownVars, Execution, TimePasses
<1> QED
  BY <1>7, <1>8, <1>9, <1>11, <1>12, <1>13, NextSteps

\* A task that is not waiting to start advances.
LEMMA StepAdvances ==
    ASSUME TasksFit, NEW q \in Requests, NEW t \in Tasks,
           \/ Shed(q) \/ TakeSlot(q) \/ JoinLegs(q) \/ TellHedge(q) \/ TimeOut(q)
           \/ TaskStep(t) \/ EnclaveStep(t) \/ task' = task
    PROVE  TasksFit' /\ \A u \in Tasks : Advances(u)
  BY TaskStepAdvances, RequestStepAdvances, EnclaveStepAdvances, SameAdvances

\* Tiers of requests.
LEMMA TierOfRequest ==
    ASSUME NEW kind \in Kinds
    PROVE  Tier(kind) # "leg" /\ (Tier(kind) = "sign" => kind \in SignTier)
<1>1. kind \notin LegKinds
  BY DEF Kinds, SignTier, OperatorTier, PublicTier, SignKinds, RequestKinds, OrderRoutes, CancelRoutes,
         ReadRoutes, LegKinds
<1> QED
  BY <1>1 DEF Tier

\* As long as nobody lost sight of a request, its gate stays ahead of it until it
\* passes, and then it was seen.
LEMMA GatesHold ==
    ASSUME StopInv, TasksFit', \A u \in Tasks : Advances(u), saw \subseteq saw'
    PROVE  GateAhead' /\ LegsAreSeen'
<1>1. LegsAreSeen'
  BY DEF LegsAreSeen, StopInv, Advances, Tasks
<1>2. ASSUME NEW q \in Requests, task'[q] # NoTask, Tier(task'[q].kind) = "sign", q \notin saw'
      PROVE  Before(GateOf(task'[q].kind), Signing, task'[q].todo)
  <2> DEFINE k == task[q]
             g == GateOf(k.kind)
  <2>1. q \in Tasks /\ q \notin saw
    BY <1>2 DEF Tasks
  <2>2. /\ k # NoTask /\ task'[q].kind = k.kind /\ task'[q].cust = k.cust
        /\ \/ task'[q].todo = k.todo
           \/ task'[q].todo = <<>>
           \/ /\ k.todo # <<>> /\ task'[q].todo = Tail(k.todo)
              /\ Head(k.todo) = "state" => PathClass(k.kind) \in AllowedClasses(level[k.cust])
              /\ Head(k.todo) = "body" => BodyClass(k.kind) \in AllowedClasses(level[k.cust])
    BY <1>2, <2>1 DEF Advances
  <2>3. Before(g, Signing, k.todo)
    BY <1>2, <2>1, <2>2 DEF StopInv, GateAhead
  <2>4. k.kind \in Kinds /\ k.kind \in SignTier /\ k.todo \in Seq(Steps)
    <3>1. k.kind \in Kinds /\ k \in TaskRecords
      BY <2>1, <2>2 DEF StopInv, TasksFit, Fits
    <3> QED
      BY <1>2, <2>2, <3>1, TierOfRequest DEF TaskRecords
  <2>5. CASE task'[q].todo = k.todo
    BY <2>2, <2>3, <2>5
  <2>6. CASE task'[q].todo = <<>>
    <3>1. 1..Len(<<>>) = {}
      OBVIOUS
    <3> QED
      BY <2>6, <3>1 DEF Before
  <2>7. CASE k.todo # <<>> /\ task'[q].todo = Tail(k.todo) /\ Head(k.todo) # g
    BY <2>2, <2>3, <2>4, <2>7, GuardedTail
  <2>8. ASSUME Head(k.todo) = g, Head(k.todo) = "state" => PathClass(k.kind) \in AllowedClasses(level[k.cust]),
               Head(k.todo) = "body" => BodyClass(k.kind) \in AllowedClasses(level[k.cust])
        PROVE  FALSE
    <3>1. ASSUME LetsThrough(LevelOf(level, k.cust), k.kind) PROVE FALSE
      BY <2>1, <2>2, <3>1 DEF StopInv, SeenNow
    <3>2. CASE k.cust \notin Customers
      BY <3>1, <3>2, StopsOnlyTighten DEF LevelOf
    <3>3. CASE k.cust \in Customers
      <4>1. level[k.cust] \in TenantStates /\ LevelOf(level, k.cust) = level[k.cust]
        BY <3>3 DEF StopInv, OthersFit, LevelOf
      <4>2. LetsThrough(level[k.cust], k.kind)
        <5>1. CASE k.kind \in SignKinds \cup RequestKinds
          <6>1. BodyClass(k.kind) \in AllowedClasses(level[k.cust])
            BY <2>8, <5>1 DEF GateOf
          <6> QED
            BY <2>4, <4>1, <5>1, <6>1, GateIsRight
        <5>2. CASE k.kind \notin SignKinds \cup RequestKinds
          <6>1. PathClass(k.kind) \in AllowedClasses(level[k.cust])
            BY <2>8, <5>2 DEF GateOf
          <6> QED
            BY <2>4, <4>1, <5>2, <6>1, GateIsRight
        <5> QED
          BY <5>1, <5>2
      <4> QED
        BY <3>1, <4>1, <4>2
    <3> QED
      BY <3>2, <3>3
  <2> QED
    BY <2>2, <2>5, <2>6, <2>7, <2>8
<1> QED
  BY <1>1, <1>2 DEF GateAhead

\* What is sent to the enclave was seen.
LEMMA CallerWasSeen ==
    ASSUME StopInv, NEW t \in Tasks, Connect(t), Tier(task[t].kind) \in {"sign", "leg"}
    PROVE  t \in saw
<1>1. task[t].at = "run" /\ task[t].todo # <<>> /\ Head(task[t].todo) = "call"
  BY DEF Connect, At
<1>2. task[t] # NoTask /\ task[t] \in TaskRecords /\ Fits(t, task[t])
  BY <1>1, RunningTask DEF StopInv, TasksFit
<1>3. CASE t \in Legs
  BY <1>2, <1>3 DEF StopInv, LegsAreSeen
<1>4. CASE t \in Requests
  <2>1. Tier(task[t].kind) = "sign"
    BY <1>2, <1>4, TierOfRequest DEF Fits
  <2>2. task[t].todo \in Seq(Steps)
    BY <1>2 DEF TaskRecords
  <2>3. ASSUME t \notin saw PROVE FALSE
    <3>1. Before(GateOf(task[t].kind), Signing, task[t].todo)
      BY <1>2, <1>4, <2>1, <2>3 DEF StopInv, GateAhead
    <3>2. Head(task[t].todo) \notin Signing
      BY <1>1, <2>2, <3>1, GuardedTail
    <3> QED
      BY <1>1, <3>2 DEF Signing
  <2> QED
    BY <2>3
<1> QED
  BY <1>3, <1>4 DEF Tasks

LEMMA StopInit == Init => StopInv
<1> SUFFICES ASSUME Init PROVE StopInv
  OBVIOUS
<1>1. \A t \in Tasks : task[t] = NoTask /\ conn[t] = NoConn
  BY DEF Init
<1>2. \A q \in Requests : q \in Tasks
  BY DEF Tasks
<1>3. \A l \in Legs : l \in Tasks
  BY DEF Tasks
<1>4. TasksFit /\ OthersFit
  BY DEF Init, TasksFit, OthersFit, Fits, TenantStates
<1>5. SeenNow /\ GateAhead /\ LegsAreSeen /\ SentWasSeen
  BY <1>1, <1>2, <1>3 DEF SeenNow, GateAhead, LegsAreSeen, SentWasSeen
<1>6. StopIsFinal
  BY DEF Init, StopIsFinal
<1> QED
  BY <1>4, <1>5, <1>6 DEF StopInv

\* The step of a task whose tenant keeps its state.
LEMMA StopKept ==
    ASSUME StopInv, TasksFit', OthersFit', \A u \in Tasks : Advances(u), UNCHANGED <<level, saw>>,
           SentWasSeen', StopIsFinal'
    PROVE  StopInv'
<1>1. GateAhead' /\ LegsAreSeen'
  BY GatesHold
<1>2. SeenNow'
  BY DEF SeenNow, StopInv, Advances
<1> QED
  BY <1>1, <1>2 DEF StopInv

LEMMA StopNext == StopInv /\ [Next]_vars => StopInv'
<1> SUFFICES ASSUME StopInv, [Next]_vars PROVE StopInv'
  OBVIOUS
<1>1. TasksFit /\ OthersFit /\ OthersFit'
  BY OthersStep DEF StopInv
<1>2. ASSUME TasksFit', \A u \in Tasks : Advances(u), UNCHANGED <<level, conn, saw, signed>>
      PROVE  StopInv'
  <2>1. SentWasSeen' /\ StopIsFinal'
    BY <1>2 DEF StopInv, SentWasSeen, StopIsFinal
  <2> QED
    BY <1>1, <1>2, <2>1, StopKept
<1>3. ASSUME NEW q \in Requests, NEW kind \in KindsOf[q], NEW token, NEW sends \in Sends,
             Arrive(q, kind, token, sends)
      PROVE  StopInv'
  <2> DEFINE c == Resolved(kind, token)
  <2>1. /\ TasksFit' /\ kind \in Kinds
        /\ task'[q] # NoTask /\ task'[q].kind = kind
        /\ task'[q].cust = c /\ task'[q].todo = Program(kind)
        /\ \A u \in Tasks : u # q => task'[u] = task[u]
    BY <1>1, <1>3, ArriveFits
  <2>2. /\ saw' = (IF LetsThrough(LevelOf(level, c), kind) THEN saw \cup {q} ELSE saw \ {q})
        /\ signed' = signed \ {q} /\ conn' = conn /\ level' = level /\ conn[q] = NoConn
    BY <1>3 DEF Arrive
  <2>3. q \in Tasks /\ q \notin Legs /\ \A u \in Requests : u \in Tasks
    BY GatewayAssumption DEF Tasks
  <2>4. \A u \in Tasks : u # q => (u \in saw' <=> u \in saw)
    BY <2>2
  <2> HIDE DEF c
  <2>5. SeenNow'
    BY <2>1, <2>2, <2>4 DEF StopInv, SeenNow
  <2>6. GateAhead'
    <3>1. ASSUME Tier(kind) = "sign" PROVE Before(GateOf(kind), Signing, Program(kind))
      BY <2>1, <3>1, TierOfRequest, ProgramIsGated
    <3> QED
      BY <2>1, <2>3, <2>4, <3>1 DEF StopInv, GateAhead
  <2>7. LegsAreSeen'
    BY <2>1, <2>3, <2>4 DEF StopInv, LegsAreSeen, Tasks
  <2>8. SentWasSeen'
    BY <2>2, <2>4 DEF StopInv, SentWasSeen
  <2>9. StopIsFinal'
    BY <2>2 DEF StopInv, StopIsFinal
  <2> QED
    BY <1>1, <2>1, <2>5, <2>6, <2>7, <2>8, <2>9 DEF StopInv
<1>4. ASSUME NEW q \in Requests, SignLegs(q) PROVE StopInv'
  <2>1. /\ TasksFit'
        /\ task[q] # NoTask /\ task[q].kind = "hedge"
        /\ task[q].todo # <<>> /\ Head(task[q].todo) = "legs" /\ task[q].todo \in Seq(Steps)
        /\ task'[q] # NoTask /\ task'[q].kind = "hedge"
        /\ task'[q].cust = task[q].cust /\ task'[q].todo = task[q].todo
        /\ \A l \in Legs : task'[l] # NoTask /\ task'[l].kind = l /\ task'[l].cust = task[q].cust
        /\ \A u \in Requests : u # q => task'[u] = task[u]
    BY <1>1, <1>4, SignLegsFits
  <2>2. q \in saw
    <3>1. Tier("hedge") = "sign"
      BY DEF Tier, SignTier, OperatorTier, LegKinds
    <3>2. ASSUME q \notin saw PROVE FALSE
      <4>1. Before(GateOf(task[q].kind), Signing, task[q].todo)
        BY <2>1, <3>1, <3>2 DEF StopInv, GateAhead
      <4> QED
        BY <2>1, <4>1, GuardedTail DEF Signing
    <3> QED
      BY <3>2
  <2>3. saw' = saw \cup Legs /\ UNCHANGED <<level, conn, signed>>
    BY <1>4, <2>2 DEF SignLegs
  <2>4. SeenNow' /\ LegsAreSeen'
    <3>1. ASSUME NEW u \in Requests, task'[u] # NoTask, LetsThrough(LevelOf(level', task'[u].cust), task'[u].kind)
          PROVE  u \in saw'
      BY <2>1, <2>2, <2>3, <3>1 DEF StopInv, SeenNow, Tasks
    <3> QED
      BY <2>3, <3>1 DEF SeenNow, LegsAreSeen, Tasks
  <2>5. GateAhead'
    BY <2>1, <2>2, <2>3 DEF StopInv, GateAhead
  <2>6. SentWasSeen' /\ StopIsFinal'
    BY <2>3 DEF StopInv, SentWasSeen, StopIsFinal
  <2> QED
    BY <1>1, <2>1, <2>4, <2>5, <2>6 DEF StopInv
<1>5. ASSUME NEW q \in Requests, Shed(q) \/ TakeSlot(q) \/ JoinLegs(q) \/ TellHedge(q) \/ TimeOut(q)
      PROVE  StopInv'
  <2>1. UNCHANGED <<level, conn, saw, signed>>
    BY <1>5 DEF Shed, TakeSlot, JoinLegs, TellHedge, TimeOut
  <2> QED
    BY <1>1, <1>2, <1>5, <2>1, RequestStepAdvances
<1>6. ASSUME NEW t \in Tasks, TaskStep(t) PROVE StopInv'
  <2>1. TasksFit' /\ \A u \in Tasks : Advances(u)
    BY <1>1, <1>6, TaskStepAdvances
  <2>2. CASE Connect(t)
    <3>1. /\ conn' = [conn EXCEPT ![t] = [at |-> "waiting", kind |-> task[t].kind, cust |-> task[t].cust]]
          /\ UNCHANGED <<level, saw, signed>>
      BY <2>2 DEF Connect
    <3>2. conn'[t].kind = task[t].kind /\ \A u \in Tasks : u # t => conn'[u] = conn[u]
      BY <1>1, <3>1 DEF OthersFit
    <3>3. SentWasSeen'
      BY <2>2, <3>1, <3>2, CallerWasSeen DEF StopInv, SentWasSeen
    <3>4. StopIsFinal'
      BY <3>1 DEF StopInv, StopIsFinal
    <3> QED
      BY <1>1, <2>1, <3>1, <3>3, <3>4, StopKept
  <2>3. ASSUME NEW to \in {CancelOnly, Halted}, PressStop(t, to) PROVE StopInv'
    <3>1. UNCHANGED <<conn, saw, signed>>
      BY <2>3 DEF PressStop
    <3>2. GateAhead' /\ LegsAreSeen'
      BY <2>1, <3>1, GatesHold
    <3>3. SentWasSeen' /\ StopIsFinal'
      BY <3>1 DEF StopInv, SentWasSeen, StopIsFinal
    <3>4. ASSUME NEW c, NEW kind, LetsThrough(LevelOf(level', c), kind)
          PROVE  LetsThrough(LevelOf(level, c), kind)
      <4>1. CASE c \notin Customers \/ level' = level
        BY <3>4, <4>1 DEF LevelOf
      <4>2. CASE c \in Customers /\ level' # level
        <5>1. Changes(level[task[t].cust], to, "Client", TRUE) /\ level' = [level EXCEPT ![task[t].cust] = to]
          BY <2>3, <4>2 DEF PressStop
        <5>2. CASE c # task[t].cust
          BY <1>1, <3>4, <5>1, <5>2 DEF LevelOf, OthersFit
        <5>3. CASE c = task[t].cust
          <6>1. level[c] \in TenantStates /\ level'[c] = to
            BY <1>1, <4>2, <5>1, <5>3 DEF OthersFit
          <6>2. LetsThrough(to, kind)
            BY <3>4, <4>2, <6>1 DEF LevelOf
          <6>3. LetsThrough(level[c], kind)
            BY <5>1, <5>3, <6>1, <6>2, StopsOnlyTighten
          <6> QED
            BY <4>2, <6>3 DEF LevelOf
        <5> QED
          BY <5>2, <5>3
      <4> QED
        BY <4>1, <4>2
    <3>5. SeenNow'
      BY <2>1, <3>1, <3>4 DEF StopInv, SeenNow, Advances
    <3> QED
      BY <1>1, <2>1, <3>2, <3>3, <3>5 DEF StopInv
  <2>4. CASE ~Connect(t) /\ \A to \in {CancelOnly, Halted} : ~PressStop(t, to)
    <3>1. UNCHANGED <<level, conn, saw, signed>>
      BY <1>6, <2>4 DEF TaskStep, Authenticate, StateGate, BodyGate, Check, CheckFails, ReadBody, Count,
              CountDenies, AskBreaker, Succeed, Answer, Unreachable, Quiet
    <3> QED
      BY <1>2, <2>1, <3>1
  <2> QED
    BY <2>2, <2>3, <2>4
<1>7. ASSUME NEW t \in Tasks, EnclaveStep(t) PROVE StopInv'
  <2>1. TasksFit' /\ \A u \in Tasks : Advances(u)
    BY <1>1, <1>7, EnclaveStepAdvances
  <2>2. CASE Accept(t)
    <3>1. conn' = [conn EXCEPT ![t] = [conn[t] EXCEPT !.at = "served"]] /\ UNCHANGED <<level, saw, signed>>
      BY <2>2 DEF Accept
    <3>2. conn[t] # NoConn /\ conn[t] \in ConnRecords
      BY <1>1, <2>2 DEF Accept, NoConn, OthersFit
    <3>3. conn'[t].kind = conn[t].kind /\ \A u \in Tasks : u # t => conn'[u] = conn[u]
      BY <1>1, <3>1, <3>2 DEF OthersFit, ConnRecords
    <3>4. SentWasSeen' /\ StopIsFinal'
      BY <3>1, <3>2, <3>3 DEF StopInv, SentWasSeen, StopIsFinal
    <3> QED
      BY <1>1, <2>1, <3>1, <3>4, StopKept
  <2>3. ASSUME conn[t] # NoConn, conn' = [conn EXCEPT ![t] = NoConn], UNCHANGED <<level, saw>>,
               signed' = signed \/ (signed' = signed \cup {t} /\ Tier(conn[t].kind) \in {"sign", "leg"})
        PROVE  StopInv'
    <3>1. SentWasSeen'
      BY <1>1, <2>3 DEF StopInv, SentWasSeen, OthersFit
    <3>2. StopIsFinal'
      BY <2>3 DEF StopInv, SentWasSeen, StopIsFinal
    <3> QED
      BY <1>1, <2>1, <2>3, <3>1, <3>2, StopKept
  <2>4. ASSUME NEW reply, EnclaveAnswers(t, reply) PROVE StopInv'
    <3>1. conn[t] # NoConn
      BY <2>4 DEF EnclaveAnswers, NoConn
    <3> QED
      BY <2>3, <2>4, <3>1 DEF EnclaveAnswers, Signs
  <2>5. ASSUME NEW late, ConnectionBreaks(t, late) PROVE StopInv'
    BY <2>3, <2>5 DEF ConnectionBreaks, Signs
  <2> QED
    BY <1>7, <2>2, <2>4, <2>5 DEF EnclaveStep
<1>8. ASSUME NEW c \in Customers, Release(c) PROVE StopInv'
  <2>1. /\ task' = task /\ conn' = conn /\ signed' = signed /\ saw \subseteq saw'
        /\ level' = [level EXCEPT ![c] = Active]
        /\ \A t \in Tasks : task[t] # NoTask /\ task[t].cust = c => t \in saw'
    BY <1>8 DEF Release
  <2>2. TasksFit' /\ \A u \in Tasks : Advances(u)
    BY <1>1, <2>1, SameAdvances
  <2>3. GateAhead' /\ LegsAreSeen'
    BY <2>1, <2>2, GatesHold
  <2>4. \A d : d # c => LevelOf(level', d) = LevelOf(level, d)
    BY <1>1, <2>1 DEF LevelOf, OthersFit
  <2>5. SeenNow'
    BY <2>1, <2>4 DEF StopInv, SeenNow
  <2>6. SentWasSeen' /\ StopIsFinal'
    BY <2>1 DEF StopInv, SentWasSeen, StopIsFinal
  <2> QED
    BY <1>1, <2>2, <2>3, <2>5, <2>6 DEF StopInv
<1>9. CASE UNCHANGED vars \/ Execution \/ \E s \in Scopes : TimePasses(s)
  <2>1. UNCHANGED <<task, level, conn, saw, signed>>
    BY <1>9 DEF vars, ownVars, Execution, TimePasses
  <2> QED
    BY <1>1, <1>2, <2>1, SameAdvances
<1> QED
  BY <1>3, <1>4, <1>5, <1>6, <1>7, <1>8, <1>9, NextSteps

\* A stop is final, for any requests, routes, tenants, tokens and presses: whatever
\* obtains a signature was, at some moment since it arrived, asked of a tenant whose
\* state lets it through, whatever the slow bodies, timeouts, lost answers and
\* connections that outlive their request (tenant_state_mw, body_route_gate).
THEOREM StopTheorem == Spec => []StopIsFinal
<1>1. StopInv => StopIsFinal
  BY DEF StopInv
<1> QED
  BY <1>1, StopInit, StopNext, PTL DEF Spec

-----------------------------------------------------------------------------
(* The daily counter: what it says covers the orders that were signed and   *)
(* those that still may be, whoever waits for them.                         *)

\* The numbers in the account of a tenant.
LEMMA Account ==
    ASSUME CountInv, NEW c \in Customers
    PROVE  /\ IsFiniteSet(Credit(c)) /\ Cardinality(Credit(c)) \in Nat
           /\ LegCredit(c) \in {0, 1} /\ ordered[c] \in Nat /\ counted[c] \in Nat
           /\ ordered[c] + Cardinality(Credit(c)) + LegCredit(c) <= counted[c]
<1>1. Credit(c) \subseteq Requests
  BY DEF Credit
<1>2. IsFiniteSet(Credit(c)) /\ Cardinality(Credit(c)) \in Nat
  BY <1>1, FS_Subset, FS_CardinalityType, GatewayAssumption
<1> QED
  BY <1>2 DEF CountInv, ChargesCover, LegCredit

\* Whoever is on the way to an order now was so before, or is just charged for it.
LEMMA ArmedBefore ==
    ASSUME TasksFit, NEW q \in Requests, Advances(q), NEW c, Armed(q, c)'
    PROVE  \/ Armed(q, c)
           \/ task[q].cust = c /\ task[q].todo # <<>> /\ Head(task[q].todo) = "count"
              /\ counted' = [counted EXCEPT ![c] = @ + 1]
<1> DEFINE k == task[q]
<1>1. /\ task'[q] # NoTask /\ task'[q].at \in Live /\ task'[q].cust = c
      /\ Effect(task'[q].kind) = "Order" /\ ~Before("count", Signing, task'[q].todo)
  BY DEF Armed
<1>2. k # NoTask /\ k.kind = task'[q].kind /\ k.cust = c /\ k.at \in Live
  BY <1>1 DEF Advances
<1>3. k.todo \in Seq(Steps)
  BY <1>2 DEF TasksFit, TaskRecords, Tasks
<1>4. CASE task'[q].todo = k.todo
  BY <1>1, <1>2, <1>4 DEF Armed
<1>5. CASE task'[q].todo = <<>>
  <2>1. 1..Len(<<>>) = {}
    OBVIOUS
  <2> QED
    BY <1>1, <1>5, <2>1 DEF Before
<1>6. CASE /\ k.todo # <<>> /\ task'[q].todo = Tail(k.todo)
           /\ Head(k.todo) = "count" => counted' = [counted EXCEPT ![k.cust] = @ + 1]
  <2>1. CASE Head(k.todo) = "count"
    BY <1>2, <1>6, <2>1
  <2>2. CASE Head(k.todo) # "count"
    <3>1. ~Before("count", Signing, k.todo)
      BY <1>1, <1>3, <1>6, <2>2, GuardedTail
    <3> QED
      BY <1>1, <1>2, <3>1 DEF Armed
  <2> QED
    BY <2>1, <2>2
<1> QED
  BY <1>1, <1>2, <1>4, <1>5, <1>6 DEF Advances

\* A step that charges nobody and sends nothing new leaves no more to be paid for.
LEMMA CreditShrinks ==
    ASSUME TasksFit, \A u \in Tasks : Advances(u), NEW c \in Customers, signed \subseteq signed',
           counted \in [Customers -> Nat], counted' = counted,
           \A u \in Tasks : Sent(u, c)' =>
               Sent(u, c) \/ (u \in Requests /\ Armed(u, c)) \/ (task[u] # NoTask /\ task[u].cust = c /\ u \in Legs)
    PROVE  Credit(c)' \subseteq Credit(c) /\ LegCredit(c)' <= LegCredit(c)
<1>1. Legs \subseteq Tasks /\ Requests \subseteq Tasks /\ Requests \cap Legs = {}
  BY GatewayAssumption DEF Tasks
<1>2. ASSUME NEW q \in Requests, Armed(q, c)' PROVE Armed(q, c)
  <2>1. counted' # [counted EXCEPT ![c] = @ + 1]
    <3>1. counted[c] \in Nat /\ [counted EXCEPT ![c] = @ + 1][c] = counted[c] + 1
      OBVIOUS
    <3> QED
      BY <3>1
  <2> QED
    BY <1>1, <1>2, <2>1, ArmedBefore
<1>3. Credit(c)' \subseteq Credit(c)
  BY <1>1, <1>2 DEF Credit
<1>4. ASSUME NEW l \in Legs, task'[l] # NoTask /\ task'[l].cust = c
      PROVE  task[l] # NoTask /\ task[l].cust = c
  BY <1>1, <1>4 DEF Advances
<1>5. LegCredit(c)' <= LegCredit(c)
  <2>1. CASE LegCredit(c)' = 1
    <3>1. signed' \cap Legs = {} /\ \E l \in Legs : (task'[l] # NoTask /\ task'[l].cust = c) \/ Sent(l, c)'
      BY <2>1 DEF LegCredit
    <3>2. signed \cap Legs = {} /\ \E l \in Legs : (task[l] # NoTask /\ task[l].cust = c) \/ Sent(l, c)
      BY <1>1, <1>4, <3>1
    <3> QED
      BY <2>1, <3>2 DEF LegCredit
  <2>2. CASE LegCredit(c)' # 1
    <3>1. LegCredit(c)' = 0 /\ LegCredit(c) \in {0, 1}
      BY <2>2 DEF LegCredit
    <3> QED
      BY <3>1
  <2> QED
    BY <2>1, <2>2
<1> QED
  BY <1>3, <1>5

\* The account after such a step.
LEMMA StillCovered ==
    ASSUME CountInv, NEW c \in Customers, Credit(c)' \subseteq Credit(c), LegCredit(c)' <= LegCredit(c),
           ordered'[c] = ordered[c], counted'[c] \in Nat, counted'[c] >= counted[c]
    PROVE  ordered'[c] + Cardinality(Credit(c)') + LegCredit(c)' <= counted'[c]
<1> DEFINE m == Cardinality(Credit(c))
           n == Cardinality(Credit(c)')
           x == LegCredit(c)
           y == LegCredit(c)'
<1>1. IsFiniteSet(Credit(c)) /\ m \in Nat /\ x \in {0, 1} /\ ordered[c] \in Nat /\ counted[c] \in Nat
      /\ ordered[c] + m + x <= counted[c]
  BY Account
<1>2. n \in Nat /\ n <= m
  BY <1>1, FS_Subset, FS_CardinalityType
<1>3. y \in {0, 1} /\ y <= x
  BY DEF LegCredit
<1> HIDE DEF m, n, x, y
<1>4. ordered[c] + n + y <= counted'[c]
  BY <1>1, <1>2, <1>3
<1> QED
  BY <1>4 DEF n, y

\* A task at a step that lets the enclave sign is not waiting for its charge.
LEMMA AtSigning ==
    ASSUME TasksFit, NEW q \in Tasks, task[q].at = "run", task[q].todo # <<>>,
           Head(task[q].todo) \in Signing
    PROVE  task[q] # NoTask /\ task[q].at \in Live /\ ~Before("count", Signing, task[q].todo)
<1>1. task[q] # NoTask /\ task[q] \in TaskRecords
  BY RunningTask
<1>2. task[q].todo \in Seq(Steps)
  BY <1>1 DEF TaskRecords
<1> QED
  BY <1>1, <1>2, GuardedTail DEF Live

LEMMA CountInit == Init => CountInv
<1> SUFFICES ASSUME Init PROVE CountInv
  OBVIOUS
<1>1. TasksFit /\ OthersFit
  BY StopInit DEF StopInv
<1>2. \A t \in Tasks : task[t] = NoTask /\ conn[t] = NoConn
  BY DEF Init
<1>3. Requests \subseteq Tasks /\ Legs \subseteq Tasks
  BY DEF Tasks
<1>4. HedgeHasLegsOnly
  BY <1>2, <1>3 DEF HedgeHasLegsOnly
<1>5. counted \in [Customers -> Nat] /\ ordered \in [Customers -> Nat]
  BY DEF Init
<1>6. ASSUME NEW c \in Customers PROVE ordered[c] + Cardinality(Credit(c)) + LegCredit(c) <= counted[c]
  <2>1. Credit(c) = {}
    BY <1>2, <1>3 DEF Credit, Armed, Sent
  <2>2. LegCredit(c) = 0
    BY <1>2, <1>3 DEF LegCredit, Sent
  <2>3. Cardinality(Credit(c)) = 0
    BY <2>1, FS_EmptySet
  <2>4. ordered[c] = 0 /\ counted[c] = 0
    BY DEF Init
  <2> QED
    BY <2>2, <2>3, <2>4
<1> QED
  BY <1>1, <1>4, <1>5, <1>6 DEF CountInv, ChargesCover

\* A request arrives: the charge is still ahead of it.
LEMMA CountArrive ==
    ASSUME CountInv, OthersFit', NEW q \in Requests, NEW kind \in KindsOf[q], NEW token,
           NEW sends \in Sends, Arrive(q, kind, token, sends)
    PROVE  CountInv'
<1>1. /\ TasksFit' /\ kind \in Kinds
      /\ task'[q] # NoTask /\ task'[q].kind = kind /\ task'[q].todo = Program(kind)
      /\ \A u \in Tasks : u # q => task'[u] = task[u]
  BY ArriveFits DEF CountInv
<1>2. signed' = signed \ {q} /\ conn' = conn /\ counted' = counted /\ ordered' = ordered /\ conn[q] = NoConn
  BY DEF Arrive
<1>3. q \in Tasks /\ q \notin Legs /\ Requests \subseteq Tasks /\ Legs \subseteq Tasks
  BY GatewayAssumption DEF Tasks
<1>4. HedgeHasLegsOnly'
  BY <1>1, <1>2, <1>3 DEF CountInv, HedgeHasLegsOnly
<1>5. ASSUME Effect(kind) = "Order" PROVE Before("count", Signing, Program(kind))
  <2>1. kind \in OrderKinds
    <3>1. kind \notin LegKinds
      BY <1>1 DEF Kinds, SignTier, OperatorTier, PublicTier, SignKinds, RequestKinds, OrderRoutes,
                  CancelRoutes, ReadRoutes, LegKinds
    <3> QED
      BY <1>5, <3>1 DEF Effect, OrderKinds
  <2> QED
    BY <2>1, ProgramIsCharged
<1>6. ASSUME NEW c \in Customers
      PROVE  ordered'[c] + Cardinality(Credit(c)') + LegCredit(c)' <= counted'[c]
  <2>1. ~Armed(q, c)' /\ ~Sent(q, c)'
    BY <1>1, <1>2, <1>5 DEF Armed, Sent
  <2>2. \A u \in Requests : u # q => (Armed(u, c)' <=> Armed(u, c)) /\ (Sent(u, c)' <=> Sent(u, c))
    BY <1>1, <1>2, <1>3 DEF Armed, Sent
  <2>3. Credit(c)' \subseteq Credit(c)
    BY <1>2, <2>1, <2>2 DEF Credit
  <2>4. LegCredit(c)' = LegCredit(c) /\ LegCredit(c) \in {0, 1}
    <3>1. signed' \cap Legs = signed \cap Legs /\ \A l \in Legs : task'[l] = task[l] /\ (Sent(l, c)' <=> Sent(l, c))
      BY <1>1, <1>2, <1>3 DEF Sent
    <3> QED
      BY <3>1 DEF LegCredit
  <2>5. LegCredit(c)' <= LegCredit(c)
    BY <2>4
  <2>6. counted'[c] \in Nat /\ counted'[c] >= counted[c] /\ ordered'[c] = ordered[c]
    BY <1>2, Account
  <2> QED
    BY <2>3, <2>5, <2>6, StillCovered
<1> QED
  BY <1>1, <1>2, <1>4, <1>6 DEF CountInv, ChargesCover

\* The charge of a hedge passes to its legs.
LEMMA CountSignLegs ==
    ASSUME CountInv, OthersFit', NEW q \in Requests, SignLegs(q)
    PROVE  CountInv'
<1>1. /\ TasksFit'
      /\ task[q] # NoTask /\ task[q].at = "run" /\ task[q].kind = "hedge"
      /\ task[q].todo # <<>> /\ Head(task[q].todo) = "legs"
      /\ task'[q] # NoTask /\ task'[q].at = "joining" /\ task'[q].kind = "hedge"
      /\ \A l \in Legs : task'[l] # NoTask /\ task'[l].cust = task[q].cust
      /\ \A u \in Requests : u # q => task'[u] = task[u]
  BY SignLegsFits DEF CountInv
<1>2. UNCHANGED <<conn, counted, signed, ordered>>
  BY DEF SignLegs
<1>3. q \in Tasks /\ q \notin Legs
  BY GatewayAssumption DEF Tasks
<1>4. HedgeHasLegsOnly' /\ q \notin signed /\ conn[q] = NoConn
  BY <1>1, <1>2 DEF CountInv, HedgeHasLegsOnly
<1>5. ASSUME NEW c \in Customers
      PROVE  ordered'[c] + Cardinality(Credit(c)') + LegCredit(c)' <= counted'[c]
  <2>1. \A u \in Requests : u # q => (Armed(u, c)' <=> Armed(u, c)) /\ (Sent(u, c)' <=> Sent(u, c))
    BY <1>1, <1>2 DEF Armed, Sent
  <2>2. ~Armed(q, c)' /\ ~Sent(q, c)'
    BY <1>1, <1>2, <1>4 DEF Armed, Sent, Live
  <2>3. Credit(c)' \subseteq Credit(c) \ {q}
    BY <1>2, <2>1, <2>2 DEF Credit
  <2>4. /\ IsFiniteSet(Credit(c)) /\ Cardinality(Credit(c)) \in Nat
        /\ LegCredit(c) \in {0, 1} /\ ordered[c] \in Nat /\ counted[c] \in Nat
        /\ ordered[c] + Cardinality(Credit(c)) + LegCredit(c) <= counted[c]
    BY Account
  <2>5. CASE c = task[q].cust
    <3>1. Armed(q, c)
      <4>1. Head(task[q].todo) \in Signing /\ Effect("hedge") = "Order"
        BY <1>1 DEF Signing, Effect, CancelRoutes, ReadRoutes
      <4> QED
        BY <1>1, <1>3, <2>5, <4>1, AtSigning DEF CountInv, Armed
    <3>2. q \in Credit(c)
      BY <1>4, <3>1 DEF Credit
    <3>3. /\ IsFiniteSet(Credit(c) \ {q}) /\ Cardinality(Credit(c) \ {q}) = Cardinality(Credit(c)) - 1
      BY <2>4, <3>2, FS_RemoveElement
    <3>4. Cardinality(Credit(c)') \in Nat /\ Cardinality(Credit(c)') <= Cardinality(Credit(c)) - 1
      BY <2>3, <3>3, FS_Subset, FS_CardinalityType
    <3>5. LegCredit(c)' \in {0, 1} /\ ordered'[c] = ordered[c] /\ counted'[c] = counted[c]
      BY <1>2 DEF LegCredit
    <3> QED
      BY <2>4, <3>4, <3>5
  <2>6. CASE c # task[q].cust
    <3>1. \A l \in Legs : (task'[l].cust # c) /\ (Sent(l, c)' <=> Sent(l, c))
      BY <1>1, <1>2, <2>6 DEF Sent
    <3>2. LegCredit(c)' <= LegCredit(c)
      <4>1. LegCredit(c)' = 1 => LegCredit(c) = 1
        BY <1>2, <3>1 DEF LegCredit
      <4>2. LegCredit(c)' \in {0, 1}
        BY DEF LegCredit
      <4> QED
        BY <2>4, <4>1, <4>2
    <3>3. counted'[c] \in Nat /\ counted'[c] >= counted[c] /\ ordered'[c] = ordered[c]
      BY <1>2, <2>4
    <3> QED
      BY <2>3, <3>2, <3>3, StillCovered
  <2> QED
    BY <2>5, <2>6
<1> QED
  BY <1>1, <1>2, <1>4, <1>5 DEF CountInv, ChargesCover

\* The enclave signs, or not, and the connection is gone.
LEMMA CountSigned ==
    ASSUME CountInv, TasksFit', OthersFit', \A u \in Tasks : Advances(u), NEW t \in Tasks,
           conn[t] # NoConn, conn' = [conn EXCEPT ![t] = NoConn], counted' = counted,
           NEW yes, Signs(t, yes)
    PROVE  CountInv'
<1>1. /\ conn'[t] = NoConn /\ \A u \in Tasks : u # t => conn'[u] = conn[u]
      /\ counted \in [Customers -> Nat] /\ ordered \in [Customers -> Nat]
      /\ Requests \subseteq Tasks /\ Legs \subseteq Tasks /\ Requests \cap Legs = {}
  BY GatewayAssumption DEF CountInv, OthersFit, ChargesCover, Tasks
<1>2. signed' \in {signed, signed \cup {t}}
  BY DEF Signs
<1>3. HedgeHasLegsOnly'
  BY <1>1, <1>2 DEF CountInv, HedgeHasLegsOnly, Advances
<1>4. \A c : \A u \in Tasks : Sent(u, c)' => Sent(u, c) /\ u # t
  BY <1>1 DEF Sent
<1>5. ASSUME NEW c \in Customers PROVE Credit(c)' \subseteq Credit(c) /\ LegCredit(c)' <= LegCredit(c)
  BY <1>1, <1>2, <1>4, CreditShrinks DEF CountInv
<1>6. CASE ordered' = ordered
  <2>1. ASSUME NEW c \in Customers
        PROVE  ordered'[c] + Cardinality(Credit(c)') + LegCredit(c)' <= counted'[c]
    <3>1. counted'[c] \in Nat /\ counted'[c] >= counted[c] /\ ordered'[c] = ordered[c]
      BY <1>6, Account
    <3> QED
      BY <1>5, <3>1, StillCovered
  <2> QED
    BY <1>1, <1>3, <1>6, <2>1 DEF CountInv, ChargesCover
<1>7. CASE ordered' # ordered
  <2>1. FirstOrder(t) /\ signed' = signed \cup {t} /\ ordered' = [ordered EXCEPT ![conn[t].cust] = @ + 1]
    BY <1>7 DEF Signs
  <2>2. ASSUME NEW c \in Customers
        PROVE  ordered'[c] + Cardinality(Credit(c)') + LegCredit(c)' <= counted'[c]
    <3>0. /\ IsFiniteSet(Credit(c)) /\ Cardinality(Credit(c)) \in Nat
          /\ LegCredit(c) \in {0, 1} /\ ordered[c] \in Nat /\ counted[c] \in Nat
          /\ ordered[c] + Cardinality(Credit(c)) + LegCredit(c) <= counted[c]
      BY Account
    <3>1. CASE c # conn[t].cust
      <4>1. counted'[c] \in Nat /\ counted'[c] >= counted[c] /\ ordered'[c] = ordered[c]
        BY <1>1, <2>1, <3>0, <3>1
      <4> QED
        BY <1>5, <4>1, StillCovered
    <3>2. CASE c = conn[t].cust
      <4>1. ordered'[c] = ordered[c] + 1 /\ counted'[c] = counted[c]
        BY <1>1, <2>1, <3>2
      <4>2. Sent(t, c) /\ t \notin signed
        BY <2>1, <3>2 DEF FirstOrder, Sent
      <4>3. CASE t \in Requests
        <5>1. t \in Credit(c) /\ t \notin Credit(c)'
          BY <2>1, <4>2, <4>3 DEF Credit
        <5>2. Credit(c)' \subseteq Credit(c) \ {t}
          BY <1>5, <5>1
        <5>3. IsFiniteSet(Credit(c) \ {t}) /\ Cardinality(Credit(c) \ {t}) = Cardinality(Credit(c)) - 1
          BY <3>0, <5>1, FS_RemoveElement
        <5>4. Cardinality(Credit(c)') \in Nat /\ Cardinality(Credit(c)') <= Cardinality(Credit(c)) - 1
          BY <5>2, <5>3, FS_Subset, FS_CardinalityType
        <5>5. LegCredit(c)' <= LegCredit(c) /\ LegCredit(c)' \in {0, 1}
          BY <1>5 DEF LegCredit
        <5> QED
          BY <3>0, <4>1, <5>4, <5>5
      <4>4. CASE t \in Legs
        <5>1. signed \cap Legs = {}
          BY <2>1, <4>4 DEF FirstOrder
        <5>2. LegCredit(c) = 1
          BY <4>2, <4>4, <5>1 DEF LegCredit
        <5>3. LegCredit(c)' = 0
          BY <2>1, <4>4 DEF LegCredit
        <5>4. Cardinality(Credit(c)') \in Nat /\ Cardinality(Credit(c)') <= Cardinality(Credit(c))
          BY <1>5, <3>0, FS_Subset, FS_CardinalityType
        <5> QED
          BY <3>0, <4>1, <5>2, <5>3, <5>4
      <4> QED
        BY <4>3, <4>4 DEF Tasks
    <3> QED
      BY <3>1, <3>2
  <2>3. ordered' \in [Customers -> Nat]
    <3>1. ordered' = [c \in Customers |-> IF c = conn[t].cust THEN ordered[c] + 1 ELSE ordered[c]]
      BY <1>1, <2>1
    <3> QED
      BY <1>1, <3>1
  <2> QED
    BY <1>1, <1>3, <2>2, <2>3 DEF CountInv, ChargesCover
<1> QED
  BY <1>6, <1>7

\* A charge lands: at most the one who is charged has more to come.
LEMMA CountCharge ==
    ASSUME CountInv, TasksFit', OthersFit', NEW t \in Tasks, NEW a,
           a = task[t].cust, counted' = [counted EXCEPT ![a] = @ + 1],
           \A u \in Tasks : Advances(u), \A u \in Tasks : u # t => task'[u] \in {task[u], NoTask},
           UNCHANGED <<conn, signed, ordered>>
    PROVE  CountInv'
<1>1. /\ counted \in [Customers -> Nat] /\ ordered \in [Customers -> Nat]
      /\ Requests \subseteq Tasks /\ Legs \subseteq Tasks /\ Requests \cap Legs = {}
  BY GatewayAssumption DEF CountInv, ChargesCover, Tasks
<1>2. HedgeHasLegsOnly'
  BY <1>1 DEF CountInv, HedgeHasLegsOnly, Advances
<1>3. counted' \in [Customers -> Nat] /\ \A c \in Customers :
          counted'[c] = IF c = a THEN counted[c] + 1 ELSE counted[c]
  <2> DEFINE plus(c) == IF c = a THEN counted[c] + 1 ELSE counted[c]
  <2>1. counted' = [c \in Customers |-> plus(c)]
    BY <1>1
  <2>2. \A c \in Customers : plus(c) \in Nat
    BY <1>1
  <2>3. counted' \in [Customers -> Nat]
    <3> HIDE DEF plus
    <3> QED
      BY <2>1, <2>2
  <2>4. \A c \in Customers : counted'[c] = plus(c)
    <3> HIDE DEF plus
    <3> QED
      BY <2>1
  <2> QED
    BY <2>3, <2>4
<1>4. ASSUME NEW c \in Customers
      PROVE  ordered'[c] + Cardinality(Credit(c)') + LegCredit(c)' <= counted'[c]
  <2>0. /\ IsFiniteSet(Credit(c)) /\ Cardinality(Credit(c)) \in Nat
        /\ LegCredit(c) \in {0, 1} /\ ordered[c] \in Nat /\ counted[c] \in Nat
        /\ ordered[c] + Cardinality(Credit(c)) + LegCredit(c) <= counted[c]
    BY Account
  <2>1. \A u \in Tasks : Sent(u, c)' <=> Sent(u, c)
    BY DEF Sent
  <2>2. \A u \in Requests : u # t => (Armed(u, c)' => Armed(u, c))
    BY <1>1 DEF Armed
  <2>3. LegCredit(c)' <= LegCredit(c) /\ LegCredit(c)' \in {0, 1}
    <3>1. LegCredit(c)' \in {0, 1}
      BY DEF LegCredit
    <3>2. \A l \in Legs : task'[l] # NoTask /\ task'[l].cust = c => task[l] # NoTask /\ task[l].cust = c
      BY <1>1 DEF Advances
    <3>3. LegCredit(c)' = 1 => LegCredit(c) = 1
      BY <1>1, <2>1, <3>2 DEF LegCredit
    <3> QED
      BY <2>0, <3>1, <3>3
  <2>4. CASE c # a
    <3>1. ASSUME t \in Requests PROVE ~Armed(t, c)'
      BY <2>4 DEF Armed, Advances
    <3>2. Credit(c)' \subseteq Credit(c)
      BY <1>1, <2>1, <2>2, <3>1 DEF Credit
    <3>3. counted'[c] \in Nat /\ counted'[c] >= counted[c] /\ ordered'[c] = ordered[c]
      BY <1>3, <2>0, <2>4
    <3> QED
      BY <2>3, <3>2, <3>3, StillCovered
  <2>5. CASE c = a
    <3>1. Credit(c)' \subseteq Credit(c) \cup {t}
      BY <1>1, <2>1, <2>2 DEF Credit
    <3>2. IsFiniteSet(Credit(c) \cup {t}) /\ Cardinality(Credit(c) \cup {t}) \in Nat
          /\ Cardinality(Credit(c) \cup {t}) <= Cardinality(Credit(c)) + 1
      <4>1. IsFiniteSet(Credit(c) \cup {t})
        BY <2>0, FS_AddElement
      <4>2. CASE t \in Credit(c)
        <5>1. Cardinality(Credit(c) \cup {t}) = Cardinality(Credit(c))
          BY <2>0, <4>2, FS_AddElement
        <5> QED
          BY <2>0, <4>1, <5>1
      <4>3. CASE t \notin Credit(c)
        <5>1. Cardinality(Credit(c) \cup {t}) = Cardinality(Credit(c)) + 1
          BY <2>0, <4>3, FS_AddElement
        <5> QED
          BY <2>0, <4>1, <5>1
      <4> QED
        BY <4>2, <4>3
    <3>3. Cardinality(Credit(c)') \in Nat /\ Cardinality(Credit(c)') <= Cardinality(Credit(c)) + 1
      BY <2>0, <3>1, <3>2, FS_Subset, FS_CardinalityType
    <3>4. counted'[c] = counted[c] + 1 /\ ordered'[c] = ordered[c]
      BY <1>3, <2>5
    <3> QED
      BY <2>0, <2>3, <3>3, <3>4
  <2> QED
    BY <2>4, <2>5
<1> QED
  BY <1>1, <1>2, <1>3, <1>4 DEF CountInv, ChargesCover

\* A step that only moves tasks on, or sends what was charged.
LEMMA CountQuiet ==
    ASSUME CountInv, TasksFit', OthersFit', \A u \in Tasks : Advances(u), HedgeHasLegsOnly',
           UNCHANGED <<counted, signed, ordered>>,
           \A u \in Tasks, c \in Customers : Sent(u, c)' =>
               Sent(u, c) \/ (u \in Requests /\ Armed(u, c)) \/ (task[u] # NoTask /\ task[u].cust = c /\ u \in Legs)
    PROVE  CountInv'
<1>1. counted \in [Customers -> Nat] /\ ordered \in [Customers -> Nat]
  BY DEF CountInv, ChargesCover
<1>2. ASSUME NEW c \in Customers
      PROVE  ordered'[c] + Cardinality(Credit(c)') + LegCredit(c)' <= counted'[c]
  <2>1. Credit(c)' \subseteq Credit(c) /\ LegCredit(c)' <= LegCredit(c)
    BY <1>1, CreditShrinks DEF CountInv
  <2>2. counted'[c] \in Nat /\ counted'[c] >= counted[c] /\ ordered'[c] = ordered[c]
    BY Account
  <2> QED
    BY <2>1, <2>2, StillCovered
<1> QED
  BY <1>1, <1>2 DEF CountInv, ChargesCover

LEMMA CountNext == CountInv /\ [Next]_vars => CountInv'
<1> SUFFICES ASSUME CountInv, [Next]_vars PROVE CountInv'
  OBVIOUS
<1>1. TasksFit /\ OthersFit /\ OthersFit' /\ Requests \subseteq Tasks /\ Legs \subseteq Tasks
  BY OthersStep DEF CountInv, Tasks
<1>2. ASSUME TasksFit', \A u \in Tasks : Advances(u), UNCHANGED <<conn, counted, signed, ordered>>
      PROVE  CountInv'
  <2>1. HedgeHasLegsOnly'
    BY <1>1, <1>2 DEF CountInv, HedgeHasLegsOnly, Advances
  <2>2. \A u \in Tasks, c \in Customers : Sent(u, c)' => Sent(u, c)
    BY <1>2 DEF Sent
  <2> QED
    BY <1>1, <1>2, <2>1, <2>2, CountQuiet
<1>3. ASSUME NEW q \in Requests, NEW kind \in KindsOf[q], NEW token, NEW sends \in Sends,
             Arrive(q, kind, token, sends)
      PROVE  CountInv'
  BY <1>1, <1>3, CountArrive
<1>4. ASSUME NEW q \in Requests, SignLegs(q) PROVE CountInv'
  BY <1>1, <1>4, CountSignLegs
<1>5. ASSUME NEW q \in Requests, Shed(q) \/ TakeSlot(q) \/ JoinLegs(q) \/ TellHedge(q)
      PROVE  CountInv'
  <2>1. UNCHANGED <<conn, counted, signed, ordered>>
    BY <1>5 DEF Shed, TakeSlot, JoinLegs, TellHedge
  <2> QED
    BY <1>1, <1>2, <1>5, <2>1, RequestStepAdvances
<1>6. ASSUME NEW q \in Requests, TimeOut(q) PROVE CountInv'
  <2>1. TasksFit' /\ \A u \in Tasks : Advances(u)
    BY <1>1, <1>6, RequestStepAdvances
  <2>2. UNCHANGED <<conn, signed, ordered>>
    BY <1>6 DEF TimeOut
  <2>3. CASE At(q, {"count"})
    <3>1. counted' = [counted EXCEPT ![task[q].cust] = @ + 1]
      BY <1>6, <2>3 DEF TimeOut
    <3>2. \A u \in Tasks : task'[u] \in {task[u], NoTask}
      BY <1>6 DEF TimeOut
    <3> QED
      BY <1>1, <2>1, <2>2, <3>1, <3>2, CountCharge
  <2>4. CASE ~At(q, {"count"})
    <3>1. counted' = counted
      BY <1>6, <2>4 DEF TimeOut
    <3> QED
      BY <1>2, <2>1, <2>2, <3>1
  <2> QED
    BY <2>3, <2>4
<1>7. ASSUME NEW t \in Tasks, TaskStep(t) PROVE CountInv'
  <2>1. TasksFit' /\ \A u \in Tasks : Advances(u)
    BY <1>1, <1>7, TaskStepAdvances
  <2>2. CASE Connect(t)
    <3>1. task[t].at = "run" /\ task[t].todo # <<>> /\ Head(task[t].todo) = "call"
      BY <2>2 DEF Connect, At
    <3>2. /\ conn' = [conn EXCEPT ![t] = [at |-> "waiting", kind |-> task[t].kind, cust |-> task[t].cust]]
          /\ UNCHANGED <<counted, signed, ordered>>
      BY <2>2 DEF Connect
    <3>3. /\ conn'[t].kind = task[t].kind /\ conn'[t].cust = task[t].cust
          /\ \A u \in Tasks : u # t => conn'[u] = conn[u]
      BY <1>1, <3>2 DEF OthersFit
    <3>4. task[t] # NoTask /\ task[t].at \in Live /\ ~Before("count", Signing, task[t].todo)
      BY <1>1, <3>1, AtSigning DEF Signing
    <3>5. ASSUME t \in Requests PROVE task[t].kind # "hedge"
      <4>1. task[t].todo \in Seq(StepsOf(task[t].kind))
        BY <1>1, <3>4, <3>5 DEF TasksFit, Fits
      <4>2. Head(task[t].todo) \in StepsOf(task[t].kind)
        BY <3>1, <4>1, HeadTailProperties
      <4> QED
        BY <3>1, <4>2 DEF StepsOf
    <3>6. HedgeHasLegsOnly'
      BY <1>1, <2>1, <3>2, <3>3, <3>5 DEF CountInv, HedgeHasLegsOnly, Advances
    <3>7. ASSUME NEW u \in Tasks, NEW c \in Customers, Sent(u, c)'
          PROVE  Sent(u, c) \/ (u \in Requests /\ Armed(u, c))
                 \/ (task[u] # NoTask /\ task[u].cust = c /\ u \in Legs)
      <4>1. CASE u # t
        BY <3>3, <3>7, <4>1 DEF Sent
      <4>2. CASE u = t
        BY <3>3, <3>4, <3>7, <4>2 DEF Sent, Armed, Tasks
      <4> QED
        BY <4>1, <4>2
    <3> QED
      BY <1>1, <2>1, <3>2, <3>6, <3>7, CountQuiet
  <2>3. CASE Count(t)
    <3>1. counted' = [counted EXCEPT ![task[t].cust] = @ + 1] /\ UNCHANGED <<conn, signed, ordered>>
      BY <2>3 DEF Count
    <3>2. \A u \in Tasks : u # t => task'[u] \in {task[u], NoTask}
      BY <1>1, <2>3 DEF Count, Passed, TasksFit
    <3> QED
      BY <1>1, <2>1, <3>1, <3>2, CountCharge
  <2>4. CASE ~Connect(t) /\ ~Count(t)
    <3>1. UNCHANGED <<conn, counted, signed, ordered>>
      BY <1>7, <2>4 DEF TaskStep, Authenticate, StateGate, BodyGate, Check, CheckFails, ReadBody,
              CountDenies, AskBreaker, Succeed, Answer, PressStop, Unreachable, Quiet
    <3> QED
      BY <1>2, <2>1, <3>1
  <2> QED
    BY <2>2, <2>3, <2>4
<1>8. ASSUME NEW t \in Tasks, EnclaveStep(t) PROVE CountInv'
  <2>1. TasksFit' /\ \A u \in Tasks : Advances(u)
    BY <1>1, <1>8, EnclaveStepAdvances
  <2>2. CASE Accept(t)
    <3>1. /\ conn' = [conn EXCEPT ![t] = [conn[t] EXCEPT !.at = "served"]]
          /\ UNCHANGED <<counted, signed, ordered>>
      BY <2>2 DEF Accept
    <3>2. conn[t] # NoConn /\ conn[t] \in ConnRecords
      BY <1>1, <2>2 DEF Accept, NoConn, OthersFit
    <3>3. /\ conn'[t].kind = conn[t].kind /\ conn'[t].cust = conn[t].cust
          /\ \A u \in Tasks : u # t => conn'[u] = conn[u]
      BY <1>1, <3>1, <3>2 DEF OthersFit, ConnRecords
    <3>4. \A u \in Tasks, c \in Customers : Sent(u, c)' => Sent(u, c)
      BY <3>2, <3>3 DEF Sent
    <3>5. HedgeHasLegsOnly'
      BY <1>1, <2>1, <3>1, <3>2, <3>3 DEF CountInv, HedgeHasLegsOnly, Advances
    <3> QED
      BY <1>1, <2>1, <3>1, <3>4, <3>5, CountQuiet
  <2>3. ASSUME NEW reply, EnclaveAnswers(t, reply) PROVE CountInv'
    <3> DEFINE yes == reply = "signature" /\ Tier(conn[t].kind) \in {"sign", "leg"}
    <3>1. conn[t] # NoConn /\ conn' = [conn EXCEPT ![t] = NoConn] /\ counted' = counted /\ Signs(t, yes)
      BY <2>3 DEF EnclaveAnswers, NoConn
    <3> HIDE DEF yes
    <3> QED
      BY <1>1, <2>1, <3>1, CountSigned
  <2>4. ASSUME NEW late, ConnectionBreaks(t, late) PROVE CountInv'
    <3> DEFINE yes == late /\ Tier(conn[t].kind) \in {"sign", "leg"}
    <3>1. conn[t] # NoConn /\ conn' = [conn EXCEPT ![t] = NoConn] /\ counted' = counted /\ Signs(t, yes)
      BY <2>4 DEF ConnectionBreaks
    <3> HIDE DEF yes
    <3> QED
      BY <1>1, <2>1, <3>1, CountSigned
  <2> QED
    BY <1>8, <2>2, <2>3, <2>4 DEF EnclaveStep
<1>9. CASE UNCHANGED vars \/ Execution \/ (\E s \in Scopes : TimePasses(s)) \/ \E c \in Customers : Release(c)
  <2>1. UNCHANGED <<task, conn, counted, signed, ordered>>
    BY <1>9 DEF vars, ownVars, Execution, TimePasses, Release
  <2> QED
    BY <1>1, <1>2, <2>1, SameAdvances
<1> QED
  BY <1>3, <1>4, <1>5, <1>6, <1>7, <1>8, <1>9, NextSteps

\* No order the gateway can read is signed without a charge, for any requests,
\* routes, tenants and tokens: also when handlers are dropped, answers are lost and
\* hedges obtain two signatures for one charge (order_gate).
THEOREM CountTheorem == Spec => []OrdersAreCounted
<1>1. CountInv => OrdersAreCounted
  <2> SUFFICES ASSUME CountInv, NEW c \in Customers PROVE ordered[c] <= counted[c]
    BY DEF OrdersAreCounted
  <2>1. /\ Cardinality(Credit(c)) \in Nat /\ LegCredit(c) \in {0, 1} /\ ordered[c] \in Nat /\ counted[c] \in Nat
        /\ ordered[c] + Cardinality(Credit(c)) + LegCredit(c) <= counted[c]
    BY Account
  <2> QED
    BY <2>1
<1> QED
  BY <1>1, CountInit, CountNext, PTL DEF Spec

-----------------------------------------------------------------------------
(* The pools.                                                               *)

\* The slots of a router, for tasks that fit.
PoolInv == TasksFit /\ OthersFit /\ PoolsAreBounded

\* The request enters the router of that tier in this step.
Joins(q, tier) == q \in Holding(tier)' /\ q \notin Holding(tier)

\* Only who takes a slot of its own tier joins the holders of that tier.
LEMMA SlotsAreTaken ==
    ASSUME TasksFit, TasksFit', NEW tier \in {"sign", "operator"}, NEW cap \in Nat \ {0},
           Cardinality(Holding(tier)) <= cap, Full(tier) <=> Cardinality(Holding(tier)) >= cap,
           \A q \in Requests : Joins(q, tier) => TakeSlot(q),
           \A q, r \in Requests : Joins(q, tier) /\ Joins(r, tier) => q = r
    PROVE  Cardinality(Holding(tier)') <= cap
<1> DEFINE H == Holding(tier)
           J == Holding(tier)'
<1>1. IsFiniteSet(H) /\ Cardinality(H) \in Nat /\ J \subseteq Requests /\ IsFiniteSet(J) /\ Cardinality(J) \in Nat
  <2>1. H \subseteq Requests /\ J \subseteq Requests
    BY DEF Holding
  <2> HIDE DEF H, J
  <2> QED
    BY <2>1, FS_Subset, FS_CardinalityType, GatewayAssumption
<1>2. CASE J \subseteq H
  <2> HIDE DEF H, J
  <2>1. Cardinality(J) <= Cardinality(H)
    BY <1>1, <1>2, FS_Subset
  <2>2. Cardinality(H) <= cap
    BY DEF H
  <2>3. Cardinality(J) <= cap
    BY <1>1, <2>1, <2>2
  <2> QED
    BY <2>3 DEF J
<1>3. CASE ~(J \subseteq H)
  <2>1. PICK q \in J : q \notin H
    BY <1>3
  <2>2. q \in Requests /\ Joins(q, tier) /\ TakeSlot(q)
    BY <1>1, <2>1 DEF Joins
  <2>3. Tier(task[q].kind) = tier
    <3>1. task'[q] = [task[q] EXCEPT !.at = "run"] /\ task[q] \in TaskRecords
      BY <2>2, RunningTask DEF TakeSlot, TasksFit, Tasks
    <3>2. task'[q].kind = task[q].kind
      BY <3>1 DEF TaskRecords
    <3>3. Tier(task'[q].kind) = tier
      BY <2>1 DEF Holding
    <3> QED
      BY <3>2, <3>3
  <2>4. Cardinality(H) < cap
    BY <1>1, <2>2, <2>3 DEF TakeSlot
  <2>5. J \subseteq H \cup {q}
    BY <1>1, <2>2 DEF Joins
  <2> HIDE DEF H, J
  <2>6. IsFiniteSet(H \cup {q}) /\ Cardinality(H \cup {q}) = Cardinality(H) + 1
    BY <1>1, <2>1, FS_AddElement
  <2>7. Cardinality(J) <= Cardinality(H) + 1
    BY <2>5, <2>6, FS_Subset
  <2>8. Cardinality(J) <= cap
    BY <1>1, <2>4, <2>7
  <2> QED
    BY <2>8 DEF J
<1> QED
  BY <1>2, <1>3

LEMMA PoolNext == PoolInv /\ [Next]_vars => PoolInv'
<1> SUFFICES ASSUME PoolInv, [Next]_vars PROVE PoolInv'
  OBVIOUS
<1>1. TasksFit /\ OthersFit /\ OthersFit' /\ Requests \subseteq Tasks
  BY OthersStep DEF PoolInv, Tasks
<1>2. ASSUME TasksFit', \A tier : \A q \in Requests : Joins(q, tier) => TakeSlot(q),
             \A tier : \A q, r \in Requests : Joins(q, tier) /\ Joins(r, tier) => q = r
      PROVE  PoolInv'
  <2>1. Full("sign") <=> Cardinality(Holding("sign")) >= SignCap
    BY DEF Full
  <2>2. Full("operator") <=> Cardinality(Holding("operator")) >= OperatorCap
    BY DEF Full
  <2>3. Cardinality(Holding("sign")') <= SignCap
    BY <1>1, <1>2, <2>1, SlotsAreTaken, GatewayAssumption DEF PoolInv, PoolsAreBounded
  <2>4. Cardinality(Holding("operator")') <= OperatorCap
    BY <1>1, <1>2, <2>2, SlotsAreTaken, GatewayAssumption DEF PoolInv, PoolsAreBounded
  <2> QED
    BY <1>1, <1>2, <2>3, <2>4 DEF PoolInv, PoolsAreBounded
<1>3. ASSUME TasksFit', NEW q \in Requests, Advances(q), NEW tier, q \in Holding(tier)', ~TakeSlot(q)
      PROVE  q \in Holding(tier)
  <2>1. task'[q] # NoTask /\ task'[q].at \notin {"idle", "arriving"} /\ Tier(task'[q].kind) = tier
    BY <1>3 DEF Holding, NoTask
  <2>2. task[q] # NoTask /\ task[q].kind = task'[q].kind /\ task[q].at # "arriving"
    BY <1>3, <2>1 DEF Advances
  <2>3. task[q].at # "idle"
    BY <1>1, <2>2 DEF TasksFit, TaskRecords
  <2> QED
    BY <2>1, <2>2, <2>3 DEF Holding
<1>4. ASSUME TasksFit', \A u \in Tasks : Advances(u), \A q \in Requests : ~TakeSlot(q) PROVE PoolInv'
  <2>1. \A tier : \A q \in Requests : ~Joins(q, tier)
    BY <1>1, <1>3, <1>4 DEF Joins
  <2> QED
    BY <1>2, <1>4, <2>1
<1>5. ASSUME NEW q \in Requests, TakeSlot(q) PROVE PoolInv'
  <2>1. TasksFit'
    BY <1>1, <1>5, RequestStepAdvances
  <2>2. \A u \in Tasks : u # q => task'[u] = task[u]
    BY <1>1, <1>5 DEF TakeSlot, TasksFit
  <2>3. \A tier : \A u \in Requests : Joins(u, tier) => u = q
    BY <1>1, <2>2 DEF Holding, Joins
  <2> QED
    BY <1>2, <1>5, <2>1, <2>3
<1>6. ASSUME NEW q \in Requests, NEW kind \in KindsOf[q], NEW token, NEW sends \in Sends,
             Arrive(q, kind, token, sends)
      PROVE  PoolInv'
  <2>1. TasksFit' /\ task'[q].at = "arriving" /\ \A u \in Tasks : u # q => task'[u] = task[u]
    BY <1>1, <1>6, ArriveFits
  <2>2. \A tier : \A u \in Requests : ~Joins(u, tier)
    BY <1>1, <2>1 DEF Holding, Joins
  <2> QED
    BY <1>2, <2>1, <2>2
<1>7. ASSUME NEW q \in Requests, SignLegs(q) PROVE PoolInv'
  <2>1. /\ TasksFit' /\ task[q].at = "run" /\ task[q].kind = "hedge" /\ task'[q].kind = "hedge"
        /\ \A u \in Requests : u # q => task'[u] = task[u]
    BY <1>1, <1>7, SignLegsFits
  <2>2. \A tier : \A u \in Requests : ~Joins(u, tier)
    BY <2>1 DEF Holding, Joins
  <2> QED
    BY <1>2, <2>1, <2>2
<1>8. ASSUME TasksFit', \A u \in Tasks : Advances(u) PROVE PoolInv'
  BY <1>4, <1>5, <1>8
<1>9. ASSUME NEW q \in Requests, Shed(q) \/ TakeSlot(q) \/ JoinLegs(q) \/ TellHedge(q) \/ TimeOut(q)
      PROVE  PoolInv'
  BY <1>1, <1>8, <1>9, RequestStepAdvances
<1>10. ASSUME NEW t \in Tasks, TaskStep(t) \/ EnclaveStep(t) PROVE PoolInv'
  BY <1>1, <1>8, <1>10, TaskStepAdvances, EnclaveStepAdvances
<1>11. CASE UNCHANGED vars \/ Execution \/ (\E s \in Scopes : TimePasses(s)) \/ \E c \in Customers : Release(c)
  <2>1. task' = task
    BY <1>11 DEF vars, ownVars, Execution, TimePasses, Release
  <2> QED
    BY <1>1, <1>8, <2>1, SameAdvances
<1> QED
  BY <1>6, <1>7, <1>9, <1>10, <1>11, NextSteps

\* The requests inside a router never outnumber its slots, for any capacities and
\* whatever is shed, dropped or answered late (load_shed, concurrency_limit).
THEOREM PoolsTheorem == Spec => []PoolsAreBounded
<1>1. Init => PoolInv
  <2> SUFFICES ASSUME Init PROVE PoolInv
    OBVIOUS
  <2>1. TasksFit /\ OthersFit
    BY StopInit DEF StopInv
  <2>2. \A q \in Requests : task[q].at = "idle"
    BY DEF Init, Tasks, NoTask
  <2>3. Holding("sign") = {} /\ Holding("operator") = {}
    BY <2>2 DEF Holding
  <2>4. Cardinality(Holding("sign")) = 0 /\ Cardinality(Holding("operator")) = 0
    BY <2>3, FS_EmptySet
  <2> QED
    BY <2>1, <2>4, GatewayAssumption DEF PoolInv, PoolsAreBounded
<1>2. PoolInv => PoolsAreBounded
  BY DEF PoolInv
<1> QED
  BY <1>1, <1>2, PoolNext, PTL DEF Spec

-----------------------------------------------------------------------------
(* Types.  The invariants above have the types of what they speak of; the   *)
(* history of looks and signatures and the bounds are left.                 *)

RestTyped ==
    /\ saw \subseteq Tasks /\ signed \subseteq Tasks
    /\ spent \in [arrivals : [Requests -> 0..MaxArrivals], releases : 0..MaxReleases, hedges : 0..1]

LEMMA RestNext == RestTyped /\ [Next]_vars => RestTyped'
<1> SUFFICES ASSUME RestTyped, [Next]_vars PROVE RestTyped'
  OBVIOUS
<1> USE DEF RestTyped
<1>1. ASSUME saw' \subseteq Tasks, signed' \subseteq Tasks, spent' = spent PROVE RestTyped'
  BY <1>1
<1>2. Requests \subseteq Tasks /\ Legs \subseteq Tasks
  BY DEF Tasks
<1>3. ASSUME NEW q \in Requests, NEW kind, NEW token, NEW sends, Arrive(q, kind, token, sends)
      PROVE  RestTyped'
  <2>1. saw' \subseteq Tasks /\ signed' \subseteq Tasks
    BY <1>2, <1>3 DEF Arrive
  <2> DEFINE more == [spent.arrivals EXCEPT ![q] = spent.arrivals[q] + 1]
  <2>2. more \in [Requests -> 0..MaxArrivals]
    <3>1. spent.arrivals \in [Requests -> 0..MaxArrivals] /\ spent.arrivals[q] \in 0..MaxArrivals
      OBVIOUS
    <3>2. spent.arrivals[q] + 1 \in 0..MaxArrivals
      BY <1>3, <3>1, GatewayAssumption DEF Arrive
    <3> QED
      BY <3>1, <3>2
  <2>3. PICK n \in {1, spent.hedges} : spent' = [spent EXCEPT !.arrivals = more, !.hedges = n]
    <3>1. CASE kind = "hedge"
      BY <1>3, <3>1 DEF Arrive
    <3>2. CASE kind # "hedge"
      BY <1>3, <3>2 DEF Arrive
    <3> QED
      BY <3>1, <3>2
  <2>4. spent' = [arrivals |-> more, releases |-> spent.releases, hedges |-> n]
    BY <2>3
  <2>5. n \in 0..1 /\ spent.releases \in 0..MaxReleases
    BY <2>3
  <2>6. spent' \in [arrivals : [Requests -> 0..MaxArrivals], releases : 0..MaxReleases, hedges : 0..1]
    BY <2>2, <2>4, <2>5
  <2> QED
    BY <2>1, <2>6
<1>4. ASSUME NEW q \in Requests,
             Shed(q) \/ TakeSlot(q) \/ SignLegs(q) \/ JoinLegs(q) \/ TellHedge(q) \/ TimeOut(q)
      PROVE  RestTyped'
  BY <1>1, <1>2, <1>4 DEF Shed, TakeSlot, SignLegs, JoinLegs, TellHedge, TimeOut
<1>5. ASSUME NEW t \in Tasks, TaskStep(t) PROVE RestTyped'
  BY <1>1, <1>5 DEF TaskStep, Authenticate, StateGate, BodyGate, Check, CheckFails, ReadBody, Count,
                    CountDenies, AskBreaker, Succeed, Answer, PressStop, Connect, Unreachable, Quiet
<1>6. ASSUME NEW t \in Tasks, EnclaveStep(t) PROVE RestTyped'
  BY <1>1, <1>6 DEF EnclaveStep, Accept, EnclaveAnswers, ConnectionBreaks, Signs
<1>7. ASSUME NEW c \in Customers, Release(c) PROVE RestTyped'
  <2>1. saw' \subseteq Tasks /\ signed' \subseteq Tasks
    BY <1>7 DEF Release
  <2>2. spent.releases + 1 \in 0..MaxReleases
    BY <1>7, GatewayAssumption DEF Release
  <2>3. spent' = [spent EXCEPT !.releases = spent.releases + 1]
    BY <1>7 DEF Release
  <2> QED
    BY <2>1, <2>2, <2>3
<1>8. CASE UNCHANGED vars \/ Execution \/ \E s \in Scopes : TimePasses(s)
  BY <1>1, <1>8 DEF vars, ownVars, Execution, TimePasses
<1> QED
  BY <1>3, <1>4, <1>5, <1>6, <1>7, <1>8, NextSteps

\* The gateway keeps its types, for any requests, tokens, tenants, pools and bounds:
\* every handler leaves a task that is one, and every connection is known.
THEOREM GatewayTypeCorrect == Spec => []TypeOK
<1>1. Init => RestTyped
  BY GatewayAssumption DEF Init, RestTyped
<1>2. Spec => []RestTyped
  BY <1>1, RestNext, PTL DEF Spec
<1>3. Spec => []CountInv
  BY CountInit, CountNext, PTL DEF Spec
<1>4. Spec => []HedgeInv
  BY HedgeInvInit, HedgeInvNext, HedgeBelow, PTL DEF Spec, Init
<1>5. RestTyped /\ CountInv /\ HedgeInv /\ BackoffInv => TypeOK
  BY DEF RestTyped, CountInv, TasksFit, OthersFit, ChargesCover, HedgeInv, BackoffInv, TypeOK
<1> QED
  BY <1>2, <1>3, <1>4, <1>5, BackoffStays, PTL

=============================================================================
