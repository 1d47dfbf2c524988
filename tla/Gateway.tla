------------------------------ MODULE Gateway ------------------------------
(***************************************************************************)
(* The gateway at work: requests of all tiers run the programs of           *)
(* GatewayRoutes side by side and share the kill switch, the circuits, two  *)
(* pools of request slots and the connections of the enclave.  A hedge      *)
(* signs its legs in two tasks of its own and hands them to Hedge.  Checks  *)
(* that keep no state of interest here may pass or fail; the daily counter  *)
(* is the number of orders it let through.                                  *)
(*                                                                          *)
(* A request of a hardened tier may time out at any step: its handler is    *)
(* dropped where it stands, what it charged stays charged, and the enclave  *)
(* goes on with what it was sent.  The enclave may be slow without bound,   *)
(* unreachable, or lose its answer.                                         *)
(***************************************************************************)
EXTENDS GatewayRoutes, Backoff, Hedge

CONSTANTS
    Requests,      \* the connections the accept loop lets in at one time; one it drops,
                   \* all its permits being held, is never seen here
    KindsOf,       \* KindsOf[q]: what slot q may ask
    Customers,
    Tokens,        \* bearer tokens a client may present
    ApiTokens,     \* SIGNER_API_TOKENS: a sequence of [token, customer]
    OperatorTokens,\* SIGNER_OPERATOR_TOKENS
    SignCap,       \* MAX_CONCURRENT_REQUESTS
    OperatorCap,   \* MAX_CONCURRENT_OPERATOR_REQUESTS
    EnclaveCap,    \* the enclave's MAX_CONNECTIONS
    MaxArrivals,   \* bound: requests a slot makes, one after the other
    MaxReleases    \* bound: releases by the operator

Listed(entries) == {entries[i].token : i \in 1..Len(entries)}

Nobody == "nobody"

\* main refuses to start when a token is in both lists; every tenant the lists name
\* is one of Customers.
ASSUME GatewayAssumption ==
    /\ ApiTokens \in Seq([token : Tokens, customer : Customers])
    /\ OperatorTokens \in Seq([token : Tokens, customer : Customers])
    /\ Listed(ApiTokens) \cap Listed(OperatorTokens) = {}
    /\ Nobody \notin Customers
    /\ IsFiniteSet(Requests) /\ Requests \cap Legs = {}
    /\ KindsOf \in [Requests -> SUBSET Kinds]
    /\ SignCap \in Nat \ {0} /\ OperatorCap \in Nat \ {0} /\ EnclaveCap \in Nat \ {0}
    /\ MaxArrivals \in Nat /\ MaxReleases \in Nat
    /\ Legs = LegKinds

Tasks == Requests \cup Legs

VARIABLES
    task,      \* task[t]: the request or leg it works on, and the steps to go
    level,     \* level[c]: the tenant's state in the kill switch
    conn,      \* conn[t]: what was sent to the enclave and not answered yet
    counted,   \* the daily order counter
    saw,       \* history: tasks whose tenant was, since they came, in a state that
               \* lets through what they ask
    signed,    \* history: tasks that obtained a signature since they came
    ordered,   \* history: requests that obtained a signature on an order
    spent      \* bounds: arrivals, releases and hedges so far

ownVars == <<task, level, conn, counted, saw, signed, ordered, spent>>
vars == <<ownVars, backoffVars, hedgeVars>>

NoTask == [at |-> "idle"]
NoConn == [at |-> "none"]

Init ==
    /\ task = [t \in Tasks |-> NoTask]
    /\ level = [c \in Customers |-> Active]
    /\ conn = [t \in Tasks |-> NoConn]
    /\ counted = [c \in Customers |-> 0]
    /\ saw = {} /\ signed = {}
    /\ ordered = [c \in Customers |-> 0]
    /\ spent = [arrivals |-> [q \in Requests |-> 0], releases |-> 0, hedges |-> 0]
    /\ BackoffInit
    /\ HedgeInit

-----------------------------------------------------------------------------
(* Tokens, tenants, tiers.                                                  *)

\* AuthState::lookup: the last entry that matches wins.
Lookup(entries, token) ==
    LET hits == {i \in 1..Len(entries) : entries[i].token = token}
    IN IF hits = {} THEN Nobody
       ELSE entries[CHOOSE i \in hits : \A j \in hits : j <= i].customer

\* The token set of the router that serves the request.
Resolved(kind, token) ==
    Lookup(IF Tier(kind) = "operator" THEN OperatorTokens ELSE ApiTokens, token)

\* What a request does to exposure, whatever route it takes.
Effect(kind) ==
    CASE kind \in {"signOrder", "requestOrder", "hedge"} \cup OrderRoutes \cup LegKinds -> "Order"
      [] kind \in {"signCancel", "requestCancel", "requestCancelAll", "cancelAll"} \cup CancelRoutes
            -> "Cancel"
      [] kind \in {"requestRead"} \cup ReadRoutes -> "Read"
      [] kind \in {"x402", "permit2"} -> "MoneyMoving"
      [] kind \in {"signOpaque", "requestOther"} -> "Unknown"
      [] OTHER -> "Exempt"

LetsThrough(state, kind) == Effect(kind) \in AllowedClasses(state)

LevelOf(levels, c) == IF c \in Customers THEN levels[c] ELSE Active

\* Requests that hold a slot of their tier's pool.
Holding(tier) == {q \in Requests : task[q].at \notin {"idle", "arriving"} /\ Tier(task[q].kind) = tier}

Full(tier) ==
    \/ tier = "sign" /\ Cardinality(Holding("sign")) >= SignCap
    \/ tier = "operator" /\ Cardinality(Holding("operator")) >= OperatorCap

\* What follows the header: a body that parses, one that does not, or nothing.
Sends == {"body", "garbage", "nothing"}

Hardened == {"sign", "operator", "halt"}

-----------------------------------------------------------------------------
(* Arrival: the layers of main.rs outside the router.                       *)

Arrive(q, kind, token, sends) ==
    /\ task[q] = NoTask /\ conn[q] = NoConn
    /\ spent.arrivals[q] < MaxArrivals
    /\ kind = "hedge" => spent.hedges = 0
    /\ Extractors(kind) = <<>> => sends = "body"
    /\ LET c == Resolved(kind, token)
       IN /\ task' = [task EXCEPT ![q] =
                 [at |-> "arriving", kind |-> kind, cust |-> c, sends |-> sends,
                  todo |-> Program(kind), ok |-> FALSE]]
          /\ saw' = IF LetsThrough(LevelOf(level, c), kind) THEN saw \cup {q} ELSE saw \ {q}
    /\ signed' = signed \ {q}
    /\ spent' = [spent EXCEPT !.arrivals[q] = @ + 1, !.hedges = IF kind = "hedge" THEN 1 ELSE @]
    /\ UNCHANGED <<level, conn, counted, ordered, backoffVars, hedgeVars>>

\* load_shed in front of concurrency_limit.
Shed(q) ==
    /\ task[q].at = "arriving"
    /\ Full(Tier(task[q].kind))
    /\ task' = [task EXCEPT ![q] = NoTask]
    /\ UNCHANGED <<level, conn, counted, saw, signed, ordered, spent, backoffVars, hedgeVars>>

TakeSlot(q) ==
    /\ task[q].at = "arriving"
    /\ ~Full(Tier(task[q].kind))
    /\ task' = [task EXCEPT ![q].at = "run"]
    /\ UNCHANGED <<level, conn, counted, saw, signed, ordered, spent, backoffVars, hedgeVars>>

-----------------------------------------------------------------------------
(* Steps of a task.                                                         *)

At(t, steps) == task[t].at = "run" /\ task[t].todo # <<>> /\ Head(task[t].todo) \in steps

Scope(t) == <<task[t].cust, VenueOfKind(task[t].kind)>>

\* The task with its next step done, or ended: a request is answered and gives
\* its slot back, a leg keeps its result for the hedge that waits for it.
Passed(t) == [task EXCEPT ![t].todo = Tail(@)]
Ended(t, ok) ==
    [task EXCEPT ![t] = IF t \in Requests THEN NoTask
                        ELSE [@ EXCEPT !.at = "done", !.todo = <<>>, !.ok = ok]]

\* Checks whose outcome this model leaves open: budgets, shapes, staged keys.
OpenChecks == {"rate", "shape", "orders", "cancel", "spend", "creds", "blob", "fields"}

Quiet == UNCHANGED <<level, conn, counted, saw, signed, ordered, spent, backoffVars, hedgeVars>>

Authenticate(t) ==
    /\ At(t, {"auth"})
    /\ task' = IF task[t].cust = Nobody THEN Ended(t, FALSE) ELSE Passed(t)
    /\ Quiet

\* tenant_state_mw: one look at the tenant's state, by the class of the path.
StateGate(t) ==
    /\ At(t, {"state"})
    /\ task' = IF PathClass(task[t].kind) \in AllowedClasses(level[task[t].cust])
               THEN Passed(t) ELSE Ended(t, FALSE)
    /\ Quiet

\* body_route_gate: another look, by the class of the body.
BodyGate(t) ==
    /\ At(t, {"body"})
    /\ task' = IF BodyClass(task[t].kind) \in AllowedClasses(level[task[t].cust])
               THEN Passed(t) ELSE Ended(t, FALSE)
    /\ Quiet

\* The JSON body arrives, and parses or not; a stalled client never sends it.
ReadBody(t) ==
    /\ At(t, {"read"})
    /\ task[t].sends # "nothing"
    /\ task' = IF task[t].sends = "body" THEN Passed(t) ELSE Ended(t, FALSE)
    /\ Quiet

Check(t) ==
    /\ At(t, OpenChecks)
    /\ task' = Passed(t)
    /\ Quiet

CheckFails(t) ==
    /\ At(t, OpenChecks)
    /\ task' = Ended(t, FALSE)
    /\ Quiet

\* order_gate: the daily counter charges before the order goes on.
Count(t) ==
    /\ At(t, {"count"})
    /\ counted' = [counted EXCEPT ![task[t].cust] = @ + 1]
    /\ task' = Passed(t)
    /\ UNCHANGED <<level, conn, saw, signed, ordered, spent, backoffVars, hedgeVars>>

CountDenies(t) ==
    /\ At(t, {"count"})
    /\ task' = Ended(t, FALSE)
    /\ Quiet

AskBreaker(t) ==
    /\ At(t, {"breaker"})
    /\ IF Allows(Scope(t))
       THEN Allow(Scope(t)) /\ task' = Passed(t)
       ELSE UNCHANGED backoffVars /\ task' = Ended(t, FALSE)
    /\ UNCHANGED <<level, conn, counted, saw, signed, ordered, spent, hedgeVars>>

Succeed(t) ==
    /\ At(t, {"success"})
    /\ ReportSuccess(Scope(t))
    /\ task' = Passed(t)
    /\ UNCHANGED <<level, conn, counted, saw, signed, ordered, spent, hedgeVars>>

\* All steps are done: the answer is built and sent.
Answer(t) ==
    /\ task[t].at = "run" /\ task[t].todo = <<>>
    /\ task' = Ended(t, TRUE)
    /\ Quiet

\* post_tenant_halt, for either level; the store decides (TenantState).
PressStop(t, to) ==
    /\ At(t, {"press"})
    /\ LET c == task[t].cust
       IN /\ level' = IF Changes(level[c], to, "Client", TRUE) THEN [level EXCEPT ![c] = to] ELSE level
          /\ task' = Ended(t, TRUE)
    /\ UNCHANGED <<conn, counted, saw, signed, ordered, spent, backoffVars, hedgeVars>>

\* admin_set on the operator's socket.
Release(c) ==
    /\ level[c] # Active
    /\ spent.releases < MaxReleases
    /\ spent' = [spent EXCEPT !.releases = @ + 1]
    /\ level' = [level EXCEPT ![c] = Active]
    /\ saw' = saw \cup {t \in Tasks : task[t] # NoTask /\ task[t].cust = c}
    /\ UNCHANGED <<task, conn, counted, signed, ordered, backoffVars, hedgeVars>>

-----------------------------------------------------------------------------
(* The round trip to the enclave.                                           *)

\* vsock::round_trip: connect, with a timeout, and send.
Connect(t) ==
    /\ At(t, {"call"})
    /\ task' = [task EXCEPT ![t].at = "calling"]
    /\ conn' = [conn EXCEPT ![t] = [at |-> "waiting", kind |-> task[t].kind, cust |-> task[t].cust]]
    /\ UNCHANGED <<level, counted, saw, signed, ordered, spent, backoffVars, hedgeVars>>

Unreachable(t) ==
    /\ At(t, {"call"})
    /\ task' = Ended(t, FALSE)
    /\ Quiet

\* The enclave takes a permit, then accepts.
Accept(t) ==
    /\ conn[t].at = "waiting"
    /\ Cardinality({u \in Tasks : conn[u].at = "served"}) < EnclaveCap
    /\ conn' = [conn EXCEPT ![t].at = "served"]
    /\ UNCHANGED <<task, level, counted, saw, signed, ordered, spent, backoffVars, hedgeVars>>

\* A hedge is one request, though it obtains two signatures.
FirstOrder(t) ==
    Effect(conn[t].kind) = "Order" /\ t \notin signed /\ (t \in Legs => signed \cap Legs = {})

Signs(t, yes) ==
    /\ signed' = IF yes THEN signed \cup {t} ELSE signed
    /\ ordered' = IF yes /\ FirstOrder(t) THEN [ordered EXCEPT ![conn[t].cust] = @ + 1] ELSE ordered

Reports(t) == \E i \in 1..Len(Program(task[t].kind)) : Program(task[t].kind)[i] = "breaker"

\* The enclave answers: a signature, an error, or rate_limited; the last opens the
\* circuit of the request's key where the handler keeps one.
EnclaveAnswers(t, reply) ==
    /\ conn[t].at = "served"
    /\ conn' = [conn EXCEPT ![t] = NoConn]
    /\ Signs(t, reply = "signature" /\ Tier(conn[t].kind) \in {"sign", "leg"})
    /\ IF task[t].at = "calling"
       THEN /\ task' = IF reply = "signature" THEN [task EXCEPT ![t].at = "run", ![t].todo = Tail(@)]
                       ELSE Ended(t, FALSE)
            /\ IF reply = "limited" /\ Reports(t) THEN ReportRateLimited(Scope(t)) ELSE UNCHANGED backoffVars
       ELSE UNCHANGED <<task, backoffVars>>
    /\ UNCHANGED <<level, counted, saw, spent, hedgeVars>>

\* The connection breaks, before or after the enclave signed.
ConnectionBreaks(t, late) ==
    /\ conn[t] # NoConn
    /\ late => conn[t].at = "served"
    /\ conn' = [conn EXCEPT ![t] = NoConn]
    /\ Signs(t, late /\ Tier(conn[t].kind) \in {"sign", "leg"})
    /\ task' = IF task[t].at = "calling" THEN Ended(t, FALSE) ELSE task
    /\ UNCHANGED <<level, counted, saw, spent, backoffVars, hedgeVars>>

-----------------------------------------------------------------------------
(* A hedge: both legs are signed side by side, then executed.               *)

SignLegs(q) ==
    /\ At(q, {"legs"})
    /\ task' = [t \in Tasks |->
                   IF t = q THEN [task[q] EXCEPT !.at = "joining"]
                   ELSE IF t \in Legs
                   THEN [at |-> "run", kind |-> t, cust |-> task[q].cust, sends |-> "body",
                         todo |-> Program(t), ok |-> FALSE]
                   ELSE task[t]]
    /\ saw' = IF q \in saw THEN saw \cup Legs ELSE saw \ Legs
    /\ UNCHANGED <<level, conn, counted, signed, ordered, spent, backoffVars, hedgeVars>>

\* Both signatures are there, or the hedge is rejected and nothing is sent.
JoinLegs(q) ==
    /\ task[q].at = "joining"
    /\ \A l \in Legs : task[l].at = "done"
    /\ LET ok == \A l \in Legs : task[l].ok
       IN /\ task' = [t \in Tasks |->
                         IF t = q /\ ok THEN [task[q] EXCEPT !.at = "executing"]
                         ELSE IF t = q \/ t \in Legs THEN NoTask ELSE task[t]]
          /\ IF ok THEN Execute ELSE RejectHedge
    /\ UNCHANGED <<level, conn, counted, saw, signed, ordered, spent, backoffVars>>

\* The spawned task and the venues go on whether or not the request waits.
Execution == ExecutionStep /\ UNCHANGED <<ownVars, backoffVars>>

TellHedge(q) ==
    /\ task[q].at = "executing"
    /\ ReportHedge \/ ExecutionPanics
    /\ task' = [task EXCEPT ![q] = NoTask]
    /\ UNCHANGED <<level, conn, counted, saw, signed, ordered, spent, backoffVars>>

-----------------------------------------------------------------------------

\* Mutated form of TimeOut: only the round trip to the enclave has a timeout.
TimeOutOfCalls(q) ==
    /\ task[q].at = "calling"
    /\ Tier(task[q].kind) \in Hardened
    /\ task' = [task EXCEPT ![q] = NoTask]
    /\ UNCHANGED <<level, conn, counted, saw, signed, ordered, spent, backoffVars, hedgeVars>>

\* TimeoutLayer: a handler that waits is dropped where it stands, and so are the
\* legs it joins; a charge under way still lands; nothing is reported.
TimeOut(q) ==
    /\ task[q].at \in {"calling", "joining", "executing"} \/ At(q, Awaits)
    /\ Tier(task[q].kind) \in Hardened
    /\ At(q, {"read"}) => task[q].sends = "nothing"
    /\ task' = [t \in Tasks |->
                   IF t = q \/ (task[q].at = "joining" /\ t \in Legs) THEN NoTask ELSE task[t]]
    /\ counted' = IF At(q, {"count"}) THEN [counted EXCEPT ![task[q].cust] = @ + 1] ELSE counted
    /\ UNCHANGED <<level, conn, saw, signed, ordered, spent, backoffVars, hedgeVars>>

TimePasses(s) == Elapse(s) /\ UNCHANGED <<ownVars, hedgeVars>>

TaskStep(t) ==
    \/ Authenticate(t) \/ StateGate(t) \/ BodyGate(t) \/ Check(t) \/ CheckFails(t)
    \/ ReadBody(t)
    \/ Count(t) \/ CountDenies(t) \/ AskBreaker(t) \/ Succeed(t) \/ Answer(t)
    \/ \E to \in {CancelOnly, Halted} : PressStop(t, to)
    \/ Connect(t) \/ Unreachable(t)

RequestStep(q) == Shed(q) \/ TakeSlot(q) \/ TaskStep(q) \/ SignLegs(q) \/ JoinLegs(q)

EnclaveStep(t) ==
    \/ Accept(t)
    \/ \E reply \in {"signature", "error", "limited"} : EnclaveAnswers(t, reply)
    \/ \E late \in BOOLEAN : ConnectionBreaks(t, late)

Next ==
    \/ \E q \in Requests :
        \/ \E kind \in KindsOf[q], token \in Tokens, sends \in Sends : Arrive(q, kind, token, sends)
        \/ RequestStep(q) \/ TellHedge(q) \/ TimeOut(q)
    \/ \E l \in Legs : TaskStep(l)
    \/ \E t \in Tasks : EnclaveStep(t)
    \/ \E c \in Customers : Release(c)
    \/ \E s \in Scopes : TimePasses(s)
    \/ Execution

Spec == Init /\ [][Next]_vars

(***************************************************************************)
(* Fairness: the runtime polls every ready task and every timer fires.      *)
(* Nothing obliges the enclave to answer, or a venue, or a client to send.  *)
(***************************************************************************)
Fairness ==
    /\ \A q \in Requests : WF_vars(RequestStep(q)) /\ WF_vars(TimeOut(q))
    /\ \A l \in Legs : WF_vars(TaskStep(l))

FairSpec == Spec /\ Fairness

-----------------------------------------------------------------------------

TaskRecords ==
    [at : {"arriving", "run", "calling", "joining", "executing", "done"},
     kind : Kinds \cup LegKinds, cust : Customers \cup {Nobody}, sends : Sends,
     todo : Seq(Steps), ok : BOOLEAN]

ConnRecords ==
    [at : {"waiting", "served"}, kind : Kinds \cup LegKinds, cust : Customers \cup {Nobody}]

\* Every variable of the gateway holds a value of its type.
TypeOK ==
    /\ BackoffTypeOK /\ HedgeTypeOK
    /\ task \in [Tasks -> {NoTask} \cup TaskRecords]
    /\ conn \in [Tasks -> {NoConn} \cup ConnRecords]
    /\ level \in [Customers -> TenantStates]
    /\ counted \in [Customers -> Nat] /\ ordered \in [Customers -> Nat]
    /\ saw \subseteq Tasks /\ signed \subseteq Tasks
    /\ spent \in [arrivals : [Requests -> 0..MaxArrivals], releases : 0..MaxReleases, hedges : 0..1]

\* The requests inside a router never outnumber its slots (concurrency_limit).
PoolsAreBounded ==
    /\ Cardinality(Holding("sign")) <= SignCap
    /\ Cardinality(Holding("operator")) <= OperatorCap

\* A stop is final for what comes after it: whatever obtains a signature was, at
\* some moment since it arrived, asked of a tenant whose state lets it through,
\* whichever route, body or hedge it took and whatever the presses, releases,
\* slow bodies and timeouts next to it (tenant_state_mw, body_route_gate).
StopIsFinal == signed \subseteq saw

\* No order the gateway can read is signed without a charge: the requests of a
\* tenant that obtained a signature on an order are no more than its daily counter
\* says, also when handlers are dropped, answers are lost and hedges obtain two
\* signatures for one charge (order_gate).  Bodies of POST /sign for the other
\* venues are opaque and not counted.
OrdersAreCounted == \A c \in Customers : ordered[c] <= counted[c]

\* Every request of a hardened tier is answered, also when the enclave or a venue
\* never answers and when a client never sends its body (TimeoutLayer).
EveryRequestAnswered ==
    \A q \in Requests :
        (task[q] # NoTask /\ Tier(task[q].kind) \in Hardened) ~> task[q] = NoTask

\* A tenant's stop takes effect whatever else goes on: with every slot of the money
\* path taken, every connection of the enclave stuck, and no answer ever coming
\* (halt_router).
StopGoesThrough ==
    \A q \in Requests, c \in Customers :
        (task[q].at = "arriving" /\ task[q].kind = "halt" /\ task[q].cust = c
            /\ task[q].sends = "body")
            ~> (level[c] # Active)

=============================================================================
