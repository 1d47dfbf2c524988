------------------------------ MODULE Throttle ------------------------------
(***************************************************************************)
(* A request on its way through both throttles: the budget per minute of    *)
(* its bearer token at the gateway (RateWindows), then the token bucket of  *)
(* its sealed key in the enclave (RateLimiter).  On both sides a worker     *)
(* reads the clock first and takes the lock later, so that requests are     *)
(* decided in another order than their readings.                            *)
(***************************************************************************)
EXTENDS RateWindows, RateLimiter

CONSTANTS
    Workers,    \* requests in flight
    MaxAsks     \* bound: requests

VARIABLES
    clock,   \* the gateway's wall clock, in seconds; 0 when it is broken
    work,    \* work[r]: where the request is, and what it read there
    asks     \* bound: requests so far

vars == <<clock, work, asks, windowVars, limiterVars>>

Idle == [at |-> "idle"]

Init ==
    /\ clock \in {0, 1}
    /\ work = [r \in Workers |-> Idle]
    /\ asks = 0
    /\ WindowsInit
    /\ LimiterInit

\* The request reaches its budget and reads the wall clock; one that meets none
\* goes on to the enclave.
Ask(r, class, t, k) ==
    /\ work[r] = Idle
    /\ asks < MaxAsks
    /\ asks' = asks + 1
    /\ work' = [work EXCEPT ![r] =
                  IF BucketOf(class) = "none" THEN [at |-> "sent", key |-> k]
                  ELSE [at |-> "asking", b |-> BucketOf(class), t |-> t, key |-> k, secs |-> clock]]
    /\ UNCHANGED <<clock, windowVars, limiterVars>>

\* It gets the lock of the bucket.
Decide(r, ok) ==
    /\ work[r].at = "asking"
    /\ CheckBucket(work[r].b, work[r].t, work[r].secs, ok)
    /\ work' = [work EXCEPT ![r] = IF ok THEN [at |-> "sent", key |-> work[r].key] ELSE Idle]
    /\ UNCHANGED <<clock, asks, limiterVars>>

\* The enclave's handler calls the limiter, which reads the monotonic clock ...
Enter(r) ==
    /\ work[r].at = "sent"
    /\ work' = [work EXCEPT ![r] = [at |-> "entered", key |-> work[r].key, t |-> now]]
    /\ UNCHANGED <<clock, asks, windowVars, limiterVars>>

\* ... and then gets the lock.
Consume(r, ok) ==
    /\ work[r].at = "entered"
    /\ CheckKey(work[r].key, work[r].t, ok)
    /\ work' = [work EXCEPT ![r] = Idle]
    /\ UNCHANGED <<clock, asks, windowVars>>

\* The wall clock runs, or is set back by a step adjustment.
SetClock(secs) ==
    /\ secs # clock
    /\ clock' = secs
    /\ UNCHANGED <<work, asks, windowVars, limiterVars>>

Time == Tick /\ UNCHANGED <<clock, work, asks, windowVars>>

Next ==
    \/ \E r \in Workers :
        \/ \E class \in {"order", "cancel", "read"}, t \in Tokens, k \in Keys : Ask(r, class, t, k)
        \/ \E ok \in BOOLEAN : Decide(r, ok) \/ Consume(r, ok)
        \/ Enter(r)
    \/ \E secs \in {clock + 1, clock - 1} \cap Readings : SetClock(secs)
    \/ Time

Spec == Init /\ [][Next]_vars

-----------------------------------------------------------------------------

\* Every variable of both throttles holds a value of its type.
TypeOK ==
    /\ WindowsTypeOK /\ LimiterTypeOK
    /\ clock \in Readings
    /\ \A r \in Workers : work[r].at \in {"idle", "asking", "sent", "entered"}

=============================================================================
