---------------------------- MODULE RateLimiter ----------------------------
(***************************************************************************)
(* The enclave's token buckets (rate_limiter.rs), one per sealed key.  At   *)
(* most MaxTracked keys are tracked; the oldest makes room for a new one    *)
(* and becomes a ghost, whose bucket comes back as it was.  Ghosts are      *)
(* forgotten in the order of ghost_order, whose entries stay behind when a  *)
(* ghost is restored.  The clock is read before the lock is taken.          *)
(***************************************************************************)
EXTENDS Integers, Sequences, FiniteSets

CONSTANTS
    Keys,
    Capacity,     \* SIGNER_RATE_LIMIT_CAPACITY
    Rate,         \* SIGNER_RATE_LIMIT_PER_SEC, per tick of the clock
    MaxTracked,   \* MAX_TRACKED_KEYS
    MaxNow        \* bound: ticks of the clock

ASSUME LimiterAssumption ==
    Capacity \in Nat /\ Rate \in Nat /\ MaxTracked \in Nat \ {0} /\ MaxNow \in Nat

VARIABLES
    now,         \* the monotonic clock
    bucket,      \* bucket[k]: the bucket of a tracked key or of a ghost
    tracked,     \* insertion_order
    live,        \* keys of the map `buckets`
    ghosts,      \* keys of the map `ghost`
    ghostOrder,  \* ghost_order
    granted,     \* history: grants of a key since its bucket was last full by default
    since,       \* history: when that was
    regress,     \* history: how far last_refill moved back since then
    evictions,   \* history: evictions so far
    evictedAt    \* history: their number when the key was last evicted, 0 for never

limiterVars == <<now, bucket, tracked, live, ghosts, ghostOrder, granted, since, regress,
                 evictions, evictedAt>>

LimiterInit ==
    /\ now = 0
    /\ bucket = [k \in Keys |-> [tokens |-> Capacity, last |-> 0]]
    /\ tracked = <<>> /\ live = {}
    /\ ghosts = {} /\ ghostOrder = <<>>
    /\ granted = [k \in Keys |-> 0]
    /\ since = [k \in Keys |-> 0]
    /\ regress = [k \in Keys |-> 0]
    /\ evictions = 0
    /\ evictedAt = [k \in Keys |-> 0]

Tick ==
    /\ now < MaxNow
    /\ now' = now + 1
    /\ UNCHANGED <<bucket, tracked, live, ghosts, ghostOrder, granted, since, regress, evictions, evictedAt>>

\* A new key meets a full map: the oldest key is moved to the ghosts.
Evicts(k) == k \notin live /\ Cardinality(live) >= MaxTracked /\ tracked # <<>>

\* Mutated form of Forgotten: the bound is off by one.
ForgottenEarly(k) ==
    IF Evicts(k) /\ ghostOrder # <<>> /\ Len(ghostOrder) >= MaxTracked - 1 THEN {Head(ghostOrder)} ELSE {}

\* The entry that makes room in ghost_order takes the ghost of its key with it.
Forgotten(k) ==
    IF Evicts(k) /\ Len(ghostOrder) >= MaxTracked THEN {Head(ghostOrder)} ELSE {}

\* Mutated form of OrderAfter: an entry is dropped only when a ghost is in the way.
OrderAfterLeaking(k) ==
    IF ~Evicts(k) THEN ghostOrder
    ELSE Append(IF Cardinality(ghosts) >= MaxTracked THEN Tail(ghostOrder) ELSE ghostOrder, Head(tracked))

OrderAfter(k) ==
    IF ~Evicts(k) THEN ghostOrder
    ELSE Append(IF Len(ghostOrder) >= MaxTracked THEN Tail(ghostOrder) ELSE ghostOrder, Head(tracked))

GhostsAfterEviction(k) == (ghosts \ Forgotten(k)) \cup (IF Evicts(k) THEN {Head(tracked)} ELSE {})

\* A key that is tracked, or comes back from the ghosts, keeps its bucket.
Known(k) == k \in live \/ k \in GhostsAfterEviction(k)

\* Mutated form of Found: a ghost comes back full.
FoundFull(k, t) == IF k \in live THEN bucket[k] ELSE [tokens |-> Capacity, last |-> t]

Found(k, t) == IF Known(k) THEN bucket[k] ELSE [tokens |-> Capacity, last |-> t]

\* Refilled for the time since last_refill; a reading from before it adds nothing.
Refilled(b, t) ==
    LET more == b.tokens + (IF t > b.last THEN Rate * (t - b.last) ELSE 0)
    IN [tokens |-> IF more < Capacity THEN more ELSE Capacity, last |-> t]

(***************************************************************************)
(* RateLimiter::check with a reading t of the clock; `ok` is its answer.    *)
(***************************************************************************)
CheckKey(k, t, ok) ==
    LET b == Refilled(Found(k, t), t)
        back == IF Found(k, t).last > t THEN Found(k, t).last - t ELSE 0
        one == IF ok THEN 1 ELSE 0
    IN /\ ok = (b.tokens >= 1)
       /\ bucket' = [bucket EXCEPT ![k] = [b EXCEPT !.tokens = @ - one]]
       /\ live' = (live \ (IF Evicts(k) THEN {Head(tracked)} ELSE {})) \cup {k}
       /\ tracked' = IF k \in live THEN tracked
                     ELSE Append(IF Evicts(k) THEN Tail(tracked) ELSE tracked, k)
       /\ ghosts' = IF k \in live THEN ghosts ELSE GhostsAfterEviction(k) \ {k}
       /\ ghostOrder' = OrderAfter(k)
       /\ granted' = [granted EXCEPT ![k] = (IF Known(k) THEN @ ELSE 0) + one]
       /\ since' = [since EXCEPT ![k] = IF Known(k) THEN @ ELSE t]
       /\ regress' = [regress EXCEPT ![k] = IF Known(k) THEN @ + back ELSE 0]
       /\ evictions' = IF Evicts(k) THEN evictions + 1 ELSE evictions
       /\ evictedAt' = IF Evicts(k) THEN [evictedAt EXCEPT ![Head(tracked)] = evictions + 1] ELSE evictedAt
       /\ UNCHANGED now

LimiterNext == Tick \/ \E k \in Keys, t \in 0..now, ok \in BOOLEAN : CheckKey(k, t, ok)

LimiterSpec == LimiterInit /\ [][LimiterNext]_limiterVars

-----------------------------------------------------------------------------

\* Types of the limiter.
LimiterTypeOK ==
    /\ now \in 0..MaxNow
    /\ bucket \in [Keys -> [tokens : 0..Capacity, last : 0..MaxNow]]
    /\ tracked \in Seq(Keys) /\ ghostOrder \in Seq(Keys)
    /\ live \subseteq Keys /\ ghosts \subseteq Keys
    /\ granted \in [Keys -> Nat] /\ since \in [Keys -> 0..MaxNow] /\ regress \in [Keys -> Nat]
    /\ evictions \in Nat /\ evictedAt \in [Keys -> Nat]

\* A key gets what its bucket allows, through evictions and restores: the grants
\* since the key was last taken for a new one are at most its capacity and the
\* rate times the time gone by; a stale reading that moved last_refill back may
\* refill that stretch once more (check).
GrantsAreBounded ==
    \A k \in live \cup ghosts :
        granted[k] + bucket[k].tokens
            <= Capacity + Rate * (bucket[k].last - since[k] + regress[k])

\* The limiter's memory is bounded and nothing leaks: at most MaxTracked keys and as
\* many entries for ghosts, each tracked key is in line for eviction exactly once
\* and each ghost in line to be forgotten, also after restores (check).
NothingLeaks ==
    /\ Len(tracked) <= MaxTracked /\ Len(ghostOrder) <= MaxTracked
    /\ live = {tracked[i] : i \in 1..Len(tracked)}
    /\ Cardinality(live) = Len(tracked)
    /\ ghosts \subseteq {ghostOrder[i] : i \in 1..Len(ghostOrder)}
    /\ live \cap ghosts = {}

\* An evicted key is known until as many evictions as ghosts fit have followed its
\* own: the entry of an earlier eviction does not cut its time short
\* (rate_limiter.rs, the discarded tombstones).
GhostsLastTheirTime ==
    \A k \in Keys : (evictedAt[k] > 0 /\ evictions - evictedAt[k] < MaxTracked)
                        => k \in live \cup ghosts

=============================================================================
