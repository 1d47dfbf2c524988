---------------------------- MODULE DailyBudget ----------------------------
(***************************************************************************)
(* The two fail-closed per-UTC-day budgets of the gateway (limits.rs): the  *)
(* daily order counter (each order charges 1) and the cumulative x402 spend *)
(* (each transfer charges its value).  A request reads the clock, then      *)
(* waits for the mutex; under it the cached day state is resolved, charged  *)
(* and written through before the decision is released.                     *)
(*                                                                          *)
(* The clock may read anything: it may be stale when the mutex is finally   *)
(* taken, step backwards, or read 0 (broken).  Writes may fail, the gateway *)
(* may crash, and a host crash may undo the last rename (the directory      *)
(* fsync is best-effort).                                                   *)
(***************************************************************************)
EXTENDS Integers

CONSTANTS
    Keys,         \* hashed tokens, or hashed payer scopes
    Requests,     \* requests in the gate at one time
    Values,       \* what an x402 transfer may charge
    MaxValue,     \* the largest of them
    OrderCap,     \* SIGNER_DAILY_ORDER_CAP
    SpendCap,     \* SIGNER_X402_PERIOD_CAP
    SumLimit,     \* u128::MAX
    MaxDay,       \* bound: days 1 .. MaxDay; a clock reading of 0 is day 0
    DryRun,       \* SIGNER_LIMITS_DRY_RUN
    MaxCrashes    \* bound: gateway or host crashes

ASSUME BudgetAssumption ==
    /\ MaxValue \in Nat \ {0} /\ Values \subseteq 0..MaxValue
    /\ OrderCap \in Nat \ {0} /\ SpendCap \in Nat \ {0}
    /\ SumLimit \in Nat /\ MaxDay \in Nat
    /\ DryRun \in BOOLEAN /\ MaxCrashes \in Nat

Days == 0..MaxDay

VARIABLES
    kind,      \* which of the two budgets this is: each has its own lock and file
    cache,     \* the state under the mutex: a day and the sum of each key
    disk,      \* the state file; a missing file is an empty day 0
    prev,      \* the state file before the last rename
    up,        \* the gateway runs
    request,   \* request[r]: nothing, or what it asks and the day it read
    granted,   \* history: granted[k][d], what was allowed on day d
    slack,     \* history: what host crashes may have erased
    crashes

vars == <<kind, cache, disk, prev, up, request, granted, slack, crashes>>

Kinds == {"order", "x402"}

\* An order charges 1, a transfer its value.
Amounts == IF kind = "order" THEN {1} ELSE Values

Cap == IF kind = "order" THEN OrderCap ELSE SpendCap

Fresh(d) == [day |-> d, sums |-> [k \in Keys |-> 0]]

NoRequest == [at |-> "idle"]

Init ==
    /\ kind \in Kinds
    /\ disk = Fresh(0) /\ prev = Fresh(0) /\ cache = Fresh(0)
    /\ up = FALSE
    /\ request = [r \in Requests |-> NoRequest]
    /\ granted = [k \in Keys |-> [d \in Days |-> 0]]
    /\ slack = 0 /\ crashes = 0

\* order_gate and x402_spend_gate: the clock is read before the mutex is taken.
ReadClock(r, k, amount, d) ==
    /\ up
    /\ request[r] = NoRequest
    /\ request' = [request EXCEPT ![r] = [at |-> "waiting", key |-> k, amount |-> amount, day |-> d]]
    /\ UNCHANGED <<kind, cache, disk, prev, up, granted, slack, crashes>>

\* Mutated form of Resolvable: a cached day in the future is no obstacle.
ResolvableAlways(d) == d # 0

\* The clock is usable: not 0, and not before the day of the cached state.
Resolvable(d) == d # 0 /\ cache.day <= d

\* The cached state of that day, or a fresh one on a roll-over.
Resolve(d) == IF cache.day = d THEN cache ELSE Fresh(d)

\* check_and_count_order denies at the cap ...
OrderFits(sum) == sum < Cap

\* Mutated form of SpendFits: the sum wraps at u128 before it meets the cap.
SpendFitsWrapping(sum, amount) == (sum + amount) % (SumLimit + 1) <= Cap

\* ... check_and_count_x402_spend denies a sum over the cap, or past u128.
SpendFits(sum, amount) == sum + amount <= SumLimit /\ sum + amount <= Cap

Fits(sum, amount) == IF kind = "order" THEN OrderFits(sum) ELSE SpendFits(sum, amount)

\* In dry-run a sum over the cap is charged all the same; one past u128 is not.
Charges(sum, amount) ==
    Fits(sum, amount) \/ (DryRun /\ (kind = "order" \/ sum + amount <= SumLimit))

Finish(r, allowed) ==
    /\ request' = [request EXCEPT ![r] = NoRequest]
    /\ granted' = IF allowed
                  THEN [granted EXCEPT ![request[r].key][request[r].day] = @ + request[r].amount]
                  ELSE granted

\* Denied without a charge: broken clock, day in the past, cap or overflow.
Deny(r) ==
    /\ up
    /\ request[r] # NoRequest
    /\ LET q == request[r]
       IN \/ ~Resolvable(q.day) /\ UNCHANGED cache
          \/ /\ Resolvable(q.day)
             /\ ~Charges(Resolve(q.day).sums[q.key], q.amount)
             /\ cache' = Resolve(q.day)
    /\ Finish(r, DryRun)
    /\ UNCHANGED <<kind, disk, prev, up, slack, crashes>>

\* The write-through comes before the decision; a failed write denies, and the
\* charge stays in the cache.
Store(r, ok) ==
    /\ IF ok THEN disk' = cache' /\ prev' = disk ELSE UNCHANGED <<disk, prev>>
    /\ Finish(r, ok \/ DryRun)

Charge(r, ok) ==
    /\ up
    /\ request[r] # NoRequest
    /\ LET q == request[r]
           s == Resolve(q.day)
       IN /\ Resolvable(q.day)
          /\ Charges(s.sums[q.key], q.amount)
          /\ cache' = [s EXCEPT !.sums[q.key] = @ + q.amount]
    /\ Store(r, ok)
    /\ UNCHANGED <<kind, up, slack, crashes>>

\* The gateway process dies: the cache and the requests are gone.
Crash ==
    /\ up
    /\ crashes < MaxCrashes
    /\ up' = FALSE
    /\ request' = [r \in Requests |-> NoRequest]
    /\ crashes' = crashes + 1
    /\ UNCHANGED <<kind, cache, disk, prev, granted, slack>>

\* The host dies before the last rename reached the disk.
HostCrash ==
    /\ crashes < MaxCrashes
    /\ up' = FALSE
    /\ request' = [r \in Requests |-> NoRequest]
    /\ disk' = prev
    /\ slack' = slack + MaxValue
    /\ crashes' = crashes + 1
    /\ UNCHANGED <<kind, cache, prev, granted>>

\* Mutated form of Boot: a file from a day in the future is thrown away.
BootForgetting(d) ==
    /\ ~up
    /\ LET s == IF disk.day = d THEN disk ELSE Fresh(d)
       IN cache' = s /\ disk' = s
    /\ prev' = disk
    /\ up' = TRUE
    /\ UNCHANGED <<kind, request, granted, slack, crashes>>

\* boot_probe: load (a file from a day in the future fails the boot), write it
\* back (a failed write fails the boot), prime the cache.
Boot(d) ==
    /\ ~up
    /\ disk.day <= d
    /\ LET s == IF disk.day = d THEN disk ELSE Fresh(d)
       IN cache' = s /\ disk' = s
    /\ prev' = disk
    /\ up' = TRUE
    /\ UNCHANGED <<kind, request, granted, slack, crashes>>

Next ==
    \/ \E r \in Requests :
        \/ \E k \in Keys, amount \in Amounts, d \in Days : ReadClock(r, k, amount, d)
        \/ Deny(r)
        \/ \E ok \in BOOLEAN : Charge(r, ok)
    \/ Crash
    \/ HostCrash
    \/ \E d \in Days : Boot(d)

Spec == Init /\ [][Next]_vars

-----------------------------------------------------------------------------

States == [day : Days, sums : [Keys -> Nat]]

\* Every variable holds a value of its type.
TypeOK ==
    /\ kind \in Kinds
    /\ cache \in States /\ disk \in States /\ prev \in States
    /\ up \in BOOLEAN
    /\ request \in [Requests -> {NoRequest} \cup
                      [at : {"waiting"}, key : Keys, amount : Amounts, day : Days]]
    /\ granted \in [Keys -> [Days -> Nat]]
    /\ slack \in Nat /\ crashes \in 0..MaxCrashes

\* What a state file proves about day d: its own sum on its day, nothing later,
\* and a day that is over can be charged no more.
Accounted(s, k, d) == IF s.day = d THEN s.sums[k] ELSE IF s.day > d THEN Cap ELSE 0

\* Whatever the clock does, however requests interleave, whichever writes fail
\* and whenever the gateway restarts, no key is ever allowed more than the cap
\* on any day; a host crash costs at most the one charge whose rename it undid
\* (check_and_count_order, check_and_count_x402_spend, boot_probe).
CapHolds ==
    ~DryRun => \A k \in Keys, d \in Days : granted[k][d] <= Cap + slack

\* Grants are covered by the state file, so a restart never forgets one ...
FileCovers ==
    \A k \in Keys, d \in Days : granted[k][d] <= Accounted(disk, k, d) + slack

\* ... and by the file before the last rename, but for one charge.
PrevFileCovers ==
    \A k \in Keys, d \in Days : granted[k][d] <= Accounted(prev, k, d) + slack + MaxValue

\* The cache is never behind the file: neither in days nor, on one day, in sums.
CacheAhead ==
    up => /\ disk.day <= cache.day
          /\ disk.day = cache.day => \A k \in Keys : disk.sums[k] <= cache.sums[k]

WithinCap(s) == \A k \in Keys : s.sums[k] <= Cap

\* Why the cap holds: every grant is in the state file before it is released
\* (write-through before the decision), failed writes leave the charge in the
\* cache, and no stored sum passes the cap.  This is the inductive invariant of
\* the proof that CapHolds.
Covered ==
    ~DryRun => /\ FileCovers /\ PrevFileCovers /\ CacheAhead
               /\ WithinCap(cache) /\ WithinCap(disk) /\ WithinCap(prev)

\* Quota is never refilled within a day: while the gateway runs, the day of the
\* state it charges never moves back, and within a day no sum shrinks.
NeverRefilled ==
    [][up /\ up' => /\ cache'.day >= cache.day
                    /\ cache'.day = cache.day =>
                          \A k \in Keys : cache'.sums[k] >= cache.sums[k]]_vars

=============================================================================
