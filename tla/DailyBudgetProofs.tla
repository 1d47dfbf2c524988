------------------------- MODULE DailyBudgetProofs -------------------------
(***************************************************************************)
(* Proofs about DailyBudget, for every set of keys and requests, every cap, *)
(* every number of days and crashes.                                        *)
(***************************************************************************)
EXTENDS DailyBudget, TLAPS

\* What a pending request may hold (order_gate, x402_spend_gate).
LEMMA RequestType ==
    ASSUME TypeOK, NEW r \in Requests, request[r] # NoRequest
    PROVE  /\ request[r].key \in Keys /\ request[r].day \in Days
           /\ request[r].amount \in Nat /\ request[r].amount <= MaxValue
<1>1. request[r] \in [at : {"waiting"}, key : Keys, amount : Amounts, day : Days]
  BY DEF TypeOK
<1>2. request[r].amount \in 0..MaxValue
  <2>1. 1 \in 0..MaxValue
    BY BudgetAssumption
  <2>2. QED
    BY <1>1, <2>1, BudgetAssumption DEF Amounts
<1>3. QED
  BY <1>1, <1>2, BudgetAssumption

\* A resolved state is a state, and so is a charged one (Resolve).
LEMMA ResolveType ==
    ASSUME TypeOK, NEW d \in Days
    PROVE  Resolve(d) \in States /\ Resolve(d).day = d
BY DEF TypeOK, Resolve, Fresh, States

\* The bookkeeping of a finished request keeps its types (Finish).
LEMMA FinishType ==
    ASSUME TypeOK, NEW r \in Requests, request[r] # NoRequest, NEW b \in BOOLEAN, Finish(r, b)
    PROVE  /\ request' \in [Requests -> {NoRequest} \cup
                       [at : {"waiting"}, key : Keys, amount : Amounts, day : Days]]
           /\ granted' \in [Keys -> [Days -> Nat]]
<1>1. /\ request[r].key \in Keys /\ request[r].day \in Days
      /\ request[r].amount \in Nat
  BY RequestType
<1>2. request' \in [Requests -> {NoRequest} \cup
                       [at : {"waiting"}, key : Keys, amount : Amounts, day : Days]]
  BY DEF TypeOK, Finish
<1>3. ASSUME NEW k \in Keys, NEW d \in Days, NEW n \in Nat
      PROVE  [granted EXCEPT ![k][d] = @ + n] \in [Keys -> [Days -> Nat]]
  <2>1. [granted[k] EXCEPT ![d] = @ + n] \in [Days -> Nat]
    BY DEF TypeOK
  <2>2. QED
    BY <2>1 DEF TypeOK
<1>4. granted' \in [Keys -> [Days -> Nat]]
  <2>1. CASE b
    BY <1>1, <1>3, <2>1 DEF Finish
  <2>2. CASE ~b
    BY <2>2 DEF Finish, TypeOK
  <2>3. QED
    BY <2>1, <2>2
<1>5. QED
  BY <1>2, <1>4

\* Every reachable state is well typed.
THEOREM TypeCorrect == Spec => []TypeOK
<1>1. Init => TypeOK
  <2> SUFFICES ASSUME Init PROVE TypeOK
    OBVIOUS
  <2>1. 0 \in Days
    BY BudgetAssumption DEF Days
  <2>2. Fresh(0) \in States
    BY <2>1 DEF Fresh, States
  <2>3. crashes \in 0..MaxCrashes /\ slack \in Nat
    BY BudgetAssumption DEF Init
  <2>4. QED
    BY <2>1, <2>2, <2>3 DEF Init, TypeOK
<1>2. TypeOK /\ [Next]_vars => TypeOK'
  <2> SUFFICES ASSUME TypeOK, [Next]_vars PROVE TypeOK'
    OBVIOUS
  <2>1. ASSUME NEW r \in Requests, NEW k \in Keys, NEW amount \in Amounts, NEW d \in Days,
               ReadClock(r, k, amount, d)
        PROVE  TypeOK'
    BY <2>1, BudgetAssumption DEF ReadClock, TypeOK, Amounts, Cap, Kinds
  <2>2. ASSUME NEW r \in Requests, Deny(r) PROVE TypeOK'
    <3>1. request[r].day \in Days
      BY <2>2, RequestType DEF Deny
    <3>2. cache' \in States
      BY <2>2, <3>1, ResolveType DEF Deny, TypeOK
    <3>3. QED
      BY <2>2, <3>2, FinishType, BudgetAssumption DEF Deny, TypeOK, Amounts, Cap, Kinds
  <2>3. ASSUME NEW r \in Requests, NEW ok \in BOOLEAN, Charge(r, ok) PROVE TypeOK'
    <3>1. /\ request[r].day \in Days /\ request[r].key \in Keys
          /\ request[r].amount \in Nat
      BY <2>3, RequestType DEF Charge
    <3>2. cache' \in States
      <4>1. Resolve(request[r].day) \in States
        BY <3>1, ResolveType
      <4>2. QED
        BY <2>3, <3>1, <4>1 DEF Charge, States
    <3>3. disk' \in States /\ prev' \in States
      BY <2>3, <3>2 DEF Charge, Store, TypeOK
    <3>4. QED
      BY <2>3, <3>2, <3>3, FinishType, BudgetAssumption DEF Charge, Store, TypeOK, Amounts, Cap, Kinds
  <2>4. CASE Crash
    <3>1. crashes' \in 0..MaxCrashes /\ slack' \in Nat
      BY <2>4, BudgetAssumption DEF Crash, TypeOK
    <3>2. QED
      BY <2>4, <3>1 DEF Crash, TypeOK
  <2>5. CASE HostCrash
    <3>1. crashes' \in 0..MaxCrashes /\ slack' \in Nat
      BY <2>5, BudgetAssumption DEF HostCrash, TypeOK
    <3>2. QED
      BY <2>5, <3>1 DEF HostCrash, TypeOK
  <2>6. ASSUME NEW d \in Days, Boot(d) PROVE TypeOK'
    BY <2>6, BudgetAssumption DEF Boot, TypeOK, Fresh, States, Amounts, Cap, Kinds
  <2>7. CASE UNCHANGED vars
    BY <2>7, BudgetAssumption DEF vars, TypeOK, Amounts, Cap, Kinds
  <2>8. QED
    BY <2>1, <2>2, <2>3, <2>4, <2>5, <2>6, <2>7 DEF Next
<1>3. QED
  BY <1>1, <1>2, PTL DEF Spec

\* What a file accounts for is a natural number within the cap (Accounted).
LEMMA AccountedBound ==
    ASSUME NEW s \in States, WithinCap(s), NEW k \in Keys, NEW d \in Days
    PROVE  Accounted(s, k, d) \in Nat /\ Accounted(s, k, d) <= Cap
<1>1. s.day \in Nat /\ d \in Nat /\ s.sums[k] \in Nat /\ s.sums[k] <= Cap /\ Cap \in Nat
  BY BudgetAssumption DEF States, WithinCap, Days, Amounts, Cap, Kinds
<1>2. QED
  BY <1>1 DEF Accounted

\* A charge that fits keeps the key's sum within the cap, and resolving a day
\* never loses what the cache holds for that day (Resolve, Fits).
LEMMA ChargeWithinCap ==
    ASSUME TypeOK, ~DryRun, WithinCap(cache), NEW r \in Requests, NEW ok \in BOOLEAN,
           Charge(r, ok)
    PROVE  /\ WithinCap(cache')
           /\ cache' \in States
           /\ cache'.day = request[r].day
           /\ cache.day <= request[r].day
           /\ cache'.sums[request[r].key] =
                 Resolve(request[r].day).sums[request[r].key] + request[r].amount
           /\ \A k \in Keys : cache'.sums[k] >= Resolve(request[r].day).sums[k]
<1> DEFINE q == request[r]
           s == Resolve(q.day)
<1>1. q.key \in Keys /\ q.day \in Days /\ q.amount \in Nat
  BY RequestType DEF Charge
<1>2. s \in States /\ s.day = q.day
  BY <1>1, ResolveType
<1>3. cache' = [s EXCEPT !.sums[q.key] = @ + q.amount]
  BY DEF Charge
<1>4. cache'.day = q.day /\ cache'.sums = [s.sums EXCEPT ![q.key] = @ + q.amount]
  BY <1>2, <1>3 DEF States
<1>5. cache' \in States
  BY <1>1, <1>2, <1>3 DEF States
<1>6. s.sums[q.key] + q.amount <= Cap
  <2>1. Fits(s.sums[q.key], q.amount)
    BY DEF Charge, Charges
  <2>2. s.sums[q.key] \in Nat
    BY <1>1, <1>2 DEF States
  <2>3. CASE kind = "order"
    <3>1. q.amount = 1
      <4>1. q \in [at : {"waiting"}, key : Keys, amount : Amounts, day : Days]
        BY DEF TypeOK, Charge
      <4>2. QED
        BY <4>1, <2>3, BudgetAssumption DEF Amounts, Cap, Kinds
    <3>2. QED
      BY <2>1, <2>2, <2>3, <3>1, BudgetAssumption DEF Fits, OrderFits, Amounts, Cap, Kinds
  <2>4. CASE kind # "order"
    BY <2>1, <2>4 DEF Fits, SpendFits
  <2>5. QED
    BY <2>3, <2>4
<1>7. WithinCap(s)
  <2>1. CASE cache.day = q.day
    BY <2>1 DEF Resolve
  <2>2. CASE cache.day # q.day
    <3>1. s.sums = [k \in Keys |-> 0]
      BY <2>2 DEF Resolve, Fresh
    <3>2. \A k \in Keys : s.sums[k] = 0
      BY <3>1
    <3>3. 0 <= Cap
      BY BudgetAssumption DEF Amounts, Cap, Kinds
    <3>4. QED
      BY <3>2, <3>3 DEF WithinCap
  <2>3. QED
    BY <2>1, <2>2
<1>8. cache.day <= q.day
  BY DEF Charge, Resolvable
<1>9. ASSUME NEW k \in Keys PROVE cache'.sums[k] <= Cap /\ cache'.sums[k] >= s.sums[k]
  <2>1. s.sums[k] \in Nat /\ s.sums[k] <= Cap /\ s.sums \in [Keys -> Nat]
    BY <1>2, <1>7 DEF States, WithinCap
  <2>2. CASE k = q.key
    BY <1>1, <1>4, <1>6, <2>1, <2>2
  <2>3. CASE k # q.key
    BY <1>1, <1>4, <2>1, <2>3
  <2>4. QED
    BY <2>2, <2>3
<1>10. cache'.sums[q.key] = s.sums[q.key] + q.amount
  BY <1>1, <1>2, <1>4 DEF States
<1>11. QED
  BY <1>4, <1>5, <1>8, <1>9, <1>10 DEF WithinCap

\* What was granted before a charge is covered by the state the charge leaves,
\* and what it grants itself is its own amount (Charge).
LEMMA ChargeCovered ==
    ASSUME TypeOK, ~DryRun, Covered, NEW r \in Requests, NEW ok \in BOOLEAN, Charge(r, ok),
           NEW k \in Keys, NEW d \in Days
    PROVE  /\ granted[k][d] <= Accounted(cache', k, d) + slack
           /\ k = request[r].key /\ d = request[r].day =>
                 granted[k][d] + request[r].amount <= Accounted(cache', k, d) + slack
<1> DEFINE q == request[r]
           s == Resolve(q.day)
<1>1. q.key \in Keys /\ q.day \in Days /\ q.amount \in Nat
  BY RequestType DEF Charge
<1>2. /\ cache' \in States /\ WithinCap(cache') /\ cache'.day = q.day /\ cache.day <= q.day
      /\ cache'.sums[q.key] = s.sums[q.key] + q.amount
      /\ \A x \in Keys : cache'.sums[x] >= s.sums[x]
  BY ChargeWithinCap DEF Covered
<1>3. /\ cache.day \in Nat /\ disk.day \in Nat /\ d \in Nat /\ q.day \in Nat /\ slack \in Nat
      /\ cache.sums[k] \in Nat /\ disk.sums[k] \in Nat /\ granted[k][d] \in Nat
      /\ cache'.sums[k] \in Nat /\ s.sums[k] \in Nat
  <2>1. \A x \in Days : x \in Nat
    BY BudgetAssumption DEF Days
  <2>2. s \in States
    BY <1>1, ResolveType
  <2>3. /\ cache.day \in Days /\ disk.day \in Days /\ cache.sums[k] \in Nat
        /\ disk.sums[k] \in Nat /\ cache'.sums[k] \in Nat /\ s.sums[k] \in Nat
    BY <1>2, <2>2 DEF TypeOK, States
  <2>4. granted[k][d] \in Nat /\ slack \in Nat
    BY DEF TypeOK
  <2>5. QED
    BY <1>1, <2>1, <2>3, <2>4
<1>4. granted[k][d] <= Accounted(disk, k, d) + slack
  BY DEF Covered, FileCovers
<1>5. disk.day <= cache.day /\ (disk.day = cache.day => disk.sums[k] <= cache.sums[k])
  BY DEF Covered, CacheAhead, Charge
<1>6. Accounted(disk, k, d) \in Nat /\ Accounted(disk, k, d) <= Cap
  BY AccountedBound DEF TypeOK, Covered
<1>7. disk.day = q.day => disk.sums[k] <= s.sums[k]
  BY <1>2, <1>3, <1>5 DEF Resolve
<1>8. CASE d = q.day
  <2>1. Accounted(cache', k, d) = cache'.sums[k]
    BY <1>2, <1>8 DEF Accounted
  <2>2. Accounted(disk, k, d) <= s.sums[k]
    BY <1>2, <1>3, <1>5, <1>7, <1>8 DEF Accounted
  <2>3. QED
    BY <1>1, <1>2, <1>3, <1>4, <1>6, <2>1, <2>2
<1>9. CASE d < q.day
  <2>1. Accounted(cache', k, d) = Cap
    BY <1>2, <1>3, <1>9 DEF Accounted
  <2>2. QED
    BY <1>3, <1>4, <1>6, <1>9, <2>1, BudgetAssumption DEF Amounts, Cap, Kinds
<1>10. CASE d > q.day
  <2>1. Accounted(disk, k, d) = 0 /\ Accounted(cache', k, d) = 0
    BY <1>2, <1>3, <1>5, <1>10 DEF Accounted
  <2>2. QED
    BY <1>3, <1>4, <1>10, <2>1
<1>11. QED
  BY <1>3, <1>8, <1>9, <1>10

\* Which budget this is, and so its cap, never changes.
LEMMA KindFixed ==
    ASSUME [Next]_vars
    PROVE  kind' = kind /\ Cap' = Cap
<1>1. kind' = kind
  BY DEF Next, vars, ReadClock, Deny, Charge, Crash, HostCrash, Boot
<1>2. QED
  BY <1>1 DEF Cap

\* The bookkeeping behind the caps is kept by every step of the gateway.
THEOREM CoveredStep == TypeOK /\ TypeOK' /\ Covered /\ [Next]_vars => Covered'
<1> SUFFICES ASSUME TypeOK, TypeOK', Covered, ~DryRun, [Next]_vars
             PROVE  /\ FileCovers' /\ PrevFileCovers' /\ CacheAhead'
                    /\ WithinCap(cache') /\ WithinCap(disk') /\ WithinCap(prev')
  BY KindFixed DEF Covered, WithinCap
<1>9. kind' = kind /\ Cap' = Cap
  BY KindFixed
<1>0. /\ FileCovers /\ PrevFileCovers /\ CacheAhead
      /\ WithinCap(cache) /\ WithinCap(disk) /\ WithinCap(prev)
  BY DEF Covered
<1>1. ASSUME NEW r \in Requests, NEW k \in Keys, NEW amount \in Amounts, NEW d \in Days,
             ReadClock(r, k, amount, d)
      PROVE  Covered'
  BY <1>0, <1>1, <1>9 DEF ReadClock, Covered, FileCovers, PrevFileCovers, CacheAhead, WithinCap, Accounted
<1>2. ASSUME NEW r \in Requests, Deny(r) PROVE Covered'
  <2> DEFINE q == request[r]
  <2>1. q.day \in Days /\ q.key \in Keys
    BY <1>2, RequestType DEF Deny
  <2>2. UNCHANGED <<granted, disk, prev, slack, up>>
    BY <1>2 DEF Deny, Finish
  <2>3. FileCovers' /\ PrevFileCovers' /\ WithinCap(disk') /\ WithinCap(prev')
    BY <1>0, <2>2, <1>9 DEF FileCovers, PrevFileCovers, WithinCap, Accounted
  <2>4. CASE UNCHANGED cache
    BY <1>0, <2>2, <2>3, <2>4, <1>9 DEF CacheAhead, WithinCap, Covered
  <2>5. CASE Resolvable(q.day) /\ cache' = Resolve(q.day) /\ cache.day # q.day
    <3>1. cache' = Fresh(q.day)
      BY <2>5 DEF Resolve
    <3>2. WithinCap(cache')
      BY <3>1, BudgetAssumption DEF Fresh, WithinCap, Cap
    <3>3. cache.day \in Nat /\ disk.day \in Nat /\ q.day \in Nat /\ cache.day < q.day
      BY <2>1, <2>5, BudgetAssumption DEF TypeOK, States, Days, Resolvable
    <3>4. CacheAhead'
      BY <1>0, <2>2, <3>1, <3>3 DEF CacheAhead, Fresh
    <3>5. QED
      BY <2>3, <3>2, <3>4, <1>9 DEF Covered, WithinCap
  <2>6. QED
    BY <1>2, <2>4, <2>5 DEF Deny, Resolve
<1>3. ASSUME NEW r \in Requests, NEW ok \in BOOLEAN, Charge(r, ok) PROVE Covered'
  <2> DEFINE q == request[r]
             s == Resolve(q.day)
  <2>1. q.key \in Keys /\ q.day \in Days /\ q.amount \in Nat /\ q.amount <= MaxValue
    BY <1>3, RequestType DEF Charge
  <2>2. /\ cache' \in States /\ WithinCap(cache') /\ cache'.day = q.day /\ cache.day <= q.day
        /\ \A k \in Keys : cache'.sums[k] >= s.sums[k]
    BY <1>0, <1>3, ChargeWithinCap
  <2>3. UNCHANGED <<up, slack>>
    BY <1>3 DEF Charge
  <2>4. CASE ok
    <3>1. disk' = cache' /\ prev' = disk
      BY <1>3, <2>4 DEF Charge, Store
    <3>2. ASSUME NEW k \in Keys, NEW d \in Days
          PROVE  /\ granted'[k][d] <= Accounted(cache', k, d) + slack
                 /\ granted'[k][d] <= granted[k][d] + MaxValue
      <4>1. /\ granted[k][d] <= Accounted(cache', k, d) + slack
            /\ k = q.key /\ d = q.day =>
                  granted[k][d] + q.amount <= Accounted(cache', k, d) + slack
        BY <1>3, ChargeCovered
      <4>2. granted' = [granted EXCEPT ![q.key][q.day] = @ + q.amount]
        BY <1>3, <2>4 DEF Charge, Store, Finish
      <4>3. granted[k][d] \in Nat /\ granted \in [Keys -> [Days -> Nat]] /\ MaxValue \in Nat
        BY BudgetAssumption DEF TypeOK
      <4>4. granted'[k][d] = IF k = q.key /\ d = q.day THEN granted[k][d] + q.amount
                             ELSE granted[k][d]
        BY <2>1, <4>2, <4>3
      <4>5. QED
        BY <2>1, <4>1, <4>3, <4>4
    <3>3. FileCovers'
      BY <2>3, <3>1, <3>2, <1>9 DEF FileCovers, Accounted, WithinCap
    <3>4. PrevFileCovers'
      <4> SUFFICES ASSUME NEW k \in Keys, NEW d \in Days
                   PROVE  granted'[k][d] <= Accounted(disk, k, d) + slack + MaxValue
        BY <2>3, <3>1, <1>9 DEF PrevFileCovers, Accounted, WithinCap
      <4>1. granted[k][d] <= Accounted(disk, k, d) + slack
        BY <1>0 DEF FileCovers
      <4>2. granted[k][d] \in Nat /\ granted'[k][d] \in Nat /\ slack \in Nat /\ MaxValue \in Nat
        BY BudgetAssumption DEF TypeOK
      <4>3. Accounted(disk, k, d) \in Nat
        BY <1>0, AccountedBound DEF TypeOK
      <4>4. QED
        BY <3>2, <4>1, <4>2, <4>3
    <3>5. CacheAhead' /\ WithinCap(disk') /\ WithinCap(prev')
      <4>1. cache'.day \in Nat /\ \A k \in Keys : cache'.sums[k] \in Nat
        BY <2>2, BudgetAssumption DEF States, Days
      <4>2. QED
        BY <1>0, <2>2, <3>1, <4>1 DEF CacheAhead, WithinCap
    <3>6. QED
      BY <2>2, <3>3, <3>4, <3>5, <1>9 DEF Covered, WithinCap
  <2>5. CASE ~ok
    <3>1. UNCHANGED <<disk, prev, granted>>
      BY <1>3, <2>5 DEF Charge, Store, Finish
    <3>2. FileCovers' /\ PrevFileCovers' /\ WithinCap(disk') /\ WithinCap(prev')
      BY <1>0, <2>3, <3>1, <1>9 DEF FileCovers, PrevFileCovers, WithinCap, Accounted
    <3>3. CacheAhead'
      <4>1. /\ disk.day \in Nat /\ cache.day \in Nat /\ q.day \in Nat
            /\ \A k \in Keys : disk.sums[k] \in Nat /\ cache'.sums[k] \in Nat
        BY <2>1, <2>2, BudgetAssumption DEF TypeOK, States, Days
      <4>2. disk.day <= cache.day /\ (disk.day = cache.day => \A k \in Keys : disk.sums[k] <= cache.sums[k])
        BY <1>0, <1>3 DEF CacheAhead, Charge
      <4>3. disk.day = q.day => s = cache
        BY <2>2, <4>1, <4>2 DEF Resolve
      <4>4. \A k \in Keys : cache.sums[k] \in Nat
        BY DEF TypeOK, States
      <4>5. QED
        BY <2>2, <3>1, <4>1, <4>2, <4>3, <4>4 DEF CacheAhead
    <3>4. QED
      BY <2>2, <3>2, <3>3, <1>9 DEF Covered, WithinCap
  <2>6. QED
    BY <2>4, <2>5
<1>4. CASE Crash
  BY <1>0, <1>4, <1>9 DEF Crash, Covered, FileCovers, PrevFileCovers, CacheAhead, WithinCap, Accounted
<1>5. CASE HostCrash
  <2>1. disk' = prev /\ slack' = slack + MaxValue /\ ~up' /\ UNCHANGED <<cache, prev, granted>>
    BY <1>5 DEF HostCrash
  <2>2. CacheAhead' /\ WithinCap(cache') /\ WithinCap(disk') /\ WithinCap(prev')
    BY <1>0, <2>1 DEF CacheAhead, WithinCap
  <2>3. ASSUME NEW k \in Keys, NEW d \in Days
        PROVE  /\ granted[k][d] <= Accounted(prev, k, d) + (slack + MaxValue)
               /\ granted[k][d] <= Accounted(prev, k, d) + (slack + MaxValue) + MaxValue
    <3>1. granted[k][d] \in Nat /\ slack \in Nat /\ MaxValue \in Nat
      BY BudgetAssumption DEF TypeOK
    <3>2. Accounted(prev, k, d) \in Nat
      BY <1>0, AccountedBound DEF TypeOK
    <3>3. granted[k][d] <= Accounted(prev, k, d) + slack + MaxValue
      BY <1>0 DEF PrevFileCovers
    <3>4. QED
      BY <3>1, <3>2, <3>3
  <2>4. FileCovers' /\ PrevFileCovers'
    BY <2>1, <2>3, <1>9 DEF FileCovers, PrevFileCovers, Accounted, WithinCap
  <2>5. QED
    BY <2>2, <2>4 DEF Covered
<1>6. ASSUME NEW e \in Days, Boot(e) PROVE Covered'
  <2>1. /\ prev' = disk /\ disk' = cache' /\ UNCHANGED <<granted, slack>> /\ disk.day <= e
        /\ cache' = IF disk.day = e THEN disk ELSE Fresh(e)
    BY <1>6 DEF Boot
  <2>2. \A k \in Keys : cache'.sums[k] \in Nat /\ cache'.sums[k] <= Cap
    BY <1>0, <2>1, BudgetAssumption DEF WithinCap, Fresh, TypeOK, States, Cap
  <2>3. ASSUME NEW k \in Keys, NEW d \in Days
        PROVE  /\ granted[k][d] <= Accounted(cache', k, d) + slack
               /\ granted[k][d] <= Accounted(disk, k, d) + slack + MaxValue
    <3>1. granted[k][d] \in Nat /\ slack \in Nat /\ MaxValue \in Nat /\ Cap \in Nat
      BY BudgetAssumption DEF TypeOK, Cap
    <3>2. Accounted(disk, k, d) \in Nat /\ Accounted(disk, k, d) <= Cap
      BY <1>0, AccountedBound DEF TypeOK
    <3>3. granted[k][d] <= Accounted(disk, k, d) + slack
      BY <1>0 DEF FileCovers
    <3>4. d \in Nat /\ e \in Nat /\ disk.day \in Nat
      BY BudgetAssumption DEF Days, TypeOK, States
    <3>5. Accounted(disk, k, d) <= Accounted(cache', k, d)
      <4>1. CASE disk.day = e
        BY <2>1, <3>2, <4>1 DEF Accounted
      <4>2. CASE disk.day # e
        <5>1. cache'.day = e /\ cache'.sums[k] = 0
          BY <2>1, <4>2 DEF Fresh
        <5>2. QED
          BY <2>1, <3>2, <3>4, <4>2, <5>1 DEF Accounted
      <4>3. QED
        BY <4>1, <4>2
    <3>6. Accounted(cache', k, d) \in Nat
      BY <2>2, <3>1 DEF Accounted
    <3>7. QED
      BY <3>1, <3>2, <3>3, <3>5, <3>6
  <2>4. FileCovers' /\ PrevFileCovers'
    BY <2>1, <2>3, <1>9 DEF FileCovers, PrevFileCovers, Accounted, WithinCap
  <2>5. CacheAhead' /\ WithinCap(cache') /\ WithinCap(disk') /\ WithinCap(prev')
    <3>1. cache'.day \in Nat
      BY BudgetAssumption DEF TypeOK, States, Days
    <3>2. QED
      BY <1>0, <2>1, <2>2, <3>1 DEF CacheAhead, WithinCap
  <2>6. QED
    BY <2>4, <2>5, <1>9 DEF Covered, WithinCap
<1>7. CASE UNCHANGED vars
  BY <1>0, <1>7, <1>9 DEF vars, Covered, FileCovers, PrevFileCovers, CacheAhead, WithinCap, Accounted
<1>8. QED
  BY <1>1, <1>2, <1>3, <1>4, <1>5, <1>6, <1>7, <1>9 DEF Next, Covered, WithinCap

\* The bookkeeping behind the caps holds in every reachable state: every grant
\* is in the state file, and no stored sum passes the cap.
THEOREM AlwaysCovered == Spec => []Covered
<1>1. Init /\ TypeOK => Covered
  <2> SUFFICES ASSUME Init, TypeOK, ~DryRun PROVE Covered
    BY DEF Covered
  <2>1. \A k \in Keys : Fresh(0).sums[k] = 0
    BY DEF Fresh
  <2>2. WithinCap(cache) /\ WithinCap(disk) /\ WithinCap(prev)
    BY <2>1, BudgetAssumption DEF Init, WithinCap, Amounts, Cap, Kinds
  <2>3. ASSUME NEW k \in Keys, NEW d \in Days
        PROVE  granted[k][d] = 0 /\ Accounted(Fresh(0), k, d) \in Nat
    BY <2>1, BudgetAssumption DEF Init, Accounted, Amounts, Cap, Kinds
  <2>4. FileCovers /\ PrevFileCovers
    <3>1. slack = 0 /\ MaxValue \in Nat /\ disk = Fresh(0) /\ prev = Fresh(0)
      BY BudgetAssumption DEF Init
    <3>2. QED
      BY <2>3, <3>1 DEF FileCovers, PrevFileCovers
  <2>5. QED
    BY <2>2, <2>4 DEF Init, Covered, CacheAhead
<1>2. QED
  BY <1>1, TypeCorrect, CoveredStep, PTL DEF Spec

\* No key is ever allowed more than the cap on any day, for every cap, every
\* interleaving, every clock and every pattern of failed writes and crashes; a
\* host crash costs at most one charge (check_and_count_order,
\* check_and_count_x402_spend, boot_probe).
THEOREM CapTheorem == Spec => []CapHolds
<1>1. TypeOK /\ Covered => CapHolds
  <2> SUFFICES ASSUME TypeOK, Covered, ~DryRun, NEW k \in Keys, NEW d \in Days
               PROVE  granted[k][d] <= Cap + slack
    BY DEF CapHolds
  <2>1. granted[k][d] <= Accounted(disk, k, d) + slack /\ WithinCap(disk)
    BY DEF Covered, FileCovers
  <2>2. Accounted(disk, k, d) \in Nat /\ Accounted(disk, k, d) <= Cap
    BY <2>1, AccountedBound DEF TypeOK
  <2>3. granted[k][d] \in Nat /\ slack \in Nat /\ Cap \in Nat
    BY BudgetAssumption DEF TypeOK, Amounts, Cap, Kinds
  <2>4. QED
    BY <2>1, <2>2, <2>3
<1>2. QED
  BY <1>1, TypeCorrect, AlwaysCovered, PTL

\* Quota is never refilled within a day while the gateway runs, in dry-run and
\* out of it: the charged day never moves back and its sums never shrink
\* (the forward-only day rule of check_and_count_order).
THEOREM NeverRefilledTheorem == Spec => NeverRefilled
<1> DEFINE Keeps == up /\ up' => /\ cache'.day >= cache.day
                                 /\ cache'.day = cache.day =>
                                       \A k \in Keys : cache'.sums[k] >= cache.sums[k]
<1>1. TypeOK /\ TypeOK' /\ [Next]_vars => Keeps
  <2> SUFFICES ASSUME TypeOK, TypeOK', [Next]_vars, up, up'
               PROVE  /\ cache'.day >= cache.day
                      /\ cache'.day = cache.day =>
                            \A k \in Keys : cache'.sums[k] >= cache.sums[k]
    OBVIOUS
  <2>0. /\ cache.day \in Nat /\ cache'.day \in Nat
        /\ \A k \in Keys : cache.sums[k] \in Nat /\ cache'.sums[k] \in Nat
    BY BudgetAssumption DEF TypeOK, States, Days
  <2>1. CASE UNCHANGED cache
    BY <2>0, <2>1
  <2>2. ASSUME NEW r \in Requests, Resolvable(request[r].day), request[r] # NoRequest,
               cache' = Resolve(request[r].day)
        PROVE  cache'.day >= cache.day /\ (cache'.day = cache.day => cache' = cache)
    <3>1. request[r].day \in Days /\ Resolve(request[r].day).day = request[r].day
      BY <2>2, RequestType, ResolveType
    <3>2. QED
      BY <2>0, <2>2, <3>1 DEF Resolvable, Resolve
  <2>3. ASSUME NEW r \in Requests, NEW ok \in BOOLEAN, Charge(r, ok)
        PROVE  /\ cache'.day >= cache.day
               /\ cache'.day = cache.day =>
                     \A k \in Keys : cache'.sums[k] >= cache.sums[k]
    <3> DEFINE q == request[r]
               s == Resolve(q.day)
    <3>1. q.key \in Keys /\ q.day \in Days /\ q.amount \in Nat /\ cache.day <= q.day
      BY <2>3, RequestType DEF Charge, Resolvable
    <3>2. s \in States /\ s.day = q.day
      BY <3>1, ResolveType
    <3>3. cache'.day = q.day /\ cache'.sums = [s.sums EXCEPT ![q.key] = @ + q.amount]
      BY <2>3, <3>2 DEF Charge, States
    <3>4. cache.day = q.day => s = cache
      BY DEF Resolve
    <3>5. ASSUME NEW k \in Keys PROVE cache'.sums[k] >= s.sums[k]
      BY <3>1, <3>2, <3>3 DEF States
    <3>6. QED
      BY <2>0, <3>1, <3>3, <3>4, <3>5
  <2>4. ASSUME NEW r \in Requests, Deny(r)
        PROVE  \/ UNCHANGED cache
               \/ Resolvable(request[r].day) /\ request[r] # NoRequest
                    /\ cache' = Resolve(request[r].day)
    BY <2>4 DEF Deny
  <2>5. CASE \E r \in Requests : Deny(r)
    BY <2>0, <2>1, <2>2, <2>4, <2>5
  <2>6. CASE \E r \in Requests, ok \in BOOLEAN : Charge(r, ok)
    BY <2>3, <2>6
  <2>7. QED
    BY <2>1, <2>5, <2>6 DEF Next, vars, ReadClock, Crash, HostCrash, Boot
<1>2. QED
  BY <1>1, TypeCorrect, PTL DEF Spec, NeverRefilled

=============================================================================
