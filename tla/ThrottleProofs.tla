--------------------------- MODULE ThrottleProofs ---------------------------
(***************************************************************************)
(* What both throttles grant, for any number of tokens, keys, workers and   *)
(* clock steps, with readings that are stale by any amount.                 *)
(*                                                                          *)
(* WindowBound is not inductive: a window is opened again after a stale     *)
(* check moved its entry back, and the bound for the window that will be    *)
(* opened has to hold before.  EntryBounds says what every window has been  *)
(* charged against: the newest one, once it was left, only by late checks.  *)
(***************************************************************************)
EXTENDS Throttle, FiniteSetTheorems, TLAPS

-----------------------------------------------------------------------------
(* Types.                                                                   *)

Work ==
    {Idle} \union [at : {"asking"}, b : Buckets, t : Tokens, key : Keys, secs : Readings]
           \union [at : {"sent"}, key : Keys]
           \union [at : {"entered"}, key : Keys, t : Nat]

\* The part of both throttles' state the bounds speak of.
Typed ==
    /\ now \in Nat /\ clock \in Readings
    /\ work \in [Workers -> Work]
    /\ config \in Configs
    /\ window \in [Buckets -> [Tokens -> [win : Windows, n : Nat]]]
    /\ admitted \in [Buckets -> [Tokens -> [Windows -> Nat]]]
    /\ late \in [Buckets -> [Tokens -> Nat]]
    /\ newest \in [Buckets -> [Tokens -> Windows]]
    /\ bucket \in [Keys -> [tokens : Nat, last : Nat]]
    /\ granted \in [Keys -> Nat] /\ since \in [Keys -> Nat] /\ regress \in [Keys -> Nat]

\* A window is a natural number.
LEMMA WindowsAreNat ==
    /\ Windows \subseteq Nat
    /\ \A secs \in Readings : WindowOf(secs) \in Windows
    /\ 0 \in Windows
<1>1. ASSUME NEW secs \in Readings
      PROVE  WindowOf(secs) \in Nat
  BY WindowsAssumption DEF Readings, WindowOf
<1>2. WindowOf(0) = 0
  BY WindowsAssumption DEF WindowOf
<1>3. 0 \in Readings
  BY WindowsAssumption DEF Readings
<1> QED
  BY <1>1, <1>2, <1>3 DEF Windows

-----------------------------------------------------------------------------
(* The gateway's windows.                                                   *)

\* One entry: its cap c, the entry e, what each window admitted, the grants p that
\* late checks account for, the newest window.
Bounded(c, e, adm, p, new) ==
    /\ e.win <= new /\ e.n <= c
    /\ e.n <= adm[e.win] /\ adm[e.win] <= p + e.n
    /\ e.win < new => adm[new] <= p
    /\ \A w \in Windows : w > new => adm[w] = 0
    /\ \A w \in Windows : adm[w] <= p + c

EntryBounds ==
    \A b \in Buckets, t \in Tokens :
        Caps[b] # NoCap =>
            Bounded(Caps[b], window[b][t], admitted[b][t], Caps[b] * late[b][t], newest[b][t])

\* A check opens its window; a late one pays for it with one more cap.
LEMMA OpenKeepsBounds ==
    ASSUME NEW c \in Nat, NEW e \in [win : Windows, n : Nat], NEW adm \in [Windows -> Nat],
           NEW p \in Nat, NEW new \in Windows, NEW w \in Windows,
           Bounded(c, e, adm, p, new)
    PROVE  /\ Opened(e, w) \in [win : Windows, n : Nat] /\ Opened(e, w).win = w
           /\ Bounded(c, Opened(e, w), adm, IF w < new THEN p + c ELSE p, IF w > new THEN w ELSE new)
<1> DEFINE q == IF w < new THEN p + c ELSE p
           top == IF w > new THEN w ELSE new
           o == Opened(e, w)
<1>1. o \in [win : Windows, n : Nat] /\ o.win = w
  BY DEF Opened
<1>2. /\ Windows \subseteq Nat /\ w \in Nat /\ new \in Nat /\ e.win \in Nat /\ e.n \in Nat
      /\ \A x \in Windows : adm[x] \in Nat
  BY WindowsAreNat
<1>3. q \in Nat /\ p <= q /\ top \in Windows /\ new <= top /\ w <= top
  BY <1>2
<1>4. CASE e.win = w
  <2>1. o = e
    BY <1>4 DEF Opened
  <2>2. top = new
    BY <1>2, <1>4 DEF Bounded
  <2> QED
    BY <1>1, <1>2, <1>3, <2>1, <2>2 DEF Bounded
<1>5. CASE e.win # w
  <2>1. o.n = 0 /\ o.n <= c /\ o.n <= adm[w]
    BY <1>2, <1>5 DEF Opened
  <2>2. adm[w] <= q + o.n
    <3>1. CASE w < new
      BY <1>2, <2>1, <3>1 DEF Bounded
    <3>2. CASE w = new
      BY <1>2, <1>5, <2>1, <3>2 DEF Bounded
    <3>3. CASE w > new
      BY <1>2, <2>1, <3>3 DEF Bounded
    <3> QED
      BY <1>2, <3>1, <3>2, <3>3
  <2>3. w < top => adm[top] <= q
    BY <1>2, <1>3 DEF Bounded
  <2>4. \A x \in Windows : x > top => adm[x] = 0
    BY <1>2, <1>3 DEF Bounded
  <2>5. \A x \in Windows : adm[x] <= q + c
    BY <1>2, <1>3 DEF Bounded
  <2> QED
    BY <1>1, <1>3, <2>1, <2>2, <2>3, <2>4, <2>5 DEF Bounded
<1> QED
  BY <1>4, <1>5

\* A charge to the window that is open.
LEMMA ChargeKeepsBounds ==
    ASSUME NEW c \in Nat, NEW e \in [win : Windows, n : Nat], NEW adm \in [Windows -> Nat],
           NEW p \in Nat, NEW new \in Windows,
           Bounded(c, e, adm, p, new), e.n < c
    PROVE  Bounded(c, [win |-> e.win, n |-> e.n + 1], [adm EXCEPT ![e.win] = @ + 1], p, new)
<1>1. /\ Windows \subseteq Nat /\ e.win \in Windows /\ e.n \in Nat
      /\ \A x \in Windows : adm[x] \in Nat
  BY WindowsAreNat
<1> DEFINE f == [win |-> e.win, n |-> e.n + 1]
           adm2 == [adm EXCEPT ![e.win] = @ + 1]
<1>2. /\ adm2[e.win] = adm[e.win] + 1
      /\ \A x \in Windows : x # e.win => adm2[x] = adm[x]
  BY <1>1
<1>3. new \in Nat /\ f.win = e.win /\ f.n = e.n + 1
  BY <1>1
<1> HIDE DEF f, adm2
<1>4. f.win <= new /\ f.n <= c /\ f.n <= adm2[f.win] /\ adm2[f.win] <= p + f.n
  <2>1. e.win <= new /\ e.n <= adm[e.win] /\ adm[e.win] <= p + e.n
    BY DEF Bounded
  <2>2. e.win \in Nat /\ adm[e.win] \in Nat /\ adm2[f.win] = adm[e.win] + 1
    BY <1>1, <1>2, <1>3
  <2>3. f.n <= c
    BY <1>1, <1>3
  <2> QED
    BY <1>1, <1>3, <2>1, <2>2, <2>3
<1>5. f.win < new => adm2[new] <= p
  BY <1>1, <1>2, <1>3 DEF Bounded
<1>6. \A x \in Windows : x > new => adm2[x] = 0
  BY <1>1, <1>2, <1>3 DEF Bounded
<1>7. \A x \in Windows : adm2[x] <= p + c
  BY <1>1, <1>2, <1>3, <1>4 DEF Bounded
<1>8. Bounded(c, f, adm2, p, new)
  BY <1>4, <1>5, <1>6, <1>7 DEF Bounded
<1> QED
  BY <1>8 DEF f, adm2

\* One more late check is one more cap.
LEMMA OneMore ==
    ASSUME NEW c \in Nat, NEW l \in Nat
    PROVE  c * l \in Nat /\ c * (l + 1) = c * l + c
  OBVIOUS

\* A bucket that denies has a cap, and the token has used it up.
Earned ==
    \A b \in Buckets, t \in Tokens, w \in Windows :
        <<b, t, w>> \in denied => Caps[b] # NoCap /\ admitted[b][t][w] >= Caps[b]

\* check_bucket keeps the types of the budgets, their bounds and the reasons for
\* denials.
LEMMA CheckBucketStep ==
    ASSUME Typed, EntryBounds, Earned,
           NEW b \in Buckets, NEW t \in Tokens, NEW secs \in Readings, NEW ok \in BOOLEAN,
           CheckBucket(b, t, secs, ok)
    PROVE  /\ config' \in Configs
           /\ window' \in [Buckets -> [Tokens -> [win : Windows, n : Nat]]]
           /\ admitted' \in [Buckets -> [Tokens -> [Windows -> Nat]]]
           /\ late' \in [Buckets -> [Tokens -> Nat]]
           /\ newest' \in [Buckets -> [Tokens -> Windows]]
           /\ EntryBounds' /\ Earned'
<1> DEFINE w == WindowOf(secs)
           c == Caps[b]
           e == Opened(window[b][t], w)
<1>1. CASE Same
  BY <1>1 DEF Same, windowVars, Typed, EntryBounds, Earned, Caps
<1>2. CASE ~Same
  <2>1. /\ c # NoCap
        /\ newest' = [newest EXCEPT ![b][t] = IF w > @ THEN w ELSE @]
        /\ late' = [late EXCEPT ![b][t] = IF w < newest[b][t] THEN @ + 1 ELSE @]
        /\ config' = config
        /\ (HasRoom(b, t, w) /\ Charged(b, t, w)) \/ (~HasRoom(b, t, w) /\ AtCap(b, t, w))
    BY <1>2 DEF CheckBucket
  <2>2. c \in Nat \ {0}
    BY <2>1, WindowsAssumption DEF Typed, Configurable, Caps
  <2>3. w \in Windows /\ w \in Nat /\ Windows \subseteq Nat
    BY WindowsAreNat
  <2>4. /\ window[b][t] \in [win : Windows, n : Nat]
        /\ admitted[b][t] \in [Windows -> Nat]
        /\ late[b][t] \in Nat /\ newest[b][t] \in Windows
    BY DEF Typed
  <2>5. /\ newest' \in [Buckets -> [Tokens -> Windows]]
        /\ late' \in [Buckets -> [Tokens -> Nat]]
        /\ config' \in Configs /\ Caps' = Caps
    BY <2>1, <2>3, <2>4 DEF Typed, Caps
  <2>6. /\ newest'[b][t] = IF w > newest[b][t] THEN w ELSE newest[b][t]
        /\ late'[b][t] = IF w < newest[b][t] THEN late[b][t] + 1 ELSE late[b][t]
    BY <2>1 DEF Typed
  <2> DEFINE p == c * late[b][t]
             q == c * late'[b][t]
  <2>7. p \in Nat /\ q = IF w < newest[b][t] THEN p + c ELSE p
    <3>1. c * late[b][t] \in Nat /\ c * (late[b][t] + 1) = c * late[b][t] + c
      BY <2>2, <2>4, OneMore
    <3> QED
      BY <2>6, <3>1
  <2>8. Bounded(c, window[b][t], admitted[b][t], p, newest[b][t])
    BY <2>1 DEF EntryBounds
  <2>9. /\ e \in [win : Windows, n : Nat] /\ e.win = w
        /\ Bounded(c, e, admitted[b][t], q, newest'[b][t])
    <3> HIDE DEF c, w, p, q
    <3>1. /\ e \in [win : Windows, n : Nat] /\ e.win = w
          /\ Bounded(c, e, admitted[b][t], IF w < newest[b][t] THEN p + c ELSE p,
                     IF w > newest[b][t] THEN w ELSE newest[b][t])
      BY <2>2, <2>3, <2>4, <2>7, <2>8, OpenKeepsBounds
    <3> QED
      BY <3>1, <2>6, <2>7
  <2>10. ASSUME NEW x \in Buckets, NEW y \in Tokens, x # b \/ y # t,
                window'[x][y] = window[x][y], admitted'[x][y] = admitted[x][y]
         PROVE  Caps'[x] # NoCap =>
                   Bounded(Caps'[x], window'[x][y], admitted'[x][y], Caps'[x] * late'[x][y], newest'[x][y])
    <3>1. late'[x][y] = late[x][y] /\ newest'[x][y] = newest[x][y]
      BY <2>1, <2>10 DEF Typed
    <3> QED
      BY <2>5, <2>10, <3>1 DEF EntryBounds
  <2>11. CASE HasRoom(b, t, w) /\ Charged(b, t, w)
    <3>1. /\ window' = [window EXCEPT ![b][t] = [win |-> w, n |-> e.n + 1]]
          /\ admitted' = [admitted EXCEPT ![b][t][w] = @ + 1]
          /\ denied' = denied /\ e.n < c
      BY <2>11 DEF Charged, HasRoom
    <3>2. /\ window' \in [Buckets -> [Tokens -> [win : Windows, n : Nat]]]
          /\ admitted' \in [Buckets -> [Tokens -> [Windows -> Nat]]]
      BY <2>3, <2>4, <2>9, <3>1 DEF Typed
    <3>3. /\ window'[b][t] = [win |-> w, n |-> e.n + 1]
          /\ admitted'[b][t] = [admitted[b][t] EXCEPT ![w] = @ + 1]
      BY <3>1 DEF Typed
    <3>4. ASSUME NEW x \in Buckets, NEW y \in Tokens, x # b \/ y # t
          PROVE  window'[x][y] = window[x][y] /\ admitted'[x][y] = admitted[x][y]
      BY <3>1, <3>4 DEF Typed
    <3>5. Bounded(c, window'[b][t], admitted'[b][t], q, newest'[b][t])
      <4>1. q \in Nat /\ newest'[b][t] \in Windows
        BY <2>2, <2>5, <2>7
      <4> HIDE DEF c, e, w, q
      <4> QED
        BY <2>2, <2>4, <2>9, <3>1, <3>3, <4>1, ChargeKeepsBounds
    <3>6. EntryBounds'
      BY <2>5, <2>10, <3>4, <3>5 DEF EntryBounds
    <3>7. \A x \in Buckets, y \in Tokens, z \in Windows :
             admitted'[x][y][z] \in Nat /\ admitted'[x][y][z] >= admitted[x][y][z]
      BY <2>3, <2>4, <3>1 DEF Typed
    <3>8. Earned'
      <4> SUFFICES ASSUME NEW x \in Buckets, NEW y \in Tokens, NEW z \in Windows, <<x, y, z>> \in denied
                   PROVE  Caps[x] # NoCap /\ admitted'[x][y][z] >= Caps[x]
        BY <2>5, <3>1 DEF Earned
      <4>1. Caps[x] # NoCap /\ admitted[x][y][z] >= Caps[x]
        BY DEF Earned
      <4>2. Caps[x] \in Nat
        BY <4>1, WindowsAssumption DEF Typed, Configurable, Caps
      <4>3. admitted[x][y][z] \in Nat
        BY DEF Typed
      <4> QED
        BY <3>7, <4>1, <4>2, <4>3
    <3> QED
      BY <2>5, <3>2, <3>6, <3>8
  <2>12. CASE ~HasRoom(b, t, w) /\ AtCap(b, t, w)
    <3>1. /\ window' = [window EXCEPT ![b][t] = e]
          /\ admitted' = admitted
          /\ denied' \in {denied, denied \cup {<<b, t, w>>}}
          /\ ~(e.n < c)
      BY <2>12 DEF AtCap, HasRoom
    <3>2. window' \in [Buckets -> [Tokens -> [win : Windows, n : Nat]]]
      BY <2>4, <2>9, <3>1 DEF Typed
    <3>3. window'[b][t] = e /\ admitted'[b][t] = admitted[b][t]
      BY <3>1 DEF Typed
    <3>4. ASSUME NEW x \in Buckets, NEW y \in Tokens, x # b \/ y # t
          PROVE  window'[x][y] = window[x][y] /\ admitted'[x][y] = admitted[x][y]
      BY <3>1, <3>4 DEF Typed
    <3>5. EntryBounds'
      BY <2>5, <2>9, <2>10, <3>3, <3>4 DEF EntryBounds
    <3>6. admitted[b][t][w] >= c
      BY <2>2, <2>3, <2>4, <2>9, <3>1 DEF Bounded
    <3>7. Earned'
      BY <2>1, <2>5, <3>1, <3>6 DEF Earned
    <3> QED
      BY <2>5, <3>1, <3>2, <3>5, <3>7 DEF Typed
  <2> QED
    BY <2>1, <2>11, <2>12
<1> QED
  BY <1>1, <1>2

-----------------------------------------------------------------------------
(* The enclave's buckets.                                                   *)

\* GrantsAreBounded, also for the keys the limiter has forgotten.
KeyBounds ==
    \A k \in Keys :
        granted[k] + bucket[k].tokens <= Capacity + Rate * (bucket[k].last - since[k] + regress[k])

\* The time gone by adds up.
LEMMA Distributes ==
    ASSUME NEW r \in Nat, NEW x \in Int, NEW d \in Nat
    PROVE  r * d \in Nat /\ r * x \in Int /\ r * (x + d) = r * x + r * d /\ r * 0 = 0
  OBVIOUS

\* What a reading adds to a bucket, later or earlier than the last one, is paid for
\* by the time gone by and by how far the bucket's own time moved back.
LEMMA RefillIsPaid ==
    ASSUME NEW b \in [tokens : Nat, last : Nat], NEW t \in Nat,
           NEW g \in Nat, NEW s \in Nat, NEW back \in Nat,
           g + b.tokens <= Capacity + Rate * (b.last - s + back)
    PROVE  /\ Refilled(b, t) \in [tokens : Nat, last : Nat] /\ Refilled(b, t).last = t
           /\ g + Refilled(b, t).tokens
                 <= Capacity + Rate * (t - s + (back + IF b.last > t THEN b.last - t ELSE 0))
<1>1. Capacity \in Nat /\ Rate \in Nat /\ b.tokens \in Nat /\ b.last \in Nat
  BY LimiterAssumption
<1> DEFINE x == b.last - s + back
<1>2. x \in Int
  BY <1>1
<1>3. CASE t > b.last
  <2> DEFINE d == t - b.last
             more == b.tokens + Rate * d
  <2>1. d \in Nat /\ t - s + (back + IF b.last > t THEN b.last - t ELSE 0) = x + d
    BY <1>1, <1>3
  <2>2. Rate * d \in Nat /\ Rate * x \in Int /\ Rate * (x + d) = Rate * x + Rate * d
    BY <1>1, <1>2, <2>1, Distributes
  <2>3. Refilled(b, t) = [tokens |-> IF more < Capacity THEN more ELSE Capacity, last |-> t]
    BY <1>3 DEF Refilled
  <2>4. Refilled(b, t).tokens \in Nat /\ Refilled(b, t).tokens <= b.tokens + Rate * d
    BY <1>1, <2>2, <2>3
  <2>5. g + Refilled(b, t).tokens <= Capacity + Rate * (x + d)
    <3>1. g + b.tokens <= Capacity + Rate * x
      OBVIOUS
    <3> HIDE DEF x, d
    <3> QED
      BY <1>1, <2>2, <2>4, <3>1
  <2> QED
    BY <2>1, <2>3, <2>4, <2>5
<1>4. CASE ~(t > b.last)
  <2>1. t - s + (back + IF b.last > t THEN b.last - t ELSE 0) = x
    BY <1>1, <1>4
  <2>2. Refilled(b, t) = [tokens |-> IF b.tokens < Capacity THEN b.tokens ELSE Capacity, last |-> t]
    BY <1>1, <1>4 DEF Refilled
  <2>3. Refilled(b, t).tokens \in Nat /\ Refilled(b, t).tokens <= b.tokens
    BY <1>1, <2>2
  <2>4. Rate * x \in Int
    BY <1>1, <1>2, Distributes
  <2>5. g + Refilled(b, t).tokens <= Capacity + Rate * x
    <3>1. g + b.tokens <= Capacity + Rate * x
      OBVIOUS
    <3> HIDE DEF x
    <3> QED
      BY <1>1, <2>3, <2>4, <3>1
  <2> QED
    BY <2>1, <2>2, <2>3, <2>5
<1> QED
  BY <1>3, <1>4

\* RateLimiter::check keeps the bound of every key, whether the key is tracked, comes
\* back or is new, and whoever is evicted for it.
LEMMA CheckKeyStep ==
    ASSUME Typed, KeyBounds, NEW k \in Keys, NEW t \in Nat, NEW ok \in BOOLEAN, CheckKey(k, t, ok)
    PROVE  /\ bucket' \in [Keys -> [tokens : Nat, last : Nat]]
           /\ granted' \in [Keys -> Nat] /\ since' \in [Keys -> Nat] /\ regress' \in [Keys -> Nat]
           /\ now' = now
           /\ KeyBounds'
<1> DEFINE f == Found(k, t)
           b == Refilled(f, t)
           back == IF f.last > t THEN f.last - t ELSE 0
           one == IF ok THEN 1 ELSE 0
           g == IF Known(k) THEN granted[k] ELSE 0
           s == IF Known(k) THEN since[k] ELSE t
           r == IF Known(k) THEN regress[k] ELSE 0
<1>1. /\ ok = (b.tokens >= 1)
      /\ bucket' = [bucket EXCEPT ![k] = [b EXCEPT !.tokens = @ - one]]
      /\ granted' = [granted EXCEPT ![k] = (IF Known(k) THEN @ ELSE 0) + one]
      /\ since' = [since EXCEPT ![k] = IF Known(k) THEN @ ELSE t]
      /\ regress' = [regress EXCEPT ![k] = IF Known(k) THEN @ + back ELSE 0]
      /\ now' = now
  BY DEF CheckKey
<1>2. /\ bucket[k] \in [tokens : Nat, last : Nat]
      /\ granted[k] \in Nat /\ since[k] \in Nat /\ regress[k] \in Nat
      /\ Capacity \in Nat /\ Rate \in Nat
  BY LimiterAssumption DEF Typed
<1>3. /\ f \in [tokens : Nat, last : Nat]
      /\ g \in Nat /\ s \in Nat /\ r \in Nat /\ back \in Nat /\ one \in {0, 1}
      /\ f.last \in Nat
  BY <1>2 DEF Found
<1>4. g + f.tokens <= Capacity + Rate * (f.last - s + r)
  <2>1. CASE Known(k)
    <3>1. granted[k] + bucket[k].tokens <= Capacity + Rate * (bucket[k].last - since[k] + regress[k])
      BY DEF KeyBounds
    <3> QED
      BY <2>1, <3>1 DEF Found
  <2>2. CASE ~Known(k)
    <3>1. f = [tokens |-> Capacity, last |-> t] /\ g = 0 /\ f.last - s + r = 0
      BY <2>2, <1>2 DEF Found
    <3>2. Rate * 0 = 0
      BY <1>2, Distributes
    <3> HIDE DEF f, g, s, r
    <3> QED
      BY <1>2, <3>1, <3>2
  <2> QED
    BY <2>1, <2>2
<1>5. /\ b \in [tokens : Nat, last : Nat] /\ b.last = t
      /\ g + b.tokens <= Capacity + Rate * (t - s + (r + back))
  <2> HIDE DEF f, g, s, r
  <2> QED
    BY <1>3, <1>4, RefillIsPaid
<1>6. ~Known(k) => back = 0 /\ r = 0
  BY <1>2 DEF Found
<1>7. /\ bucket'[k] = [tokens |-> b.tokens - one, last |-> t]
      /\ granted'[k] = g + one /\ since'[k] = s /\ regress'[k] = r + back
  <2>1. [b EXCEPT !.tokens = @ - one] = [tokens |-> b.tokens - one, last |-> t]
    <3> HIDE DEF b, one
    <3> QED
      BY <1>5
  <2>2. bucket'[k] = [b EXCEPT !.tokens = @ - one]
    BY <1>1 DEF Typed
  <2>3. granted'[k] = g + one /\ since'[k] = s /\ regress'[k] = IF Known(k) THEN regress[k] + back ELSE 0
    BY <1>1 DEF Typed
  <2>4. regress'[k] = r + back
    BY <1>2, <1>3, <1>6, <2>3
  <2> QED
    BY <2>1, <2>2, <2>3, <2>4
<1>8. \A x \in Keys : x # k => /\ bucket'[x] = bucket[x] /\ granted'[x] = granted[x]
                               /\ since'[x] = since[x] /\ regress'[x] = regress[x]
  BY <1>1 DEF Typed
<1>9. b.tokens - one \in Nat
  <2>1. b.tokens \in Nat
    BY <1>5
  <2>2. ok => b.tokens >= 1
    <3>1. ok = (b.tokens >= 1)
      BY <1>1
    <3> HIDE DEF b
    <3> QED
      BY <3>1, Zenon
  <2>3. (ok => one = 1) /\ (~ok => one = 0)
    OBVIOUS
  <2> HIDE DEF b, one
  <2>4. CASE ok
    BY <2>1, <2>2, <2>3, <2>4
  <2>5. CASE ~ok
    BY <2>1, <2>3, <2>5
  <2> QED
    BY <2>4, <2>5
<1>10. /\ bucket' \in [Keys -> [tokens : Nat, last : Nat]]
       /\ granted' \in [Keys -> Nat] /\ since' \in [Keys -> Nat] /\ regress' \in [Keys -> Nat]
  <2> HIDE DEF f, b, back, one, g, s, r
  <2>1. /\ bucket'[k] \in [tokens : Nat, last : Nat]
        /\ granted'[k] \in Nat /\ since'[k] \in Nat /\ regress'[k] \in Nat
    <3>1. /\ b.tokens - one \in Nat /\ g + one \in Nat /\ s \in Nat /\ r + back \in Nat
      BY <1>3, <1>9
    <3> QED
      BY <1>7, <3>1
  <2>2. /\ DOMAIN bucket' = Keys /\ DOMAIN granted' = Keys /\ DOMAIN since' = Keys /\ DOMAIN regress' = Keys
        /\ bucket' = [x \in Keys |-> bucket'[x]] /\ granted' = [x \in Keys |-> granted'[x]]
        /\ since' = [x \in Keys |-> since'[x]] /\ regress' = [x \in Keys |-> regress'[x]]
    BY <1>1 DEF Typed
  <2> QED
    BY <1>8, <2>1, <2>2 DEF Typed
<1>11. granted'[k] + bucket'[k].tokens <= Capacity + Rate * (bucket'[k].last - since'[k] + regress'[k])
  <2>1. bucket'[k].tokens = b.tokens - one /\ bucket'[k].last = t
    BY <1>7
  <2>2. granted'[k] + bucket'[k].tokens = g + b.tokens
    <3>1. b.tokens \in Nat
      BY <1>5
    <3> HIDE DEF b, g, one
    <3> QED
      BY <1>3, <1>7, <2>1, <3>1
  <2> HIDE DEF b, g, s, r, back
  <2> QED
    BY <1>5, <1>7, <2>1, <2>2
<1>12. KeyBounds'
  BY <1>8, <1>11 DEF KeyBounds
<1> QED
  BY <1>1, <1>10, <1>12

\* The keys the limiter holds.
HoldsKeys == tracked \in Seq(Keys) /\ live \subseteq Keys /\ ghosts \subseteq Keys

\* check holds no key it was not asked for.
LEMMA HoldsKeysStep ==
    ASSUME HoldsKeys, NEW k \in Keys, NEW t, NEW ok, CheckKey(k, t, ok)
    PROVE  HoldsKeys'
<1>1. Evicts(k) => Head(tracked) \in Keys /\ Tail(tracked) \in Seq(Keys)
  BY DEF Evicts, HoldsKeys
<1>2. tracked' \in Seq(Keys)
  <2>1. tracked' = IF k \in live THEN tracked ELSE Append(IF Evicts(k) THEN Tail(tracked) ELSE tracked, k)
    BY DEF CheckKey
  <2>2. (IF Evicts(k) THEN Tail(tracked) ELSE tracked) \in Seq(Keys)
    BY <1>1 DEF HoldsKeys
  <2> QED
    BY <2>1, <2>2 DEF HoldsKeys
<1>3. live' \subseteq Keys
  BY DEF CheckKey, HoldsKeys
<1>4. ghosts' \subseteq Keys
  BY <1>1 DEF CheckKey, GhostsAfterEviction, HoldsKeys
<1> QED
  BY <1>2, <1>3, <1>4 DEF HoldsKeys

-----------------------------------------------------------------------------
(* Both throttles, with the requests between them.                          *)

Inv == Typed /\ EntryBounds /\ Earned /\ KeyBounds /\ HoldsKeys

\* Each class of request meets a bucket, or none.
LEMMA BucketOfIsBucket ==
    ASSUME NEW class
    PROVE  BucketOf(class) \in Buckets \cup {"none"}
  BY DEF BucketOf, Buckets

\* Nothing has been granted yet.
LEMMA InitInv == Init => Inv
<1> SUFFICES ASSUME Init
             PROVE  Inv
  OBVIOUS
<1> USE DEF Init, WindowsInit, LimiterInit
<1>1. Typed
  <2>1. clock \in Readings
    BY WindowsAssumption DEF Readings
  <2>2. work \in [Workers -> Work]
    BY DEF Work
  <2>3. Capacity \in Nat /\ 0 \in Windows
    BY LimiterAssumption, WindowsAreNat
  <2> QED
    BY <2>1, <2>2, <2>3 DEF Typed
<1>2. EntryBounds
  <2> SUFFICES ASSUME NEW b \in Buckets, NEW t \in Tokens, Caps[b] # NoCap
               PROVE  Bounded(Caps[b], window[b][t], admitted[b][t], Caps[b] * late[b][t], newest[b][t])
    BY DEF EntryBounds
  <2>1. Caps[b] \in Nat
    BY <1>1, WindowsAssumption DEF Typed, Configurable, Caps
  <2>2. Caps[b] * 0 = 0
    BY <2>1
  <2>3. /\ window[b][t] = [win |-> 0, n |-> 0] /\ late[b][t] = 0 /\ newest[b][t] = 0
        /\ admitted[b][t] = [w \in Windows |-> 0]
    OBVIOUS
  <2>4. 0 \in Windows
    BY WindowsAreNat
  <2> QED
    BY <2>1, <2>2, <2>3, <2>4 DEF Bounded
<1>3. Earned
  BY DEF Earned
<1>4. KeyBounds
  <2>1. Capacity \in Nat /\ Rate * 0 = 0
    BY LimiterAssumption
  <2> QED
    BY <2>1 DEF KeyBounds
<1>5. HoldsKeys
  BY DEF HoldsKeys
<1> QED
  BY <1>1, <1>2, <1>3, <1>4, <1>5 DEF Inv

\* Every step of a request, of the clocks and of the two locks keeps the bounds.
LEMMA StepInv == Inv /\ [Next]_vars => Inv'
<1> SUFFICES ASSUME Inv, [Next]_vars
             PROVE  Inv'
  OBVIOUS
<1> USE DEF Inv
<1>1. ASSUME UNCHANGED <<windowVars, limiterVars>>, clock' \in Readings, work' \in [Workers -> Work]
      PROVE  Inv'
  BY <1>1 DEF windowVars, limiterVars, Typed, EntryBounds, Earned, KeyBounds, HoldsKeys, Caps
<1>2. ASSUME NEW r \in Workers, NEW class, NEW t \in Tokens, NEW k \in Keys, Ask(r, class, t, k)
      PROVE  Inv'
  <2>1. clock' = clock /\ clock \in Readings /\ UNCHANGED <<windowVars, limiterVars>>
    BY <1>2 DEF Ask, Typed
  <2>2. IF BucketOf(class) = "none" THEN TRUE ELSE BucketOf(class) \in Buckets
    BY BucketOfIsBucket
  <2>3. (IF BucketOf(class) = "none" THEN [at |-> "sent", key |-> k]
         ELSE [at |-> "asking", b |-> BucketOf(class), t |-> t, key |-> k, secs |-> clock]) \in Work
    BY <2>1, <2>2 DEF Work
  <2>4. work' \in [Workers -> Work]
    BY <1>2, <2>3 DEF Ask, Typed
  <2> QED
    BY <1>1, <2>1, <2>4
<1>3. ASSUME NEW r \in Workers, NEW ok \in BOOLEAN, Decide(r, ok)
      PROVE  Inv'
  <2>1. work[r] \in [at : {"asking"}, b : Buckets, t : Tokens, key : Keys, secs : Readings]
    BY <1>3 DEF Decide, Typed, Work, Idle
  <2>2. /\ CheckBucket(work[r].b, work[r].t, work[r].secs, ok)
        /\ work' = [work EXCEPT ![r] = IF ok THEN [at |-> "sent", key |-> work[r].key] ELSE Idle]
        /\ clock' = clock /\ UNCHANGED limiterVars
    BY <1>3 DEF Decide
  <2>3. work' \in [Workers -> Work]
    BY <2>1, <2>2 DEF Typed, Work
  <2>4. /\ config' \in Configs
        /\ window' \in [Buckets -> [Tokens -> [win : Windows, n : Nat]]]
        /\ admitted' \in [Buckets -> [Tokens -> [Windows -> Nat]]]
        /\ late' \in [Buckets -> [Tokens -> Nat]]
        /\ newest' \in [Buckets -> [Tokens -> Windows]]
        /\ EntryBounds' /\ Earned'
    BY <2>1, <2>2, CheckBucketStep
  <2>5. Typed' /\ KeyBounds' /\ HoldsKeys'
    BY <2>2, <2>3, <2>4 DEF limiterVars, Typed, KeyBounds, HoldsKeys
  <2> QED
    BY <2>4, <2>5
<1>4. ASSUME NEW r \in Workers, Enter(r)
      PROVE  Inv'
  <2>1. work[r] \in [at : {"sent"}, key : Keys]
    BY <1>4 DEF Enter, Typed, Work, Idle
  <2>2. work' \in [Workers -> Work] /\ clock' \in Readings
    BY <1>4, <2>1 DEF Enter, Typed, Work
  <2> QED
    BY <1>1, <1>4, <2>2 DEF Enter
<1>5. ASSUME NEW r \in Workers, NEW ok \in BOOLEAN, Consume(r, ok)
      PROVE  Inv'
  <2>1. work[r] \in [at : {"entered"}, key : Keys, t : Nat]
    BY <1>5 DEF Consume, Typed, Work, Idle
  <2>2. /\ CheckKey(work[r].key, work[r].t, ok)
        /\ work' = [work EXCEPT ![r] = Idle]
        /\ clock' = clock /\ UNCHANGED windowVars
    BY <1>5 DEF Consume
  <2>3. work' \in [Workers -> Work]
    BY <2>2 DEF Typed, Work
  <2>4. /\ bucket' \in [Keys -> [tokens : Nat, last : Nat]]
        /\ granted' \in [Keys -> Nat] /\ since' \in [Keys -> Nat] /\ regress' \in [Keys -> Nat]
        /\ now' = now
        /\ KeyBounds'
    BY <2>1, <2>2, CheckKeyStep
  <2>5. Typed' /\ EntryBounds' /\ Earned'
    BY <2>2, <2>3, <2>4 DEF windowVars, Typed, EntryBounds, Earned, Caps
  <2>6. HoldsKeys'
    BY <2>1, <2>2, HoldsKeysStep
  <2> QED
    BY <2>4, <2>5, <2>6
<1>6. ASSUME NEW secs \in Readings, SetClock(secs)
      PROVE  Inv'
  BY <1>1, <1>6 DEF SetClock, Typed
<1>7. ASSUME Time
      PROVE  Inv'
  BY <1>7 DEF Time, Tick, windowVars, Typed, EntryBounds, Earned, KeyBounds, HoldsKeys, Caps
<1>8. CASE UNCHANGED vars
  BY <1>1, <1>8 DEF vars, Typed
<1>9. CASE Next
  BY <1>2, <1>3, <1>4, <1>5, <1>6, <1>7, <1>9 DEF Next
<1> QED
  BY <1>8, <1>9

LEMMA AlwaysInv == Spec => []Inv
<1> QED
  BY InitInv, StepInv, PTL DEF Spec

\* check_bucket: whatever the clock does and in whatever order requests get the lock, a
\* token gets out of one window of a bucket at most its cap, and one more cap for each
\* check that came with an older window than the newest.
THEOREM WindowTheorem == Spec => []WindowBound
<1>1. Inv => WindowBound
  <2> SUFFICES ASSUME Inv, NEW b \in Buckets, NEW t \in Tokens, NEW w \in Windows, Caps[b] # NoCap
               PROVE  admitted[b][t][w] <= Caps[b] * (1 + late[b][t])
    BY DEF WindowBound
  <2>1. Caps[b] \in Nat /\ late[b][t] \in Nat
    BY WindowsAssumption DEF Inv, Typed, Configurable, Caps
  <2>2. admitted[b][t][w] <= Caps[b] * late[b][t] + Caps[b]
    BY DEF Inv, EntryBounds, Bounded
  <2>3. Caps[b] * (1 + late[b][t]) = Caps[b] * late[b][t] + Caps[b]
    <3>1. Caps[b] * (late[b][t] + 1) = Caps[b] * late[b][t] + Caps[b]
      BY <2>1, OneMore
    <3>2. 1 + late[b][t] = late[b][t] + 1
      BY <2>1
    <3> QED
      BY <3>1, <3>2
  <2> QED
    BY <2>2, <2>3
<1> QED
  BY <1>1, AlwaysInv, PTL

\* check_bucket: a token is denied in a window only after its own requests used it up,
\* for any number of tokens, requests and clock steps.
THEOREM DenialTheorem == Spec => []DenialsAreEarned
<1>1. Inv => DenialsAreEarned
  BY DEF Inv, Earned, DenialsAreEarned
<1> QED
  BY <1>1, AlwaysInv, PTL

\* RateLimiter::check: through any evictions, restores and stale readings a key that is
\* known gets at most its capacity and the refill of the time that went by, where a
\* stretch is counted again for as far as last_refill moved back.
THEOREM GrantTheorem == Spec => []GrantsAreBounded
<1>1. Inv => GrantsAreBounded
  BY DEF Inv, HoldsKeys, KeyBounds, GrantsAreBounded
<1> QED
  BY <1>1, AlwaysInv, PTL


-----------------------------------------------------------------------------
(* The limiter's two lines.  Neither NothingLeaks nor GhostsLastTheirTime   *)
(* is inductive: an entry that a restored ghost leaves behind in            *)
(* ghost_order must be gone by the time its key is evicted again.  It is,   *)
(* because a restored key joins the end of a full line: evictions happen    *)
(* only once the map is full, and it never shrinks.                         *)

\* The line of tracked keys holds each live key once.
TrackedOnce ==
    /\ tracked \in Seq(Keys) /\ Len(tracked) <= MaxTracked
    /\ \A i, j \in 1..Len(tracked) : tracked[i] = tracked[j] => i = j
    /\ live = {tracked[i] : i \in 1..Len(tracked)}
    /\ IsFiniteSet(live) /\ Cardinality(live) = Len(tracked)

\* Nothing is evicted before the map is full, which it stays.
FullOnceEvicting ==
    /\ evictions \in Nat /\ evictedAt \in [Keys -> Nat]
    /\ evictions > 0 => Len(tracked) = MaxTracked
    /\ \A x \in Keys : evictedAt[x] <= evictions

\* ghost_order holds the latest evictions, in their order and without repeats.
LatestEvictions ==
    /\ ghostOrder \in Seq(Keys)
    /\ Len(ghostOrder) = IF evictions < MaxTracked THEN evictions ELSE MaxTracked
    /\ \A j \in 1..Len(ghostOrder) :
          evictedAt[ghostOrder[j]] = evictions - Len(ghostOrder) + j

\* By the time a tracked key's turn comes its previous eviction is forgotten.
TurnsComeLate ==
    \A i \in 1..Len(tracked) :
        evictedAt[tracked[i]] > 0 => evictedAt[tracked[i]] + MaxTracked <= evictions + i

GhostsInLine ==
    /\ \A g \in ghosts : \E j \in 1..Len(ghostOrder) : ghostOrder[j] = g
    /\ ghosts \subseteq Keys /\ live \cap ghosts = {}
    /\ GhostsLastTheirTime

LineInv == TrackedOnce /\ FullOnceEvicting /\ LatestEvictions /\ TurnsComeLate /\ GhostsInLine


\* A sequence that lost its head.
LEMMA AfterHead ==
    ASSUME NEW S, NEW s \in Seq(S), s # <<>>
    PROVE  /\ Len(s) \in Nat \ {0} /\ Head(s) = s[1] /\ Head(s) \in S
           /\ Tail(s) \in Seq(S) /\ Len(Tail(s)) = Len(s) - 1
           /\ \A i \in 1..(Len(s) - 1) : Tail(s)[i] = s[i + 1]
OBVIOUS

\* A sequence with a new last element.
LEMMA WithLast ==
    ASSUME NEW S, NEW s \in Seq(S), NEW e \in S
    PROVE  /\ Append(s, e) \in Seq(S) /\ Len(Append(s, e)) = Len(s) + 1
           /\ Len(s) \in Nat
           /\ \A i \in 1..Len(s) : Append(s, e)[i] = s[i]
           /\ Append(s, e)[Len(s) + 1] = e
OBVIOUS

\* A new key takes a free place.
LEMMA JoinLine ==
    ASSUME LineInv, NEW k \in Keys, NEW t, NEW ok, CheckKey(k, t, ok), k \notin live, ~Evicts(k)
    PROVE  LineInv'
<1>1. /\ tracked' = Append(tracked, k) /\ live' = live \cup {k}
      /\ ghosts' = ghosts \ {k} /\ ghostOrder' = ghostOrder
      /\ evictions' = evictions /\ evictedAt' = evictedAt
  BY DEF CheckKey, GhostsAfterEviction, Forgotten, OrderAfter
<1>2. /\ tracked \in Seq(Keys) /\ Len(tracked) \in Nat /\ MaxTracked \in Nat \ {0}
      /\ IsFiniteSet(live) /\ Cardinality(live) = Len(tracked)
      /\ evictions \in Nat
  <2>1. tracked \in Seq(Keys) /\ IsFiniteSet(live) /\ Cardinality(live) = Len(tracked)
    BY DEF LineInv, TrackedOnce
  <2> QED
    BY <2>1, LimiterAssumption DEF LineInv, FullOnceEvicting
<1>3. Len(tracked) < MaxTracked
  BY <1>2 DEF Evicts
<1>4. evictions = 0 /\ \A x \in Keys : evictedAt[x] = 0
  BY <1>2, <1>3 DEF LineInv, FullOnceEvicting
<1>5. /\ tracked' \in Seq(Keys) /\ Len(tracked') = Len(tracked) + 1
      /\ \A i \in 1..Len(tracked) : tracked'[i] = tracked[i]
      /\ tracked'[Len(tracked) + 1] = k
  BY <1>1, <1>2, WithLast
<1>6. \A i \in 1..Len(tracked) : tracked[i] # k
  BY DEF LineInv, TrackedOnce
<1>7. TrackedOnce'
  <2>1. IsFiniteSet(live') /\ Cardinality(live') = Len(tracked')
    BY <1>1, <1>2, <1>5, FS_AddElement
  <2>2. \A i, j \in 1..Len(tracked') : tracked'[i] = tracked'[j] => i = j
    <3>1. \A i, j \in 1..Len(tracked) : tracked[i] = tracked[j] => i = j
      BY DEF LineInv, TrackedOnce
    <3>2. \A i \in 1..Len(tracked') : i \in 1..Len(tracked) \/ i = Len(tracked) + 1
      BY <1>2, <1>5
    <3> QED
      BY <1>5, <1>6, <3>1, <3>2
  <2>3. live' = {tracked'[i] : i \in 1..Len(tracked')}
    <3>1. live = {tracked[i] : i \in 1..Len(tracked)}
      BY DEF LineInv, TrackedOnce
    <3>2. 1..Len(tracked') = 1..Len(tracked) \cup {Len(tracked) + 1}
      BY <1>2, <1>5
    <3> QED
      BY <1>1, <1>5, <3>1, <3>2
  <2> QED
    BY <1>2, <1>3, <1>5, <2>1, <2>2, <2>3 DEF TrackedOnce
<1>8. FullOnceEvicting' /\ TurnsComeLate'
  <2>1. \A i \in 1..Len(tracked') : tracked'[i] \in Keys
    BY <1>5
  <2> QED
    BY <1>1, <1>4, <2>1 DEF LineInv, FullOnceEvicting, TurnsComeLate
<1>9. LatestEvictions'
  BY <1>1 DEF LineInv, LatestEvictions
<1>10. GhostsInLine'
  BY <1>1, <1>4 DEF LineInv, GhostsInLine, GhostsLastTheirTime
<1> QED
  BY <1>7, <1>8, <1>9, <1>10 DEF LineInv


\* A new key meets a full map: the first in line becomes a ghost.
LEMMA EvictFromLine ==
    ASSUME LineInv, NEW k \in Keys, NEW t, NEW ok, CheckKey(k, t, ok), Evicts(k)
    PROVE  LineInv'
<1> DEFINE M == MaxTracked
           E == evictions
           h == Head(tracked)
           full == E >= M
           rest == IF full THEN Tail(ghostOrder) ELSE ghostOrder
<1>1. /\ tracked \in Seq(Keys) /\ tracked # <<>> /\ M \in Nat \ {0} /\ E \in Nat
      /\ ghostOrder \in Seq(Keys) /\ Len(ghostOrder) = IF E < M THEN E ELSE M
      /\ k \notin live
  <2>1. tracked \in Seq(Keys)
    BY DEF LineInv, TrackedOnce
  <2>2. ghostOrder \in Seq(Keys) /\ Len(ghostOrder) = IF E < M THEN E ELSE M
    BY DEF LineInv, LatestEvictions
  <2> QED
    BY <2>1, <2>2, LimiterAssumption DEF LineInv, FullOnceEvicting, Evicts
<1>2. Len(tracked) = M
  <2>1. Len(tracked) <= M /\ Cardinality(live) = Len(tracked)
    BY DEF LineInv, TrackedOnce
  <2>2. Len(tracked) \in Nat
    BY <1>1
  <2> QED
    BY <1>1, <2>1, <2>2 DEF Evicts
<1>3. Len(ghostOrder) >= M <=> full
  BY <1>1
<1>4. /\ tracked' = Append(Tail(tracked), k) /\ live' = (live \ {h}) \cup {k}
      /\ ghostOrder' = Append(rest, h)
      /\ evictions' = E + 1 /\ evictedAt' = [evictedAt EXCEPT ![h] = E + 1]
      /\ ghosts' = ((ghosts \ (IF full THEN {Head(ghostOrder)} ELSE {})) \cup {h}) \ {k}
  <2> HIDE DEF full
  <2> QED
    BY <1>1, <1>3 DEF CheckKey, GhostsAfterEviction, Forgotten, OrderAfter, full
<1>5. /\ h = tracked[1] /\ h \in Keys /\ Tail(tracked) \in Seq(Keys) /\ Len(Tail(tracked)) = M - 1
      /\ \A i \in 1..(M - 1) : Tail(tracked)[i] = tracked[i + 1]
  BY <1>1, <1>2, AfterHead
<1>6. /\ tracked' \in Seq(Keys) /\ Len(tracked') = M
      /\ \A i \in 1..(M - 1) : tracked'[i] = tracked[i + 1]
      /\ tracked'[M] = k
  <2>1. /\ tracked' \in Seq(Keys) /\ Len(tracked') = M - 1 + 1
        /\ \A i \in 1..(M - 1) : tracked'[i] = Tail(tracked)[i]
        /\ tracked'[M - 1 + 1] = k
    BY <1>4, <1>5, WithLast
  <2>2. M - 1 + 1 = M
    BY <1>1
  <2> QED
    BY <1>5, <2>1, <2>2
<1>7. /\ \A i, j \in 1..M : tracked[i] = tracked[j] => i = j
      /\ live = {tracked[i] : i \in 1..M}
      /\ IsFiniteSet(live) /\ Cardinality(live) = M
  BY <1>2 DEF LineInv, TrackedOnce
<1>8. h \in live /\ h # k
  BY <1>1, <1>5, <1>7
<1>9. \A i \in 1..M : (i \in 1..(M - 1) /\ i + 1 \in 1..M) \/ i = M
  BY <1>1
<1>10. TrackedOnce'
  <2>1. \A i, j \in 1..M : tracked'[i] = tracked'[j] => i = j
    <3>1. \A i \in 1..M : tracked[i] # k
      BY <1>1, <1>7
    <3>2. ASSUME NEW i \in 1..(M - 1), NEW j \in 1..(M - 1), tracked'[i] = tracked'[j] PROVE i = j
      <4>1. tracked[i + 1] = tracked[j + 1] /\ i + 1 \in 1..M /\ j + 1 \in 1..M
        BY <1>1, <1>6, <3>2
      <4>2. i + 1 = j + 1
        BY <1>7, <4>1
      <4> QED
        BY <4>2
    <3> QED
      BY <1>6, <1>9, <3>1, <3>2
  <2>2. live' = {tracked'[i] : i \in 1..M}
    <3>1. ASSUME NEW x \in live' PROVE \E i \in 1..M : tracked'[i] = x
      <4>1. CASE x = k
        BY <1>1, <1>6, <4>1
      <4>2. CASE x # k
        <5>1. PICK i \in 1..M : x = tracked[i]
          BY <1>4, <1>7, <4>2
        <5>2. i # 1
          BY <1>4, <1>5, <4>2, <5>1
        <5>3. i - 1 \in 1..(M - 1) /\ (i - 1) + 1 = i /\ i - 1 \in 1..M
          BY <1>1, <5>2
        <5> QED
          BY <1>6, <5>1, <5>3
      <4> QED
        BY <4>1, <4>2
    <3>2. ASSUME NEW i \in 1..M PROVE tracked'[i] \in live'
      <4>1. CASE i = M
        BY <1>4, <1>6, <4>1
      <4>2. CASE i \in 1..(M - 1) /\ i + 1 \in 1..M
        <5>1. 1 \in 1..M /\ i + 1 # 1
          BY <1>1, <4>2
        <5>2. tracked[i + 1] # h
          BY <1>5, <1>7, <4>2, <5>1
        <5> QED
          BY <1>4, <1>6, <1>7, <4>2, <5>2
      <4> QED
        BY <1>9, <4>1, <4>2
    <3> QED
      BY <3>1, <3>2
  <2>3. IsFiniteSet(live \ {h}) /\ Cardinality(live \ {h}) = M - 1
    <3>1. /\ IsFiniteSet(live \ {h})
          /\ Cardinality(live \ {h}) = IF h \in live THEN Cardinality(live) - 1 ELSE Cardinality(live)
      BY <1>7, FS_RemoveElement
    <3> QED
      BY <1>7, <1>8, <3>1
  <2>4. IsFiniteSet(live') /\ Cardinality(live') = M - 1 + 1
    BY <1>1, <1>4, <2>3, FS_AddElement
  <2>5. M - 1 + 1 = M
    BY <1>1
  <2> QED
    BY <1>1, <1>6, <2>1, <2>2, <2>4, <2>5 DEF TrackedOnce
<1>11. /\ evictedAt \in [Keys -> Nat] /\ evictedAt'[h] = E + 1
       /\ \A x \in Keys : evictedAt[x] \in Nat /\ evictedAt[x] <= E
       /\ \A x \in Keys \ {h} : evictedAt'[x] = evictedAt[x]
  BY <1>4, <1>5 DEF LineInv, FullOnceEvicting
<1>12. FullOnceEvicting'
  <2>1. evictedAt' \in [Keys -> Nat]
    BY <1>1, <1>4, <1>11
  <2>2. \A x \in Keys : evictedAt'[x] <= E + 1
    BY <1>1, <1>11
  <2> QED
    BY <1>1, <1>4, <1>6, <2>1, <2>2 DEF FullOnceEvicting

<1>13. evictedAt[h] > 0 => evictedAt[h] + M <= E + 1
  <2>1. 1 \in 1..Len(tracked)
    BY <1>1, <1>2
  <2> QED
    BY <1>5, <2>1 DEF LineInv, TurnsComeLate
<1> DEFINE r == IF full THEN M - 1 ELSE E
<1>14. /\ r \in Nat /\ rest \in Seq(Keys) /\ Len(rest) = r
       /\ \A j \in 1..r : rest[j] \in Keys /\ evictedAt[rest[j]] = E - r + j
  <2>1. \A j \in 1..Len(ghostOrder) : evictedAt[ghostOrder[j]] = E - Len(ghostOrder) + j
    BY DEF LineInv, LatestEvictions
  <2>2. CASE full
    <3>1. ghostOrder # <<>> /\ Len(ghostOrder) = M
      BY <1>1, <2>2
    <3>2. /\ Tail(ghostOrder) \in Seq(Keys) /\ Len(Tail(ghostOrder)) = M - 1
          /\ \A i \in 1..(M - 1) : Tail(ghostOrder)[i] = ghostOrder[i + 1]
      BY <1>1, <3>1, AfterHead
    <3>3. ASSUME NEW j \in 1..(M - 1)
          PROVE  Tail(ghostOrder)[j] \in Keys /\ evictedAt[Tail(ghostOrder)[j]] = E - (M - 1) + j
      <4>1. j + 1 \in 1..M /\ E - M + (j + 1) = E - (M - 1) + j
        BY <1>1
      <4>2. evictedAt[ghostOrder[j + 1]] = E - M + (j + 1) /\ ghostOrder[j + 1] \in Keys
        BY <1>1, <2>1, <3>1, <4>1
      <4> QED
        BY <3>2, <4>1, <4>2
    <3>4. rest = Tail(ghostOrder) /\ r = M - 1 /\ M - 1 \in Nat
      BY <1>1, <2>2
    <3> HIDE DEF rest, r
    <3> QED
      BY <3>2, <3>3, <3>4
  <2>3. CASE ~full
    <3>1. Len(ghostOrder) = E
      BY <1>1, <2>3
    <3> QED
      BY <1>1, <2>1, <2>3, <3>1
  <2> QED
    BY <2>2, <2>3
<1>15. \A j \in 1..r : rest[j] # h
  <2> SUFFICES ASSUME NEW j \in 1..r, rest[j] = h PROVE FALSE
    OBVIOUS
  <2>1. evictedAt[h] = E - r + j
    BY <1>14
  <2>2. CASE full
    BY <1>1, <1>13, <2>1, <2>2
  <2>3. CASE ~full
    BY <1>1, <1>13, <2>1, <2>3
  <2> QED
    BY <2>2, <2>3
<1>16. /\ ghostOrder' \in Seq(Keys) /\ Len(ghostOrder') = r + 1
       /\ \A j \in 1..r : ghostOrder'[j] = rest[j]
       /\ ghostOrder'[r + 1] = h
  <2> HIDE DEF rest, r, h
  <2> QED
    BY <1>4, <1>5, <1>14, WithLast
<1>17. LatestEvictions'
  <2>1. r + 1 = IF E + 1 < M THEN E + 1 ELSE M
    BY <1>1
  <2>2. ASSUME NEW j \in 1..(r + 1)
        PROVE  evictedAt'[ghostOrder'[j]] = (E + 1) - (r + 1) + j
    <3>1. CASE j \in 1..r
      <4>1. evictedAt'[ghostOrder'[j]] = E - r + j
        BY <1>11, <1>14, <1>15, <1>16, <3>1
      <4> HIDE DEF r, E
      <4> QED
        BY <1>1, <1>14, <3>1, <4>1
    <3>2. CASE j = r + 1
      <4>1. evictedAt'[ghostOrder'[j]] = E + 1
        BY <1>11, <1>16, <3>2
      <4> HIDE DEF r, E
      <4> QED
        BY <1>1, <1>14, <3>2, <4>1
    <3> HIDE DEF r
    <3> QED
      BY <1>14, <3>1, <3>2
  <2> QED
    BY <1>4, <1>16, <2>1, <2>2 DEF LatestEvictions
<1>18. TurnsComeLate'
  <2> SUFFICES ASSUME NEW i \in 1..M, evictedAt'[tracked'[i]] > 0
               PROVE  evictedAt'[tracked'[i]] + M <= E + 1 + i
    BY <1>4, <1>6 DEF TurnsComeLate
  <2>1. CASE i = M
    <3>1. evictedAt'[tracked'[i]] = evictedAt[k]
      BY <1>6, <1>8, <1>11, <2>1
    <3> QED
      BY <1>1, <1>11, <2>1, <3>1
  <2>2. CASE i \in 1..(M - 1) /\ i + 1 \in 1..M
    <3>1. 1 \in 1..M /\ i + 1 # 1
      BY <1>1, <2>2
    <3>2. tracked'[i] = tracked[i + 1] /\ tracked[i + 1] # h /\ tracked[i + 1] \in Keys
      BY <1>1, <1>2, <1>5, <1>6, <1>7, <2>2, <3>1
    <3>3. evictedAt'[tracked'[i]] = evictedAt[tracked[i + 1]]
      BY <1>11, <3>2
    <3>4. evictedAt[tracked[i + 1]] + M <= E + (i + 1)
      BY <1>2, <2>2, <3>3 DEF LineInv, TurnsComeLate
    <3> QED
      BY <1>1, <1>11, <3>2, <3>3, <3>4
  <2> QED
    BY <1>9, <2>1, <2>2
<1>19. GhostsInLine'
  <2>1. ghosts \subseteq Keys /\ live \cap ghosts = {}
    BY DEF LineInv, GhostsInLine
  <2>2. ASSUME NEW g \in ghosts' PROVE \E j \in 1..Len(ghostOrder') : ghostOrder'[j] = g
    <3>1. CASE g = h
      BY <1>14, <1>16, <3>1
    <3>2. CASE g # h
      <4>1. g \in ghosts /\ (full => g # Head(ghostOrder))
        BY <1>4, <3>2
      <4>2. PICK j \in 1..Len(ghostOrder) : ghostOrder[j] = g
        BY <4>1 DEF LineInv, GhostsInLine
      <4>3. CASE full
        <5>1. ghostOrder # <<>> /\ Len(ghostOrder) = M
          BY <1>1, <4>3
        <5>2. /\ Head(ghostOrder) = ghostOrder[1]
              /\ \A i \in 1..(M - 1) : Tail(ghostOrder)[i] = ghostOrder[i + 1]
          BY <1>1, <5>1, AfterHead
        <5>3. j # 1
          BY <4>1, <4>2, <4>3, <5>2
        <5>4. j - 1 \in 1..(M - 1) /\ (j - 1) + 1 = j
          BY <1>1, <4>2, <5>1, <5>3
        <5>5. rest[j - 1] = g /\ j - 1 \in 1..r
          BY <4>2, <4>3, <5>2, <5>4
        <5>6. j - 1 \in 1..Len(ghostOrder')
          BY <1>14, <1>16, <5>5
        <5> QED
          BY <1>16, <5>5, <5>6
      <4>4. CASE ~full
        <5>1. rest[j] = g /\ j \in 1..r
          BY <1>1, <4>2, <4>4
        <5>2. j \in 1..Len(ghostOrder')
          BY <1>14, <1>16, <5>1
        <5> QED
          BY <1>16, <5>1, <5>2
      <4> QED
        BY <4>3, <4>4
    <3> QED
      BY <3>1, <3>2
  <2>3. ghosts' \subseteq Keys /\ live' \cap ghosts' = {}
    BY <1>4, <1>5, <2>1
  <2>4. ASSUME NEW x \in Keys, evictedAt'[x] > 0, (E + 1) - evictedAt'[x] < M
        PROVE  x \in live' \cup ghosts'
    <3>1. CASE x = k \/ x = h
      BY <1>4, <1>8, <3>1
    <3>2. CASE x # k /\ x # h
      <4>1. evictedAt[x] = evictedAt'[x]
        BY <1>11, <3>2
      <4>2. E - evictedAt[x] < M
        BY <1>1, <1>11, <2>4, <4>1
      <4>3. x \in live \cup ghosts
        BY <2>4, <4>1, <4>2 DEF LineInv, GhostsInLine, GhostsLastTheirTime
      <4>4. full => x # Head(ghostOrder)
        <5> SUFFICES ASSUME full, x = Head(ghostOrder) PROVE FALSE
          OBVIOUS
        <5>1. ghostOrder # <<>> /\ Len(ghostOrder) = M /\ 1 \in 1..M
          BY <1>1
        <5>2. x = ghostOrder[1]
          BY <1>1, <5>1, AfterHead
        <5>3. evictedAt[x] = E - M + 1
          BY <5>1, <5>2 DEF LineInv, LatestEvictions
        <5> QED
          BY <1>1, <2>4, <4>1, <5>3
      <4> QED
        BY <1>4, <3>2, <4>3, <4>4
    <3> QED
      BY <3>1, <3>2
  <2>5. GhostsLastTheirTime'
    BY <1>4, <2>4 DEF GhostsLastTheirTime
  <2> QED
    BY <2>2, <2>3, <2>5 DEF GhostsInLine
<1> QED
  BY <1>10, <1>12, <1>17, <1>18, <1>19 DEF LineInv


LEMMA LineInit == Init => LineInv
<1> SUFFICES ASSUME Init PROVE LineInv
  OBVIOUS
<1> USE DEF Init, LimiterInit
<1>1. MaxTracked \in Nat \ {0}
  BY LimiterAssumption
<1>2. TrackedOnce
  <2>1. IsFiniteSet(live) /\ Cardinality(live) = 0
    BY FS_EmptySet
  <2>2. tracked = <<>> /\ Len(tracked) = 0 /\ tracked \in Seq(Keys)
    OBVIOUS
  <2> QED
    BY <1>1, <2>1, <2>2 DEF TrackedOnce
<1> QED
  BY <1>1, <1>2 DEF LineInv, FullOnceEvicting, LatestEvictions, TurnsComeLate, GhostsInLine,
                    GhostsLastTheirTime

\* Only a check of the limiter moves its lines.
LEMMA LineStep == Inv /\ LineInv /\ [Next]_vars => LineInv'
<1> SUFFICES ASSUME Inv, LineInv, [Next]_vars PROVE LineInv'
  OBVIOUS
<1> DEFINE lines == <<tracked, live, ghosts, ghostOrder, evictions, evictedAt>>
<1>1. ASSUME UNCHANGED lines PROVE LineInv'
  <2>1. TrackedOnce' /\ FullOnceEvicting'
    BY <1>1 DEF LineInv, TrackedOnce, FullOnceEvicting
  <2>2. LatestEvictions' /\ TurnsComeLate'
    BY <1>1 DEF LineInv, LatestEvictions, TurnsComeLate
  <2>3. GhostsInLine'
    BY <1>1 DEF LineInv, GhostsInLine, GhostsLastTheirTime
  <2> QED
    BY <2>1, <2>2, <2>3 DEF LineInv
<1>2. ASSUME NEW r \in Workers, NEW ok \in BOOLEAN, Consume(r, ok) PROVE LineInv'
  <2>1. CheckKey(work[r].key, work[r].t, ok) /\ work[r].key \in Keys
    BY <1>2 DEF Consume, Inv, Typed, Work, Idle
  <2>2. CASE work[r].key \in live
    <3>1. ~Evicts(work[r].key)
      BY <2>2 DEF Evicts
    <3>2. UNCHANGED lines
      BY <2>1, <2>2, <3>1 DEF CheckKey, OrderAfter
    <3> QED
      BY <1>1, <3>2
  <2>3. CASE work[r].key \notin live
    BY <2>1, <2>3, JoinLine, EvictFromLine
  <2> QED
    BY <2>2, <2>3
<1>3. CASE UNCHANGED vars \/ Time
  BY <1>1, <1>3 DEF vars, limiterVars, Time, Tick
<1>4. ASSUME NEW r \in Workers, NEW class, NEW t, NEW k, Ask(r, class, t, k) PROVE LineInv'
  BY <1>1, <1>4 DEF Ask, limiterVars
<1>5. ASSUME NEW r \in Workers, NEW ok, Decide(r, ok) PROVE LineInv'
  BY <1>1, <1>5 DEF Decide, limiterVars
<1>6. ASSUME NEW r \in Workers, Enter(r) PROVE LineInv'
  BY <1>1, <1>6 DEF Enter, limiterVars
<1>7. ASSUME NEW secs, SetClock(secs) PROVE LineInv'
  BY <1>1, <1>7 DEF SetClock, limiterVars
<1> QED
  BY <1>2, <1>3, <1>4, <1>5, <1>6, <1>7 DEF Next

LEMMA AlwaysLine == Spec => []LineInv
BY AlwaysInv, LineInit, LineStep, PTL DEF Spec

\* RateLimiter::check: the maps and lines keep to their bound and to each other for any
\* number of keys, evictions and restores.
THEOREM LeakTheorem == Spec => []NothingLeaks
<1>1. LineInv => NothingLeaks
  <2> SUFFICES ASSUME LineInv PROVE NothingLeaks
    OBVIOUS
  <2>1. /\ Len(tracked) <= MaxTracked
        /\ live = {tracked[i] : i \in 1..Len(tracked)} /\ Cardinality(live) = Len(tracked)
    BY DEF LineInv, TrackedOnce
  <2>2. Len(ghostOrder) <= MaxTracked
    BY LimiterAssumption DEF LineInv, LatestEvictions, FullOnceEvicting
  <2>3. ghosts \subseteq {ghostOrder[i] : i \in 1..Len(ghostOrder)} /\ live \cap ghosts = {}
    BY DEF LineInv, GhostsInLine
  <2> QED
    BY <2>1, <2>2, <2>3 DEF NothingLeaks
<1> QED
  BY <1>1, AlwaysLine, PTL

\* RateLimiter::check: an evicted key is known for the next MaxTracked - 1 evictions, and
\* the entry it left behind when it was evicted before does not shorten that.
THEOREM GhostTheorem == Spec => []GhostsLastTheirTime
<1>1. LineInv => GhostsLastTheirTime
  BY DEF LineInv, GhostsInLine
<1> QED
  BY <1>1, AlwaysLine, PTL

=============================================================================
