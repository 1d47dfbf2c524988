--------------------------- MODULE SigningProofs ---------------------------
(***************************************************************************)
(* What Signing proves for every set of connections, offers and builds and  *)
(* for every capacity of the tables: the floor, the pins, the agent's       *)
(* intents, the ledger's replay window, the identity of opened secrets, the *)
(* bounds of the tables and the caps.                                       *)
(***************************************************************************)
EXTENDS Signing, SequenceTheorems, FiniteSetTheorems, TLAPS

Tasks ==
    {Idle} \union [at : Stages, offer : UNION {Offers[c] : c \in Conns}, ticket : Nat]

\* The connections are what they look like, and each works on one of its offers.
ConnsOK ==
    /\ conn \in [Conns -> Tasks]
    /\ \A c \in Conns : conn[c] # Idle => conn[c].offer \in Offers[c]

LEMMA ConnsInit == Init => ConnsOK
BY DEF Init, ConnsOK, Tasks, Idle

\* A step of connection c leaves the others alone, and keeps its offer unless
\* it ends the request or starts one.
LEMMA StepOfConn ==
    ASSUME ConnsOK, NEW c \in Conns, Step(c)
    PROVE  /\ ConnsOK'
           /\ image' = image
           /\ \A d \in Conns \ {c} : conn'[d] = conn[d]
           /\ conn'[c] # Idle /\ conn[c] # Idle => conn'[c].offer = conn[c].offer
<1> USE DEF ConnsOK, Tasks, Idle, Stages, At, GoTo, Refuse
<1>1. CASE \E o \in Offers[c] : Receive(c, o)
  BY <1>1 DEF Receive
<1>2. CASE CacheHit(c)
  BY <1>2 DEF CacheHit
<1>3. CASE CacheMiss(c)
  BY <1>3 DEF CacheMiss
<1>4. CASE Decrypt(c)
  BY <1>4 DEF Decrypt
<1>5. CASE DecryptFails(c)
  BY <1>5 DEF DecryptFails
<1>6. CASE Verify(c)
  BY <1>6 DEF Verify
<1>7. CASE Load(c)
  BY <1>7 DEF Load
<1>8. CASE Clear(c)
  BY <1>8 DEF Clear
<1>9. CASE Deny(c)
  BY <1>9 DEF Deny
<1>10. CASE Sign(c)
  BY <1>10 DEF Sign
<1>11. CASE SignFails(c)
  BY <1>11 DEF SignFails
<1>12. CASE Reply(c)
  BY <1>12 DEF Reply
<1> QED
  BY <1>1, <1>2, <1>3, <1>4, <1>5, <1>6, <1>7, <1>8, <1>9, <1>10, <1>11, <1>12 DEF Step

-----------------------------------------------------------------------------
(* The floor and the pins.                                                  *)

Past == {"loaded", "cleared", "signed"}

\* A pin is never changed or removed by a request.
LEMMA PinsGrow ==
    ASSUME NEW c \in Conns, Step(c)
    PROVE  \A k \in DOMAIN pins : k \in DOMAIN pins' /\ pins'[k] = pins[k]
<1>1. CASE Load(c)
  <2>1. PICK ok \in BOOLEAN : Accepted(conn[c].offer, ok)
    BY <1>1 DEF Load
  <2>2. UNCHANGED pins \/ Pin(conn[c].offer, ok)
    BY <2>1 DEF Accepted
  <2>3. CASE Pin(conn[c].offer, ok)
    BY <2>3 DEF Pin
  <2> QED
    BY <2>2, <2>3
<1>2. CASE ~Load(c)
  <2>1. pins' = pins
    BY <1>2 DEF Step, Receive, CacheHit, CacheMiss, Decrypt, DecryptFails, Verify, Clear, Deny,
                Sign, SignFails, Reply, tables
  <2> QED
    BY <2>1
<1> QED
  BY <1>1, <1>2

\* A request gets past the load only by the load, which accepted its blob.
LEMMA PastLoad ==
    ASSUME ConnsOK, NEW c \in Conns, Step(c), conn'[c].at \in Past
    PROVE  \/ conn[c].at \in Past
           \/ /\ conn[c].at = "opened"
              /\ conn[c].offer.req.action # "verify_blob"
              /\ Accepted(conn[c].offer, TRUE)
<1> USE DEF ConnsOK, Tasks, Idle, Stages, At, GoTo, Refuse, Past
<1>1. CASE Load(c)
  <2>1. PICK ok \in BOOLEAN : /\ Accepted(conn[c].offer, ok)
                             /\ IF ok THEN GoTo(c, "loaded") ELSE Refuse(c)
    BY <1>1 DEF Load
  <2>2. CASE ok = TRUE
    BY <1>1, <2>1, <2>2 DEF Load
  <2>3. CASE ok = FALSE
    BY <2>1, <2>3
  <2> QED
    BY <2>2, <2>3
<1>2. CASE \E o \in Offers[c] : Receive(c, o)
  BY <1>2 DEF Receive
<1>3. CASE CacheHit(c)
  BY <1>3 DEF CacheHit
<1>4. CASE CacheMiss(c) \/ Decrypt(c) \/ DecryptFails(c) \/ Verify(c)
  BY <1>4 DEF CacheMiss, Decrypt, DecryptFails, Verify
<1>5. CASE Clear(c) \/ Deny(c) \/ Sign(c) \/ SignFails(c) \/ Reply(c)
  BY <1>5 DEF Clear, Deny, Sign, SignFails, Reply
<1> QED
  BY <1>1, <1>2, <1>3, <1>4, <1>5 DEF Step

\* What the load established about a request that got past it.
Loaded(c) ==
    conn[c].at \in Past =>
        LET o == conn[c].offer  p == conn[c].offer.blob.policy IN
        /\ o.req.action # "verify_blob"
        /\ p = None => ~Strict(image.strict, Venue(o))
        /\ p # None /\ FloorApplies(o) => MeetsFloor(o)
        /\ p # None /\ ~FloorApplies(o) /\ p.signed # "no" =>
              TofuKey(o) \in DOMAIN pins /\ pins[TofuKey(o)] = p.signer

LoadInv == ConnsOK /\ \A c \in Conns : Loaded(c)

LEMMA LoadStep == LoadInv /\ [Next]_vars => LoadInv'
<1> SUFFICES ASSUME LoadInv, [Next]_vars
             PROVE  LoadInv'
  OBVIOUS
<1>1. CASE UNCHANGED vars
  BY <1>1 DEF LoadInv, ConnsOK, Loaded, vars, tables, FloorApplies, MeetsFloor
<1>2. CASE Restart
  BY <1>2 DEF LoadInv, ConnsOK, Loaded, Restart, Past, Idle, Tasks
<1>3. ASSUME NEW c \in Conns, Step(c)
      PROVE  LoadInv'
  <2>1. ConnsOK' /\ image' = image
    BY <1>3, StepOfConn DEF LoadInv
  <2>2. \A k \in DOMAIN pins : k \in DOMAIN pins' /\ pins'[k] = pins[k]
    BY <1>3, PinsGrow
  <2>3. ASSUME NEW d \in Conns, conn'[d].at \in Past,
               conn[d].at \in Past, conn'[d].offer = conn[d].offer
        PROVE  Loaded(d)'
    BY <2>1, <2>2, <2>3 DEF LoadInv, Loaded, FloorApplies, MeetsFloor
  <2>4. ASSUME NEW d \in Conns \ {c}
        PROVE  Loaded(d)'
    BY <1>3, <2>3, StepOfConn DEF LoadInv, Loaded
  <2>5. Loaded(c)'
    <3>1. SUFFICES ASSUME conn'[c].at \in Past
                   PROVE  Loaded(c)'
      BY DEF Loaded
    <3>2. conn'[c] # Idle
      BY <3>1 DEF Past, Idle
    <3>3. CASE conn[c].at \in Past
      <4>1. conn[c] # Idle
        BY <3>3 DEF Past, Idle
      <4> QED
        BY <1>3, <2>3, <3>1, <3>2, <3>3, <4>1, StepOfConn DEF LoadInv
    <3>4. CASE /\ conn[c].at = "opened"
               /\ conn[c].offer.req.action # "verify_blob"
               /\ Accepted(conn[c].offer, TRUE)
      <4>1. conn[c] # Idle
        BY <3>4 DEF Idle
      <4>2. conn'[c].offer = conn[c].offer
        BY <1>3, <3>2, <4>1, StepOfConn DEF LoadInv
      <4> DEFINE o == conn[c].offer
                 p == conn[c].offer.blob.policy
      <4>3. p = None => ~Strict(image.strict, Venue(o))
        BY <3>4 DEF Accepted
      <4>4. p # None /\ FloorApplies(o) => MeetsFloor(o)
        BY <3>4 DEF Accepted
      <4>5. p # None /\ ~FloorApplies(o) /\ p.signed # "no" =>
              TofuKey(o) \in DOMAIN pins' /\ pins'[TofuKey(o)] = p.signer
        <5>1. SUFFICES ASSUME p # None, ~FloorApplies(o), p.signed # "no"
                       PROVE  TofuKey(o) \in DOMAIN pins' /\ pins'[TofuKey(o)] = p.signer
          OBVIOUS
        <5>2. Pin(o, TRUE)
          BY <3>4, <5>1 DEF Accepted
        <5> QED
          BY <5>2 DEF Pin
      <4> QED
        BY <2>1, <3>4, <4>2, <4>3, <4>4, <4>5 DEF Loaded, FloorApplies, MeetsFloor
    <3> QED
      BY <1>3, <3>1, <3>3, <3>4, PastLoad DEF LoadInv
  <2> QED
    BY <2>1, <2>4, <2>5 DEF LoadInv
<1> QED
  BY <1>1, <1>2, <1>3 DEF Next

LEMMA LoadInit == Init => LoadInv
BY ConnsInit DEF Init, LoadInv, Loaded, Past, Idle

\* The load's promises hold of every request that got past it.
THEOREM LoadTheorem == Spec => []LoadInv
BY LoadInit, LoadStep, PTL DEF Spec

\* Once a policy key is pinned for a tenant and venue no signed policy of another
\* key gets past the load, for any number of connections and any capacity of the
\* pin store (verify_and_pin).
THEOREM PinTheorem == Spec => []PinHolds
<1>1. LoadInv => PinHolds
  BY DEF LoadInv, Loaded, PinHolds, Past, PolicyOf
<1> QED
  BY <1>1, LoadTheorem, PTL

\* On a money venue of a strict build, and on hyperliquid_main of any build,
\* nothing is signed but under an authority-signed policy with a binding cap, for
\* every set of blobs and builds (load_and_parse_blob).
THEOREM FloorTheorem == Spec => []FloorHolds
<1>1. LoadInv => FloorHolds
  <2> SUFFICES ASSUME LoadInv, NEW c \in Conns, Signed(c),
                      Venue(conn[c].offer) \in MoneyVenues,
                      image.strict \/ Venue(conn[c].offer) = "hyperliquid_main"
               PROVE  LET v == Venue(conn[c].offer)  p == PolicyOf(c) IN
                      /\ p # None
                      /\ p.authority = <<conn[c].offer.who, v>>
                      /\ IF v \in {"hyperliquid_main", "hyperliquid_testnet"}
                         THEN p.hl_order_caps # None /\ p.hl_order_caps # <<>>
                         ELSE p.order_caps # None /\ p.order_caps # <<>>
    BY DEF FloorHolds
  <2> DEFINE o == conn[c].offer
             p == conn[c].offer.blob.policy
  <2>1. FloorApplies(o)
    BY DEF FloorApplies, Strict, Unconditional
  <2>2. Strict(image.strict, Venue(o))
    BY <2>1 DEF FloorApplies
  <2>3. p # None /\ MeetsFloor(o)
    BY <2>1, <2>2 DEF LoadInv, Loaded, Past, Signed
  <2>4. DOMAIN <<>> = {}
    OBVIOUS
  <2> QED
    BY <2>3, <2>4 DEF MeetsFloor, AuthoritySigned, BindingCap, CapsFor, HlVenues, PolicyOf
<1> QED
  BY <1>1, LoadTheorem, PTL

-----------------------------------------------------------------------------
(* The agent's intents.                                                     *)

\* What the policy and the agent said to a request that was cleared.
Cleared(c) ==
    conn[c].at \in {"cleared", "signed"} =>
        LET o == conn[c].offer  p == conn[c].offer.blob.policy IN
        /\ Passes(image, p, o.req)
        /\ NeedsIntent(p, o.req) => IntentVerifies(p, o.who, o.req)

ClearInv == LoadInv /\ \A c \in Conns : Cleared(c)

\* A request is cleared only by Clear.
LEMMA ByClear ==
    ASSUME ConnsOK, NEW c \in Conns, Step(c), conn'[c].at \in {"cleared", "signed"}
    PROVE  conn[c].at \in {"cleared", "signed"} \/ Clear(c)
<1> USE DEF ConnsOK, Tasks, Idle, Stages, At, GoTo, Refuse
<1>1. CASE (\E o \in Offers[c] : Receive(c, o)) \/ CacheHit(c)
  BY <1>1 DEF Receive, CacheHit
<1>2. CASE CacheMiss(c) \/ Decrypt(c) \/ DecryptFails(c) \/ Verify(c)
  BY <1>2 DEF CacheMiss, Decrypt, DecryptFails, Verify
<1>3. CASE Load(c)
  BY <1>3 DEF Load
<1>4. CASE Clear(c) \/ Deny(c) \/ Sign(c) \/ SignFails(c) \/ Reply(c)
  BY <1>4 DEF Deny, Sign, SignFails, Reply
<1> QED
  BY <1>1, <1>2, <1>3, <1>4 DEF Step

LEMMA ClearStep == ClearInv /\ [Next]_vars => ClearInv'
<1> SUFFICES ASSUME ClearInv, [Next]_vars
             PROVE  ClearInv'
  OBVIOUS
<1>0. LoadInv'
  BY LoadStep DEF ClearInv
<1>1. CASE UNCHANGED vars
  BY <1>0, <1>1 DEF ClearInv, Cleared, vars
<1>2. CASE Restart
  BY <1>0, <1>2 DEF ClearInv, Cleared, Restart, Idle
<1>3. ASSUME NEW c \in Conns, Step(c)
      PROVE  ClearInv'
  <2>1. image' = image
    BY <1>3, StepOfConn DEF ClearInv, LoadInv
  <2>2. ASSUME NEW d \in Conns \ {c}
        PROVE  Cleared(d)'
    <3>1. conn'[d] = conn[d]
      BY <1>3, StepOfConn DEF ClearInv, LoadInv
    <3> QED
      BY <2>1, <3>1 DEF ClearInv, Cleared
  <2>3. Cleared(c)'
    <3>1. SUFFICES ASSUME conn'[c].at \in {"cleared", "signed"}
                   PROVE  Cleared(c)'
      BY DEF Cleared
    <3>2. conn[c].at \in {"cleared", "signed"} \/ Clear(c)
      BY <1>3, <3>1, ByClear DEF ClearInv, LoadInv
    <3>3. conn[c] # Idle /\ conn'[c] # Idle
      BY <3>1, <3>2 DEF Idle, Clear, At
    <3>4. conn'[c].offer = conn[c].offer
      BY <1>3, <3>3, StepOfConn DEF ClearInv, LoadInv
    <3>5. CASE conn[c].at \in {"cleared", "signed"}
      BY <2>1, <3>4, <3>5 DEF ClearInv, Cleared
    <3>6. CASE Clear(c)
      BY <2>1, <3>4, <3>6 DEF Clear, Cleared
    <3> QED
      BY <3>2, <3>5, <3>6
  <2> QED
    BY <1>0, <2>2, <2>3 DEF ClearInv
<1> QED
  BY <1>1, <1>2, <1>3 DEF Next

THEOREM ClearTheorem == Spec => []ClearInv
<1>1. Init => ClearInv
  BY LoadInit DEF Init, ClearInv, Cleared, Idle
<1> QED
  BY <1>1, ClearStep, PTL DEF Spec

\* A policy with an intent key lets no route but the four that ask the agent, and
\* AsterDex, place an order.
LEMMA IntentRoutes ==
    ASSUME NEW p, NEW r, NEW img, p # None, p.intent # None, Passes(img, p, r),
           r.action \in Actions, r.action # "verify_blob",
           r.does = "order",
           r.action \notin {"sign_x402_eip3009", "sign_permit2_permit_single", "sign_data"}
    PROVE  r.action \in IntentActions \/ r.action = "sign_asterdex"
<1>1. PolicyAllows(p, r) /\ RouteAllows(img, p, r)
  BY DEF Passes
<1>2. p.order_caps # None /\ VenueOf(r) \notin HlVenues
  BY <1>1 DEF PolicyAllows
<1>3. r.action \notin HlOrderActions \union HlCancelActions
  BY <1>2 DEF VenueOf, VenueOfAction, HlVenues, HlOrderActions, HlCancelActions
<1>4. r.action # "sign_binance_request"
  BY <1>1, <1>2 DEF RouteAllows, BinanceRequest, HlOrderActions, HlCancelActions
<1>5. ASSUME r.action \in {"sign_binance", "sign_okx", "sign_bybit", "sign_kucoin"}
      PROVE  FALSE
  <2>1. Generic(p, r)
    BY <1>1, <1>5 DEF RouteAllows, HlOrderActions, HlCancelActions
  <2>2. "order" \in SafeForCapped(VenueOf(r))
    BY <1>2, <2>1 DEF Generic, Capped
  <2> QED
    BY <2>2 DEF SafeForCapped
<1> QED
  BY <1>3, <1>4, <1>5 DEF Actions, HttpActions, IntentActions

\* Under a policy with an intent key no order is signed unless the agent signed
\* exactly this order, whichever routes, policies and requests there are
\* (enforce_policy, enforce_agent_intent_order, the cap gates of the routes).
THEOREM IntendedTheorem == Spec => []OrdersAreIntended
<1>1. ClearInv => OrdersAreIntended
  <2> SUFFICES ASSUME ClearInv, NEW c \in Conns, Signed(c), PolicyOf(c) # None,
                      PolicyOf(c).intent # None, conn[c].offer.req.orders # <<>>,
                      Venue(conn[c].offer) # "asterdex"
               PROVE  LET r == conn[c].offer.req IN
                      /\ r.intent # None /\ r.intent.key = PolicyOf(c).intent
                      /\ r.intent.over = IntentOf(conn[c].offer.who, r)
    BY DEF OrdersAreIntended
  <2> DEFINE o == conn[c].offer
             p == conn[c].offer.blob.policy
  <2>1. conn[c] # Idle /\ conn[c].offer \in Offers[c]
    BY DEF ClearInv, LoadInv, ConnsOK, Idle, Signed
  <2>2. Passes(image, p, o.req) /\ (NeedsIntent(p, o.req) => IntentVerifies(p, o.who, o.req))
    BY DEF ClearInv, Cleared, Signed
  <2>3. o.req.action \in Actions /\ o.req.action # "verify_blob"
    BY <2>1, OffersAssumption DEF ClearInv, LoadInv, Loaded, Past, Signed
  <2>4. /\ o.req.does = "order"
        /\ o.req.action \notin {"sign_x402_eip3009", "sign_permit2_permit_single", "sign_data"}
    BY <2>1, OffersAssumption
  <2>5. o.req.action # "sign_asterdex"
    BY DEF Venue, VenueOf, VenueOfAction
  <2>6. o.req.action \in IntentActions
    BY <2>2, <2>3, <2>4, <2>5, IntentRoutes DEF PolicyOf
  <2>7. IntentVerifies(p, o.who, o.req)
    BY <2>2, <2>6 DEF NeedsIntent, PolicyOf
  <2> QED
    BY <2>7 DEF IntentVerifies, PolicyOf
<1> QED
  BY <1>1, ClearTheorem, PTL

-----------------------------------------------------------------------------
(* The replay window.                                                       *)

Intents == UNION {{IntentOf(o.who, o.req) : o \in Offers[c]} : c \in Conns}

\* The ledger is the tail of what was recorded: all of it, or the last MaxNonces.
LedgerIsTail ==
    /\ ledger \in Seq(Intents) /\ recorded \in Seq(Intents)
    /\ Len(ledger) <= Len(recorded) /\ Len(ledger) <= MaxNonces
    /\ Len(ledger) < MaxNonces => Len(ledger) = Len(recorded)
    /\ \A i \in 1..Len(ledger) : ledger[i] = recorded[Len(recorded) - Len(ledger) + i]

\* What is recorded twice is recorded more than MaxNonces apart.
Window ==
    \A i, j \in 1..Len(recorded) :
        i < j /\ recorded[i] = recorded[j] => j - i > MaxNonces

\* Connection c holds a record that it has not signed for yet.
Holds(c) ==
    /\ conn[c].at = "cleared"
    /\ NeedsIntent(conn[c].offer.blob.policy, conn[c].offer.req)

\* Records are held by one connection or signed for once.
Tickets ==
    /\ agreed \in Seq([intent : Intents, ticket : Nat])
    /\ \A i \in 1..Len(agreed) :
          /\ agreed[i].ticket \in 1..Len(recorded)
          /\ recorded[agreed[i].ticket] = agreed[i].intent
    /\ \A i, j \in 1..Len(agreed) : i # j => agreed[i].ticket # agreed[j].ticket
    /\ \A c \in Conns : Holds(c) =>
          /\ conn[c].ticket \in 1..Len(recorded)
          /\ recorded[conn[c].ticket] = IntentOf(conn[c].offer.who, conn[c].offer.req)
          /\ \A i \in 1..Len(agreed) : agreed[i].ticket # conn[c].ticket
          /\ \A d \in Conns : d # c /\ Holds(d) => conn[d].ticket # conn[c].ticket

ReplayInv == ConnsOK /\ LedgerIsTail /\ Window /\ Tickets

\* record_if_new keeps the ledger a tail and the window closed.
LEMMA RecordNew ==
    ASSUME LedgerIsTail, Window, NEW x \in Intents, Record(x, TRUE)
    PROVE  /\ LedgerIsTail' /\ Window'
           /\ Len(recorded') = Len(recorded) + 1
           /\ recorded'[Len(recorded) + 1] = x
           /\ \A i \in 1..Len(recorded) : recorded'[i] = recorded[i]
<1> DEFINE kept == IF Len(ledger) >= MaxNonces THEN Tail(ledger) ELSE ledger
           n == Len(ledger)
           m == Len(recorded)
<1>0. n \in Nat /\ m \in Nat /\ MaxNonces \in Nat /\ MaxNonces > 0
  BY LenProperties, SigningAssumption DEF LedgerIsTail
<1>1. /\ x \notin ToSet(ledger)
      /\ ledger' = Append(kept, x)
      /\ recorded' = Append(recorded, x)
  BY DEF Record
<1>2. \A i \in 1..n : ledger[i] # x
  BY <1>1, LenProperties DEF ToSet, LedgerIsTail
<1>3. /\ recorded' \in Seq(Intents)
      /\ Len(recorded') = m + 1
      /\ recorded'[m + 1] = x
      /\ \A i \in 1..m : recorded'[i] = recorded[i]
  BY <1>1, AppendProperties DEF LedgerIsTail
<1>4. LedgerIsTail'
  <2>1. CASE n >= MaxNonces
    <3>1. n = MaxNonces /\ ledger # <<>>
      BY <1>0, <2>1 DEF LedgerIsTail
    <3>2. /\ Tail(ledger) \in Seq(Intents)
          /\ Len(Tail(ledger)) = n - 1
          /\ \A i \in 1..(n - 1) : Tail(ledger)[i] = ledger[i + 1]
      BY <3>1, HeadTailProperties DEF LedgerIsTail
    <3>3. ledger' = Append(Tail(ledger), x)
      BY <1>1, <2>1
    <3>4. /\ ledger' \in Seq(Intents)
          /\ Len(ledger') = n
          /\ ledger'[n] = x
          /\ \A i \in 1..(n - 1) : ledger'[i] = ledger[i + 1]
      BY <1>0, <3>2, <3>3, AppendProperties
    <3>5. \A i \in 1..n : ledger'[i] = recorded'[m + 1 - n + i]
      <4> SUFFICES ASSUME NEW i \in 1..n
                   PROVE  ledger'[i] = recorded'[m + 1 - n + i]
        OBVIOUS
      <4>1. CASE i = n
        BY <1>0, <1>3, <3>4, <4>1
      <4>2. CASE i # n
        <5>1. i \in 1..(n - 1) /\ i + 1 \in 1..n /\ m - n + (i + 1) \in 1..m
          BY <1>0, <4>2 DEF LedgerIsTail
        <5>2. ledger'[i] = ledger[i + 1] /\ ledger[i + 1] = recorded[m - n + (i + 1)]
          BY <3>4, <5>1 DEF LedgerIsTail
        <5>3. m - n + (i + 1) = m + 1 - n + i
          BY <1>0
        <5> QED
          BY <1>3, <5>1, <5>2, <5>3
      <4> QED
        BY <4>1, <4>2
    <3> QED
      BY <1>0, <1>3, <3>1, <3>4, <3>5 DEF LedgerIsTail
  <2>2. CASE n < MaxNonces
    <3>1. ledger' = Append(ledger, x) /\ n = m
      BY <1>0, <1>1, <2>2 DEF LedgerIsTail
    <3>2. /\ ledger' \in Seq(Intents)
          /\ Len(ledger') = n + 1
          /\ ledger'[n + 1] = x
          /\ \A i \in 1..n : ledger'[i] = ledger[i]
      BY <3>1, AppendProperties DEF LedgerIsTail
    <3>3. \A i \in 1..(n + 1) : ledger'[i] = recorded'[m - n + i]
      BY <1>0, <1>3, <3>1, <3>2 DEF LedgerIsTail
    <3> QED
      BY <1>0, <1>3, <2>2, <3>1, <3>2, <3>3 DEF LedgerIsTail
  <2> QED
    BY <1>0, <2>1, <2>2
<1>5. \A i \in 1..m : recorded[i] = x => m + 1 - i > MaxNonces
  <2> SUFFICES ASSUME NEW i \in 1..m, recorded[i] = x, m + 1 - i <= MaxNonces
               PROVE  FALSE
    BY <1>0
  <2>1. i - (m - n) \in 1..n
    BY <1>0 DEF LedgerIsTail
  <2>2. ledger[i - (m - n)] = recorded[i]
    BY <1>0, <2>1 DEF LedgerIsTail
  <2> QED
    BY <1>2, <2>1, <2>2
<1>6. Window'
  <2> SUFFICES ASSUME NEW i \in 1..(m + 1), NEW j \in 1..(m + 1), i < j,
                      recorded'[i] = recorded'[j]
               PROVE  j - i > MaxNonces
    BY <1>3 DEF Window
  <2>1. CASE j = m + 1
    BY <1>0, <1>3, <1>5, <2>1
  <2>2. CASE j # m + 1
    BY <1>0, <1>3, <2>2 DEF Window
  <2> QED
    BY <2>1, <2>2
<1> QED
  BY <1>3, <1>4, <1>6

\* A step that records nothing and signs for no intent, and clears no request
\* that needs one, keeps the records.
LEMMA QuietRecords ==
    ASSUME ReplayInv, ConnsOK', UNCHANGED <<ledger, recorded, agreed>>,
           \A c \in Conns : Holds(c)' => conn'[c] = conn[c]
    PROVE  ReplayInv'
<1>1. LedgerIsTail' /\ Window'
  BY DEF ReplayInv, LedgerIsTail, Window
<1>2. \A c \in Conns : Holds(c)' => Holds(c)
  BY DEF Holds
<1>3. Tickets'
  BY <1>2 DEF ReplayInv, Tickets
<1> QED
  BY <1>1, <1>3 DEF ReplayInv

LEMMA ReplayStep == ReplayInv /\ [Next]_vars => ReplayInv'
<1> SUFFICES ASSUME ReplayInv, [Next]_vars
             PROVE  ReplayInv'
  OBVIOUS
<1> USE DEF At, GoTo, Refuse
<1>1. CASE UNCHANGED vars
  BY <1>1, QuietRecords DEF ReplayInv, ConnsOK, vars, tables, history, Holds
<1>2. CASE Restart
  <2>1. ConnsOK' /\ \A c \in Conns : ~Holds(c)'
    BY <1>2 DEF Restart, ConnsOK, Tasks, Idle, Holds
  <2>2. ledger' = <<>> /\ recorded' = <<>> /\ agreed' = <<>>
    BY <1>2 DEF Restart
  <2>3. LedgerIsTail' /\ Window' /\ Tickets'
    BY <2>1, <2>2, EmptySeq, SigningAssumption DEF LedgerIsTail, Window, Tickets
  <2> QED
    BY <2>1, <2>3 DEF ReplayInv
<1>3. ASSUME NEW c \in Conns, Step(c)
      PROVE  ReplayInv'
  <2>1. ConnsOK' /\ \A d \in Conns \ {c} : conn'[d] = conn[d]
    BY <1>3, StepOfConn DEF ReplayInv
  <2> DEFINE o == conn[c].offer
             p == conn[c].offer.blob.policy
             x == IntentOf(conn[c].offer.who, conn[c].offer.req)
  <2>2. ASSUME UNCHANGED <<ledger, recorded, agreed>>, ~Holds(c)'
        PROVE  ReplayInv'
    BY <2>1, <2>2, QuietRecords
  <2>3. CASE \E q \in Offers[c] : Receive(c, q)
    BY <2>2, <2>3 DEF Receive, Holds, ReplayInv, ConnsOK, tables, history
  <2>4. CASE CacheHit(c) \/ CacheMiss(c) \/ Decrypt(c)
    BY <2>2, <2>4 DEF CacheHit, CacheMiss, Decrypt, Holds, ReplayInv, ConnsOK, Tasks, Idle, history
  <2>5. CASE DecryptFails(c) \/ Verify(c) \/ Deny(c) \/ SignFails(c) \/ Reply(c)
    BY <2>2, <2>5 DEF DecryptFails, Verify, Deny, SignFails, Reply, Holds, ReplayInv, ConnsOK, Idle,
                      tables, history
  <2>6. CASE Load(c)
    BY <2>2, <2>6 DEF Load, Holds, ReplayInv, ConnsOK, Tasks, Idle, history
  <2>7. CASE Clear(c)
    <3>1. conn[c] # Idle /\ conn[c] \in Tasks /\ x \in Intents
      BY <2>7 DEF Clear, Idle, ReplayInv, ConnsOK, Intents
    <3>2. CASE ~NeedsIntent(p, o.req)
      <4>1. UNCHANGED <<ledger, recorded, agreed>> /\ conn' = [conn EXCEPT ![c].at = "cleared"]
        BY <2>7, <3>2 DEF Clear
      <4>2. ~Holds(c)'
        BY <3>1, <3>2, <4>1 DEF Holds, ReplayInv, ConnsOK, Tasks
      <4> QED
        BY <2>2, <4>1, <4>2
    <3>3. CASE NeedsIntent(p, o.req)
      <4>1. PICK new \in BOOLEAN :
              /\ Record(x, new)
              /\ IF new
                 THEN conn' = [conn EXCEPT ![c].at = "cleared", ![c].ticket = Len(recorded')]
                 ELSE Refuse(c)
        BY <2>7, <3>3 DEF Clear
      <4>2. agreed' = agreed
        BY <2>7 DEF Clear
      <4>3. CASE new = FALSE
        <5>1. UNCHANGED <<ledger, recorded>> /\ conn' = [conn EXCEPT ![c] = Idle]
          BY <4>1, <4>3 DEF Record
        <5>2. ~Holds(c)'
          BY <5>1 DEF Holds, ReplayInv, ConnsOK, Idle
        <5> QED
          BY <2>2, <4>2, <5>1, <5>2
      <4>4. CASE new = TRUE
        <5>1. Record(x, TRUE)
          BY <4>1, <4>4
        <5>2. /\ LedgerIsTail' /\ Window'
              /\ Len(recorded') = Len(recorded) + 1
              /\ recorded'[Len(recorded) + 1] = x
              /\ \A i \in 1..Len(recorded) : recorded'[i] = recorded[i]
          BY <3>1, <5>1, RecordNew DEF ReplayInv
        <5>3. Len(recorded) \in Nat
          BY LenProperties DEF ReplayInv, LedgerIsTail
        <5>4. /\ conn'[c].ticket = Len(recorded) + 1
              /\ conn'[c].offer = conn[c].offer
          BY <3>1, <4>1, <4>4, <5>2 DEF ReplayInv, ConnsOK, Tasks
        <5>5. \A d \in Conns \ {c} : Holds(d)' = Holds(d)
          BY <2>1 DEF Holds
        <5>6. \A d \in Conns \ {c} : Holds(d) => conn'[d].ticket \in 1..Len(recorded)
          BY <2>1 DEF ReplayInv, Tickets
        <5>7. /\ agreed' \in Seq([intent : Intents, ticket : Nat])
              /\ \A i \in 1..Len(agreed') :
                    /\ agreed'[i].ticket \in 1..Len(recorded')
                    /\ recorded'[agreed'[i].ticket] = agreed'[i].intent
                    /\ agreed'[i].ticket # conn'[c].ticket
              /\ \A i, j \in 1..Len(agreed') : i # j => agreed'[i].ticket # agreed'[j].ticket
          BY <4>2, <5>2, <5>3, <5>4 DEF ReplayInv, Tickets
        <5>8. /\ conn'[c].ticket \in 1..Len(recorded')
              /\ recorded'[conn'[c].ticket] = IntentOf(conn'[c].offer.who, conn'[c].offer.req)
              /\ \A d \in Conns : d # c /\ Holds(d)' => conn'[d].ticket # conn'[c].ticket
          BY <5>2, <5>3, <5>4, <5>5, <5>6
        <5>9. ASSUME NEW d \in Conns \ {c}, Holds(d)'
              PROVE  /\ conn'[d].ticket \in 1..Len(recorded')
                     /\ recorded'[conn'[d].ticket] = IntentOf(conn'[d].offer.who, conn'[d].offer.req)
                     /\ \A i \in 1..Len(agreed') : agreed'[i].ticket # conn'[d].ticket
                     /\ \A e \in Conns : e # d /\ Holds(e)' => conn'[e].ticket # conn'[d].ticket
          <6>1. Holds(d) /\ conn'[d] = conn[d]
            BY <2>1, <5>5, <5>9
          <6>2. /\ conn[d].ticket \in 1..Len(recorded)
                /\ recorded[conn[d].ticket] = IntentOf(conn[d].offer.who, conn[d].offer.req)
                /\ \A i \in 1..Len(agreed) : agreed[i].ticket # conn[d].ticket
                /\ \A e \in Conns : e # d /\ Holds(e) => conn[e].ticket # conn[d].ticket
            BY <6>1 DEF ReplayInv, Tickets
          <6>3. \A e \in Conns : e # d /\ Holds(e)' => conn'[e].ticket # conn'[d].ticket
            BY <2>1, <5>3, <5>4, <5>5, <6>1, <6>2
          <6> QED
            BY <4>2, <5>2, <5>3, <6>1, <6>2, <6>3
        <5>10. Tickets'
          BY <5>7, <5>8, <5>9 DEF Tickets
        <5> QED
          BY <2>1, <5>2, <5>10 DEF ReplayInv
      <4> QED
        BY <4>3, <4>4
    <3> QED
      BY <3>2, <3>3
  <2>8. CASE Sign(c)
    <3>1. conn[c] # Idle /\ conn[c] \in Tasks /\ x \in Intents
      BY <2>8 DEF Sign, Idle, ReplayInv, ConnsOK, Intents
    <3>2. UNCHANGED <<ledger, recorded>> /\ conn' = [conn EXCEPT ![c].at = "signed"]
      BY <2>8 DEF Sign, tables
    <3>3. ~Holds(c)'
      BY <3>1, <3>2 DEF Holds, ReplayInv, ConnsOK, Tasks
    <3>4. CASE ~NeedsIntent(p, o.req)
      <4>1. agreed' = agreed
        BY <2>8, <3>4 DEF Sign
      <4> QED
        BY <2>2, <3>2, <3>3, <4>1
    <3>5. CASE NeedsIntent(p, o.req)
      <4> DEFINE entry == [intent |-> x, ticket |-> conn[c].ticket]
                 n == Len(agreed)
      <4>1. agreed' = Append(agreed, entry)
        BY <2>8, <3>5 DEF Sign
      <4>2. Holds(c)
        BY <2>8, <3>5 DEF Sign, Holds
      <4>3. /\ conn[c].ticket \in 1..Len(recorded)
            /\ recorded[conn[c].ticket] = x
            /\ \A i \in 1..n : agreed[i].ticket # conn[c].ticket
            /\ \A d \in Conns : d # c /\ Holds(d) => conn[d].ticket # conn[c].ticket
        BY <4>2 DEF ReplayInv, Tickets
      <4>4. entry \in [intent : Intents, ticket : Nat] /\ n \in Nat
        BY <3>1, <4>3, LenProperties DEF ReplayInv, Tickets
      <4>5. /\ agreed' \in Seq([intent : Intents, ticket : Nat])
            /\ Len(agreed') = n + 1
            /\ agreed'[n + 1] = entry
            /\ \A i \in 1..n : agreed'[i] = agreed[i]
        BY <4>1, <4>4, AppendProperties DEF ReplayInv, Tickets
      <4>6. /\ entry.intent = x /\ entry.ticket = conn[c].ticket
        OBVIOUS
      <4> HIDE DEF entry
      <4>7. ASSUME NEW i \in 1..Len(agreed')
            PROVE  /\ agreed'[i].ticket \in 1..Len(recorded)
                   /\ recorded[agreed'[i].ticket] = agreed'[i].intent
                   /\ i \in 1..n \/ i = n + 1
        <5>1. i \in 1..n \/ i = n + 1
          BY <4>4, <4>5
        <5>2. CASE i \in 1..n
          BY <4>5, <5>2 DEF ReplayInv, Tickets
        <5>3. CASE i = n + 1
          BY <4>3, <4>5, <4>6, <5>3
        <5> QED
          BY <5>1, <5>2, <5>3
      <4>8. ASSUME NEW i \in 1..Len(agreed'), NEW j \in 1..Len(agreed'), i # j
            PROVE  agreed'[i].ticket # agreed'[j].ticket
        <5>1. /\ i \in 1..n \/ i = n + 1
              /\ j \in 1..n \/ j = n + 1
          BY <4>7
        <5>2. CASE i \in 1..n /\ j \in 1..n
          BY <4>5, <4>8, <5>2 DEF ReplayInv, Tickets
        <5>3. CASE i \in 1..n /\ j = n + 1
          BY <4>3, <4>5, <4>6, <5>3
        <5>4. CASE i = n + 1 /\ j \in 1..n
          BY <4>3, <4>5, <4>6, <5>4
        <5> QED
          BY <4>8, <5>1, <5>2, <5>3, <5>4
      <4>9. ASSUME NEW d \in Conns, Holds(d)'
            PROVE  /\ d # c /\ conn'[d] = conn[d] /\ Holds(d)
                   /\ \A i \in 1..Len(agreed') : agreed'[i].ticket # conn'[d].ticket
        <5>1. d # c /\ conn'[d] = conn[d] /\ Holds(d)
          BY <2>1, <3>3, <4>9 DEF Holds
        <5>2. /\ \A i \in 1..n : agreed[i].ticket # conn[d].ticket
              /\ conn[c].ticket # conn[d].ticket
          BY <4>3, <5>1 DEF ReplayInv, Tickets
        <5> QED
          BY <4>4, <4>5, <4>6, <5>1, <5>2
      <4>10. Tickets'
        BY <3>2, <4>5, <4>7, <4>8, <4>9 DEF ReplayInv, Tickets
      <4>11. LedgerIsTail' /\ Window'
        BY <3>2 DEF ReplayInv, LedgerIsTail, Window
      <4> QED
        BY <2>1, <4>10, <4>11 DEF ReplayInv
    <3> QED
      BY <3>4, <3>5
  <2> QED
    BY <1>3, <2>3, <2>4, <2>5, <2>6, <2>7, <2>8 DEF Step
<1> QED
  BY <1>1, <1>2, <1>3 DEF Next

LEMMA ReplayTheorem == Spec => []ReplayInv
<1>1. Init => ReplayInv
  <2> SUFFICES ASSUME Init
               PROVE  ReplayInv
    OBVIOUS
  <2>1. ConnsOK /\ \A c \in Conns : ~Holds(c)
    BY ConnsInit DEF Init, Holds, Idle
  <2>2. ledger = <<>> /\ recorded = <<>> /\ agreed = <<>>
    BY DEF Init
  <2>3. LedgerIsTail /\ Window /\ Tickets
    BY <2>1, <2>2, EmptySeq, SigningAssumption DEF LedgerIsTail, Window, Tickets
  <2> QED
    BY <2>1, <2>3 DEF ReplayInv
<1> QED
  BY <1>1, ReplayStep, PTL DEF Spec

\* Two signatures over one intent were recorded more than MaxNonces intents apart,
\* for any number of connections and any capacity of the ledger (record_if_new).
THEOREM IntentTheorem == Spec => []IntentOnce
<1>1. ReplayInv => IntentOnce
  <2> SUFFICES ASSUME ReplayInv, NEW i \in DOMAIN agreed, NEW j \in DOMAIN agreed, i # j,
                      agreed[i].intent = agreed[j].intent
               PROVE  \/ agreed[i].ticket - agreed[j].ticket > MaxNonces
                      \/ agreed[j].ticket - agreed[i].ticket > MaxNonces
    BY DEF IntentOnce
  <2>1. DOMAIN agreed = 1..Len(agreed) /\ Len(recorded) \in Nat /\ MaxNonces \in Nat
    BY LenProperties, SigningAssumption DEF ReplayInv, Tickets, LedgerIsTail
  <2>2. /\ agreed[i].ticket \in 1..Len(recorded) /\ agreed[j].ticket \in 1..Len(recorded)
        /\ agreed[i].ticket # agreed[j].ticket
        /\ recorded[agreed[i].ticket] = recorded[agreed[j].ticket]
    BY <2>1 DEF ReplayInv, Tickets
  <2> QED
    BY <2>1, <2>2 DEF ReplayInv, Window
<1> QED
  BY <1>1, ReplayTheorem, PTL


-----------------------------------------------------------------------------
(* The DEK cache.  A hit opens a blob without KMS, so what KMS would have   *)
(* checked must follow from the entry: each entry was put by a request that *)
(* KMS let through under the same context and data key.                     *)

AllOffers == UNION {Offers[c] : c \in Conns}

\* The cache keys of requests that KMS lets through.
Vouched == {CacheKey(o) : o \in {x \in AllOffers : x.blob.dek # None /\ x.blob.ctx = Context(x)}}

CacheOK == cache \in Seq(Vouched) /\ IsInjective(cache) /\ Len(cache) <= MaxDeks

\* RemoveFirst on a sequence without repeats.
LEMMA RemovedKey ==
    ASSUME NEW S, NEW s \in Seq(S), IsInjective(s), NEW e
    PROVE  LET r == RemoveFirst(s, e) IN
           /\ r \in Seq(S) /\ IsInjective(r) /\ Len(r) <= Len(s)
           /\ e \in ToSet(s) => Len(r) = Len(s) - 1
           /\ \A i \in 1..Len(r) : r[i] # e
<1>0. Len(s) \in Nat /\ DOMAIN s = 1..Len(s)
  OBVIOUS
<1>1. CASE e \notin ToSet(s)
  <2>1. \A i \in 1..Len(s) : s[i] # e
    BY <1>0, <1>1 DEF ToSet
  <2>2. RemoveFirst(s, e) = s
    BY <2>1 DEF RemoveFirst
  <2>3. Len(s) <= Len(s)
    BY <1>0
  <2> QED
    BY <1>1, <2>1, <2>2, <2>3, Zenon
<1>2. CASE e \in ToSet(s)
  <2>1. PICK n \in 1..Len(s) : s[n] = e
    BY <1>0, <1>2 DEF ToSet
  <2>2. {i \in 1..Len(s) : s[i] = e} = {n}
    BY <1>0, <2>1 DEF IsInjective
  <2>3. Min({n}) = n
    BY DEF Min
  <2>4. SelectInSeq(s, LAMBDA v : v = e) = n
    BY <2>2, <2>3 DEF SelectInSeq
  <2> DEFINE a == SubSeq(s, 1, n - 1)
             b == SubSeq(s, n + 1, Len(s))
             r == a \o b
  <2>5. RemoveFirst(s, e) = r
    BY <2>1, <2>4 DEF RemoveFirst, RemoveAt
  <2>6. a \in Seq(S) /\ Len(a) = n - 1 /\ \A i \in 1..(n - 1) : a[i] = s[i]
    OBVIOUS
  <2>7. b \in Seq(S) /\ Len(b) = Len(s) - n /\ \A i \in 1..(Len(s) - n) : b[i] = s[n + i]
    OBVIOUS
  <2>8. r \in Seq(S) /\ Len(r) = Len(s) - 1 /\ DOMAIN r = 1..(Len(s) - 1)
    <3> HIDE DEF a, b
    <3>1. r \in Seq(S) /\ Len(r) = Len(a) + Len(b)
      BY <2>6, <2>7, ConcatProperties
    <3>2. Len(a) + Len(b) = Len(s) - 1
      BY <1>0, <2>6, <2>7
    <3> HIDE DEF r
    <3> QED
      BY <3>1, <3>2
  <2>9. \A i \in 1..(Len(s) - 1) : r[i] = IF i < n THEN s[i] ELSE s[i + 1]
    <3> SUFFICES ASSUME NEW i \in 1..(Len(s) - 1) PROVE r[i] = IF i < n THEN s[i] ELSE s[i + 1]
      OBVIOUS
    <3>1. CASE i < n
      <4>1. i \in 1..(n - 1)
        BY <3>1
      <4> HIDE DEF a, b
      <4> QED
        BY <2>6, <2>7, <3>1, <4>1
    <3>2. CASE ~(i < n)
      <4>1. i - (n - 1) \in 1..(Len(s) - n) /\ n + (i - (n - 1)) = i + 1
        BY <1>0, <3>2
      <4>2. r[i] = b[i - (n - 1)]
        <5> HIDE DEF a, b
        <5> QED
          BY <1>0, <2>6, <2>7, <3>2
      <4> QED
        BY <2>7, <3>2, <4>1, <4>2
    <3> QED
      BY <3>1, <3>2
  <2> DEFINE at(i) == IF i < n THEN i ELSE i + 1
  <2>10. \A i \in 1..(Len(s) - 1) : at(i) \in 1..Len(s) /\ at(i) # n /\ r[i] = s[at(i)]
    <3> HIDE DEF r
    <3> QED
      BY <1>0, <2>9
  <2>11. \A i, j \in 1..(Len(s) - 1) : at(i) = at(j) => i = j
    BY <1>0
  <2>12. \A i \in 1..(Len(s) - 1) : r[i] # e
    <3> HIDE DEF r, at
    <3> QED
      BY <1>0, <2>1, <2>10 DEF IsInjective
  <2>13. IsInjective(r)
    <3> HIDE DEF r, at
    <3> QED
      BY <1>0, <2>8, <2>10, <2>11 DEF IsInjective
  <2> HIDE DEF r
  <2> QED
    BY <1>0, <2>5, <2>8, <2>12, <2>13
<1> QED
  BY <1>1, <1>2


\* A key that is not in the cache goes to its end, and the first makes room.
LEMMA AppendedKey ==
    ASSUME NEW S, NEW s \in Seq(S), IsInjective(s), NEW e \in S, \A i \in 1..Len(s) : s[i] # e
    PROVE  /\ Append(s, e) \in Seq(S) /\ IsInjective(Append(s, e))
           /\ Len(Append(s, e)) = Len(s) + 1
           /\ Tail(Append(s, e)) \in Seq(S) /\ IsInjective(Tail(Append(s, e)))
           /\ Len(Tail(Append(s, e))) = Len(s)
<1> DEFINE t == Append(s, e)
           n == Len(s)
           u == Tail(t)
<1>1. /\ n \in Nat /\ DOMAIN s = 1..n
      /\ t \in Seq(S) /\ Len(t) = n + 1 /\ DOMAIN t = 1..(n + 1) /\ t # <<>>
      /\ \A i \in 1..n : t[i] = s[i]
      /\ t[n + 1] = e
  <2>1. n \in Nat /\ DOMAIN s = 1..n
    OBVIOUS
  <2>2. t \in Seq(S) /\ Len(t) = n + 1 /\ t # <<>>
    BY AppendProperties
  <2>3. DOMAIN t = 1..(n + 1)
    BY <2>2
  <2>4. (\A i \in 1..n : t[i] = s[i]) /\ t[n + 1] = e
    BY AppendProperties
  <2> QED
    BY <2>1, <2>2, <2>3, <2>4
<1>2. IsInjective(t)
  <2>1. \A i \in 1..(n + 1) : i \in 1..n \/ i = n + 1
    BY <1>1
  <2> HIDE DEF t, n
  <2> QED
    BY <1>1, <2>1 DEF IsInjective, n
<1>3. /\ u \in Seq(S) /\ Len(u) = n /\ DOMAIN u = 1..n
      /\ \A i \in 1..n : u[i] = t[i + 1]
  <2> HIDE DEF t, n
  <2>1. u \in Seq(S) /\ Len(u) = Len(t) - 1 /\ DOMAIN u = 1..Len(u)
    BY <1>1
  <2>2. \A i \in 1..Len(u) : u[i] = t[i + 1]
    BY <1>1
  <2>3. Len(u) = n
    BY <1>1, <2>1
  <2> QED
    BY <2>1, <2>2, <2>3
<1>4. IsInjective(u)
  <2>1. \A i \in 1..n : i + 1 \in 1..(n + 1)
    BY <1>1
  <2>2. \A i, j \in 1..n : i + 1 = j + 1 => i = j
    BY <1>1
  <2> HIDE DEF t, n, u
  <2>3. \A i, j \in 1..(n + 1) : t[i] = t[j] => i = j
    BY <1>1, <1>2 DEF IsInjective
  <2>4. \A i, j \in 1..n : u[i] = u[j] => i = j
    BY <1>3, <2>1, <2>2, <2>3
  <2> QED
    BY <1>3, <2>4 DEF IsInjective
<1> QED
  BY <1>1, <1>2, <1>3, <1>4

LEMMA CacheStep ==
    ASSUME ConnsOK, CacheOK, NEW c \in Conns, Step(c)
    PROVE  CacheOK'
<1> DEFINE o == conn[c].offer
           k == CacheKey(o)
           r == RemoveFirst(cache, k)
<1>0. Vouched' = Vouched
  BY DEF Vouched, AllOffers, CacheKey, Context, Venue
<1>1. /\ r \in Seq(Vouched) /\ IsInjective(r) /\ Len(r) <= Len(cache) /\ Len(r) <= MaxDeks
      /\ k \in ToSet(cache) => Len(r) = Len(cache) - 1
      /\ \A i \in 1..Len(r) : r[i] # k
      /\ Len(r) \in Nat /\ Len(cache) \in Nat /\ MaxDeks \in Nat
  <2>1. cache \in Seq(Vouched) /\ IsInjective(cache) /\ Len(cache) <= MaxDeks
    BY DEF CacheOK
  <2>2. /\ r \in Seq(Vouched) /\ IsInjective(r) /\ Len(r) <= Len(cache)
        /\ k \in ToSet(cache) => Len(r) = Len(cache) - 1
        /\ \A i \in 1..Len(r) : r[i] # k
    BY <2>1, RemovedKey
  <2>3. Len(r) \in Nat /\ Len(cache) \in Nat /\ MaxDeks \in Nat
    BY <2>1, <2>2, SigningAssumption, LenProperties
  <2> HIDE DEF r
  <2> QED
    BY <2>1, <2>2, <2>3
<1>2. k \in Vouched =>
         /\ Append(r, k) \in Seq(Vouched) /\ IsInjective(Append(r, k)) /\ Len(Append(r, k)) = Len(r) + 1
         /\ Tail(Append(r, k)) \in Seq(Vouched) /\ IsInjective(Tail(Append(r, k)))
         /\ Len(Tail(Append(r, k))) = Len(r)
  <2> HIDE DEF r, k
  <2> QED
    BY <1>1, AppendedKey
<1>3. CASE UNCHANGED cache
  BY <1>0, <1>3 DEF CacheOK
<1>4. CASE CacheHit(c)
  <2>1. k \in ToSet(cache) /\ cache' = Append(r, k)
    BY <1>4 DEF CacheHit
  <2>2. k \in Vouched
    BY <2>1 DEF CacheOK, ToSet
  <2>3. Len(Append(r, k)) = Len(cache)
    <3> HIDE DEF r, k
    <3> QED
      BY <1>1, <1>2, <2>1, <2>2
  <2> QED
    BY <1>0, <1>2, <2>1, <2>2, <2>3 DEF CacheOK
<1>5. CASE CacheMiss(c)
  <2>1. cache' = r
    BY <1>5 DEF CacheMiss
  <2> QED
    BY <1>0, <1>1, <2>1 DEF CacheOK
<1>6. CASE Decrypt(c) /\ cache' # cache
  <2>1. /\ Put(k) /\ o.blob.dek # None /\ o.blob.ctx = Context(o) /\ conn[c].at = "kms"
    BY <1>6 DEF Decrypt, At
  <2>2. o \in AllOffers
    BY <2>1 DEF ConnsOK, AllOffers, Idle
  <2>3. k \in Vouched
    BY <2>1, <2>2 DEF Vouched
  <2>4. cache' = IF Len(Append(r, k)) > MaxDeks THEN Tail(Append(r, k)) ELSE Append(r, k)
    BY <2>1 DEF Put
  <2> HIDE DEF r, k
  <2>5. CASE Len(Append(r, k)) > MaxDeks
    BY <1>0, <1>1, <1>2, <2>3, <2>4, <2>5 DEF CacheOK
  <2>6. CASE ~(Len(Append(r, k)) > MaxDeks)
    BY <1>0, <1>1, <1>2, <2>3, <2>4, <2>6 DEF CacheOK
  <2> QED
    BY <2>5, <2>6
<1> QED
  BY <1>3, <1>4, <1>5, <1>6 DEF Step, Receive, DecryptFails, Verify, Load, Clear, Deny, Sign,
                                SignFails, Reply, tables


Open == {"opened", "loaded", "cleared", "signed"}

\* A request in progress was admitted, and what it opened is its own.
AtHome(c) ==
    LET o == conn[c].offer IN
    /\ conn[c].at # "idle" => Admits(o)
    /\ conn[c].at \in Open =>
          o.blob.ctx = Context(o) /\ (o.blob.dek # None => o.blob.aad = Context(o))

HomeInv == ConnsOK /\ CacheOK /\ \A c \in Conns : AtHome(c)

\* A cached data key opens only what KMS would have opened: the entry's context
\* and data key are the request's, and a data key has one context.
LEMMA HitIsVouched ==
    ASSUME CacheOK, NEW c \in Conns, NEW o \in Offers[c], CacheKey(o) \in ToSet(cache)
    PROVE  o.blob.ctx = Context(o)
<1>1. CacheKey(o) \in Vouched
  BY DEF CacheOK, ToSet
<1>2. PICK x \in AllOffers : x.blob.dek # None /\ x.blob.ctx = Context(x) /\ CacheKey(x) = CacheKey(o)
  BY <1>1 DEF Vouched
<1>3. x.blob.dek = o.blob.dek /\ Context(x) = Context(o)
  BY <1>2 DEF CacheKey
<1>4. PICK d \in Conns : x \in Offers[d]
  BY DEF AllOffers
<1>5. x.blob.ctx = o.blob.ctx
  BY <1>2, <1>3, <1>4, WrappedOnce
<1> QED
  BY <1>2, <1>3, <1>5

\* A request opens its blob only by a cache hit or by KMS.
LEMMA ByOpening ==
    ASSUME ConnsOK, NEW c \in Conns, Step(c), conn'[c].at \in Open, conn[c].at \notin Open
    PROVE  conn[c].at # "idle" /\ ((CacheHit(c) /\ Opens(conn[c].offer)) \/ Decrypt(c))
<1> USE DEF ConnsOK, Tasks, Idle, Stages, At, GoTo, Refuse, Open
<1>1. CASE \E o \in Offers[c] : Receive(c, o)
  BY <1>1 DEF Receive
<1>2. CASE CacheHit(c)
  BY <1>2 DEF CacheHit
<1>3. CASE CacheMiss(c) \/ Decrypt(c) \/ DecryptFails(c) \/ Verify(c)
  BY <1>3 DEF CacheMiss, Decrypt, DecryptFails, Verify
<1>4. CASE Load(c) \/ Clear(c) \/ Deny(c) \/ Sign(c) \/ SignFails(c) \/ Reply(c)
  BY <1>4 DEF Load, Clear, Deny, Sign, SignFails, Reply
<1> QED
  BY <1>1, <1>2, <1>3, <1>4 DEF Step

\* A request in progress was admitted when it came in.
LEMMA ByReceiving ==
    ASSUME ConnsOK, NEW c \in Conns, Step(c), conn'[c].at # "idle", conn[c].at = "idle"
    PROVE  Admits(conn'[c].offer) /\ conn'[c].at = "lookup"
<1> USE DEF ConnsOK, Tasks, Idle, Stages, At, GoTo, Refuse
<1>1. CASE \E o \in Offers[c] : Receive(c, o)
  BY <1>1 DEF Receive
<1>2. CASE CacheHit(c) \/ CacheMiss(c) \/ Decrypt(c) \/ DecryptFails(c) \/ Verify(c)
  BY <1>2 DEF CacheHit, CacheMiss, Decrypt, DecryptFails, Verify
<1>3. CASE Load(c) \/ Clear(c) \/ Deny(c) \/ Sign(c) \/ SignFails(c) \/ Reply(c)
  BY <1>3 DEF Load, Clear, Deny, Sign, SignFails, Reply
<1> QED
  BY <1>1, <1>2, <1>3 DEF Step

LEMMA HomeStep == HomeInv /\ [Next]_vars => HomeInv'
<1> SUFFICES ASSUME HomeInv, [Next]_vars PROVE HomeInv'
  OBVIOUS
<1>1. CASE UNCHANGED vars
  <2>1. conn' = conn /\ cache' = cache
    BY <1>1 DEF vars, tables
  <2> QED
    BY <2>1 DEF HomeInv, ConnsOK, CacheOK, AtHome, Vouched, AllOffers
<1>2. CASE Restart
  <2>1. cache' = <<>> /\ conn' = [c \in Conns |-> Idle]
    BY <1>2 DEF Restart
  <2>2. CacheOK'
    BY <2>1, SigningAssumption DEF CacheOK, IsInjective
  <2> QED
    BY <2>1, <2>2 DEF HomeInv, ConnsOK, AtHome, Idle, Tasks, Open
<1>3. ASSUME NEW c \in Conns, Step(c)
      PROVE  HomeInv'
  <2>1. ConnsOK' /\ CacheOK' /\ \A d \in Conns \ {c} : conn'[d] = conn[d]
    BY <1>3, StepOfConn, CacheStep DEF HomeInv
  <2>2. ASSUME NEW d \in Conns \ {c} PROVE AtHome(d)'
    BY <2>1 DEF HomeInv, AtHome
  <2>3. AtHome(c)'
    <3>1. SUFFICES ASSUME conn'[c].at # "idle" PROVE AtHome(c)'
      BY DEF AtHome, Open
    <3>2. CASE conn[c].at = "idle"
      BY <1>3, <3>1, <3>2, ByReceiving DEF HomeInv, AtHome, Open
    <3>3. CASE conn[c].at # "idle"
      <4>1. conn[c] # Idle /\ conn'[c] # Idle
        BY <3>1, <3>3 DEF Idle
      <4>2. conn'[c].offer = conn[c].offer /\ conn[c].offer \in Offers[c]
        BY <1>3, <4>1, StepOfConn DEF HomeInv, ConnsOK
      <4>3. Admits(conn[c].offer)
        BY <3>3 DEF HomeInv, AtHome
      <4> DEFINE o == conn[c].offer
      <4>4. conn'[c].at \in Open =>
               o.blob.ctx = Context(o) /\ (o.blob.dek # None => o.blob.aad = Context(o))
        <5>1. CASE conn[c].at \in Open
          BY <5>1 DEF HomeInv, AtHome
        <5>2. CASE conn'[c].at \in Open /\ conn[c].at \notin Open
          <6>1. (CacheHit(c) /\ Opens(o)) \/ Decrypt(c)
            BY <1>3, <5>2, ByOpening DEF HomeInv
          <6>2. CASE CacheHit(c) /\ Opens(o)
            BY <4>2, <6>2, HitIsVouched DEF HomeInv, CacheHit, Opens
          <6>3. CASE Decrypt(c)
            <7>1. o.blob.dek # None => Opens(o)
              BY <5>2, <6>3 DEF Decrypt, Refuse, Open, Idle, HomeInv, ConnsOK
            <7> QED
              BY <6>3, <7>1 DEF Decrypt, Opens
          <6> QED
            BY <6>1, <6>2, <6>3
        <5> QED
          BY <5>1, <5>2
      <4> QED
        BY <4>2, <4>3, <4>4 DEF AtHome
    <3> QED
      BY <3>2, <3>3
  <2> QED
    BY <2>1, <2>2, <2>3 DEF HomeInv
<1> QED
  BY <1>1, <1>2, <1>3 DEF Next

LEMMA HomeTheorem == Spec => []HomeInv
<1>1. Init => HomeInv
  <2> SUFFICES ASSUME Init PROVE HomeInv
    OBVIOUS
  <2>1. CacheOK
    BY SigningAssumption DEF Init, CacheOK, IsInjective
  <2> QED
    BY <2>1, ConnsInit DEF Init, HomeInv, AtHome, Idle, Open
<1> QED
  BY <1>1, HomeStep, PTL DEF Spec

\* A secret is opened only for the tenant it was sealed to and on a venue of its
\* grant, from KMS or from the cache, for any number of connections and any
\* capacity of the cache (load_secret_for, DekCache).
THEOREM SecretsTheorem == Spec => []SecretsStayHome
<1>1. HomeInv => SecretsStayHome
  BY DEF HomeInv, AtHome, Open, Admits, Context, SecretsStayHome
<1> QED
  BY <1>1, HomeTheorem, PTL


-----------------------------------------------------------------------------
(* The tables' capacities.                                                  *)

PinsOK == IsFiniteSet(DOMAIN pins) /\ Cardinality(DOMAIN pins) <= MaxPins

\* verify_and_pin adds a key only while the store has room.
LEMMA PinsStep ==
    ASSUME PinsOK, NEW c \in Conns, Step(c)
    PROVE  PinsOK'
<1>1. CASE UNCHANGED pins
  BY <1>1 DEF PinsOK
<1>2. CASE Load(c) /\ pins' # pins
  <2> DEFINE k == TofuKey(conn[c].offer)
  <2>1. PICK ok \in BOOLEAN : Pin(conn[c].offer, ok)
    BY <1>2 DEF Load, Accepted
  <2>2. /\ ok /\ k \notin DOMAIN pins
        /\ pins' = [x \in DOMAIN pins \union {k} |->
                       IF x = k THEN conn[c].offer.blob.policy.signer ELSE pins[x]]
    BY <1>2, <2>1 DEF Pin
  <2>3. ~(Cardinality(DOMAIN pins) >= MaxPins)
    <3>1. ok = (conn[c].offer.blob.policy.signed = "valid" /\
                IF k \in DOMAIN pins THEN pins[k] = conn[c].offer.blob.policy.signer
                ELSE ~(Cardinality(DOMAIN pins) >= MaxPins))
      BY <2>1 DEF Pin
    <3> HIDE DEF k
    <3> QED
      BY <2>2, <3>1
  <2>4. DOMAIN pins' = DOMAIN pins \union {k}
    BY <2>2
  <2>5. IsFiniteSet(DOMAIN pins') /\ Cardinality(DOMAIN pins') = Cardinality(DOMAIN pins) + 1
    BY <2>2, <2>4, FS_AddElement DEF PinsOK
  <2>6. Cardinality(DOMAIN pins) \in Nat /\ MaxPins \in Nat
    BY FS_CardinalityType, SigningAssumption DEF PinsOK
  <2> QED
    BY <2>3, <2>5, <2>6 DEF PinsOK
<1> QED
  BY <1>1, <1>2 DEF Step, Receive, CacheHit, CacheMiss, Decrypt, DecryptFails, Verify, Clear, Deny,
                    Sign, SignFails, Reply, tables

\* Requests and restarts keep to their bounds.
CountsOK == image \in Images /\ requests <= MaxRequests /\ boots \in Nat /\ boots <= MaxBoots

LEMMA CountsStep == CountsOK /\ [Next]_vars => CountsOK'
<1> SUFFICES ASSUME CountsOK, [Next]_vars PROVE CountsOK'
  OBVIOUS
<1> USE SigningAssumption DEF CountsOK
<1>1. CASE UNCHANGED vars
  BY <1>1 DEF vars
<1>2. CASE Restart
  BY <1>2 DEF Restart
<1>3. ASSUME NEW c \in Conns, NEW o \in Offers[c], Receive(c, o) PROVE CountsOK'
  BY <1>3 DEF Receive
<1>4. ASSUME NEW c \in Conns, Step(c), ~\E o \in Offers[c] : Receive(c, o) PROVE CountsOK'
  BY <1>4 DEF Step, CacheHit, CacheMiss, Decrypt, DecryptFails, Verify, Load, Clear, Deny, Sign,
              SignFails, Reply
<1> QED
  BY <1>1, <1>2, <1>3, <1>4 DEF Next

LEMMA PinsTheorem == Spec => [](PinsOK /\ CountsOK)
<1>1. Init => PinsOK /\ CountsOK
  <2> SUFFICES ASSUME Init PROVE PinsOK /\ CountsOK
    OBVIOUS
  <2>1. DOMAIN pins = {}
    BY DEF Init
  <2> QED
    BY <2>1, FS_EmptySet, SigningAssumption DEF Init, PinsOK, CountsOK
<1>2. PinsOK /\ [Next]_vars => PinsOK'
  <2> SUFFICES ASSUME PinsOK, [Next]_vars PROVE PinsOK'
    OBVIOUS
  <2>1. CASE UNCHANGED vars
    BY <2>1 DEF vars, tables, PinsOK
  <2>2. CASE Restart
    <3>1. DOMAIN pins' = {}
      BY <2>2 DEF Restart
    <3> QED
      BY <3>1, FS_EmptySet, SigningAssumption DEF PinsOK
  <2> QED
    BY <2>1, <2>2, PinsStep DEF Next
<1> QED
  BY <1>1, <1>2, CountsStep, PTL DEF Spec

\* The DEK cache, the pin store and the ledger keep to their capacities, whatever the
\* requests do and however their connections interleave (DekCache, tofu.rs,
\* intent_ledger.rs).
THEOREM TablesTheorem == Spec => []TypeOK
<1>1. HomeInv /\ PinsOK /\ CountsOK /\ ReplayInv => TypeOK
  <2> SUFFICES ASSUME HomeInv, PinsOK, CountsOK, ReplayInv PROVE TypeOK
    OBVIOUS
  <2>1. \A c \in Conns : conn[c].at \in Stages \union {"idle"}
    BY DEF HomeInv, ConnsOK, Tasks, Idle
  <2> QED
    BY <2>1 DEF HomeInv, CacheOK, PinsOK, CountsOK, ReplayInv, LedgerIsTail, TypeOK
<1> QED
  BY <1>1, HomeTheorem, PinsTheorem, ReplayTheorem, PTL


-----------------------------------------------------------------------------
(* The caps.                                                                *)

\* The sums over a request that places one order.
LEMMA OneOrder ==
    ASSUME NEW r, NEW n, NEW a, OfAsset(r, a) = {n}, r.orders[n].size \in Nat
    PROVE  /\ TotalSize(r, a) = r.orders[n].size
           /\ r.orders[n].price \in Nat => TotalNotional(r, a) = r.orders[n].size * r.orders[n].price
<1>1. \A s \in SUBSET {n} : s = {} \/ s = {n}
  OBVIOUS
<1>2. (CHOOSE x \in {n} : TRUE) = n /\ {n} \ {n} = {}
  OBVIOUS
<1>3. TotalSize(r, a) = r.orders[n].size
  <2> DEFINE m == r.orders[n].size
             G(f) == [s \in SUBSET {n} |-> IF s = {} THEN 0
                        ELSE r.orders[CHOOSE x \in s : TRUE].size + f[s \ {CHOOSE x \in s : TRUE}]]
             iter == CHOOSE f : f = G(f)
             w == [s \in SUBSET {n} |-> IF s = {} THEN 0 ELSE m]
  <2>1. w = G(w)
    BY <1>1, <1>2
  <2>2. iter = G(iter)
    BY <2>1
  <2>3. MapThenSumSet(LAMBDA i : r.orders[i].size, {n}) = iter[{n}]
    BY DEF MapThenSumSet, MapThenFoldSet
  <2>4. iter[{n}] = m
    <3> HIDE DEF iter
    <3>1. iter[{}] = G(iter)[{}] /\ iter[{n}] = G(iter)[{n}]
      BY <2>2
    <3>2. G(iter)[{}] = 0 /\ G(iter)[{n}] = m + iter[{n} \ {n}]
      BY <1>2
    <3> QED
      BY <1>2, <3>1, <3>2
  <2> QED
    BY <2>3, <2>4 DEF TotalSize
<1>4. ASSUME r.orders[n].price \in Nat
      PROVE  TotalNotional(r, a) = r.orders[n].size * r.orders[n].price
  <2> DEFINE m == r.orders[n].size * r.orders[n].price
             G(f) == [s \in SUBSET {n} |-> IF s = {} THEN 0
                        ELSE r.orders[CHOOSE x \in s : TRUE].size * r.orders[CHOOSE x \in s : TRUE].price
                             + f[s \ {CHOOSE x \in s : TRUE}]]
             iter == CHOOSE f : f = G(f)
             w == [s \in SUBSET {n} |-> IF s = {} THEN 0 ELSE m]
  <2>0. m \in Nat
    BY <1>4
  <2>1. w = G(w)
    BY <1>1, <1>2, <2>0
  <2>2. iter = G(iter)
    BY <2>1
  <2>3. MapThenSumSet(LAMBDA i : r.orders[i].size * r.orders[i].price, {n}) = iter[{n}]
    BY DEF MapThenSumSet, MapThenFoldSet
  <2>4. iter[{n}] = m
    <3> HIDE DEF iter
    <3>1. iter[{}] = G(iter)[{}] /\ iter[{n}] = G(iter)[{n}]
      BY <2>2
    <3>2. G(iter)[{}] = 0 /\ G(iter)[{n}] = m + iter[{n} \ {n}]
      BY <1>2
    <3>3. iter[{n}] = m + 0
      BY <1>2, <3>1, <3>2
    <3> HIDE DEF m
    <3> QED
      BY <2>0, <3>3
  <2> QED
    BY <2>3, <2>4 DEF TotalNotional
<1> QED
  BY <1>3, <1>4


\* Whatever one signature places is within caps.
Bounded(caps, r) ==
    /\ r.does \notin {"close", "transfer"}
    /\ \A i \in DOMAIN r.orders :
          LET a == r.orders[i].asset IN
          /\ a \in DOMAIN caps
          /\ TotalSize(r, a) <= caps[a].qty
          /\ caps[a].notional # None => TotalNotional(r, a) <= caps[a].notional

\* One order that fits is the whole of its batch.
LEMMA SingleFits ==
    ASSUME NEW caps, NEW r, r.orders \in Seq(ToSet(r.orders)), Len(r.orders) <= 1,
           \A i \in DOMAIN r.orders :
              /\ r.orders[i].size \in Nat /\ r.orders[i].price \in {None} \union Nat
              /\ OrderFits(caps, r.orders[i]),
           r.does \notin {"close", "transfer"}
    PROVE  Bounded(caps, r)
<1> SUFFICES ASSUME NEW i \in DOMAIN r.orders
             PROVE  LET a == r.orders[i].asset IN
                    /\ a \in DOMAIN caps
                    /\ TotalSize(r, a) <= caps[a].qty
                    /\ caps[a].notional # None => TotalNotional(r, a) <= caps[a].notional
  BY DEF Bounded
<1> DEFINE a == r.orders[i].asset
<1>1. DOMAIN r.orders = {i}
  <2>1. DOMAIN r.orders = 1..Len(r.orders) /\ Len(r.orders) \in Nat
    OBVIOUS
  <2>2. \A j \in 1..Len(r.orders) : j = 1
    BY <2>1
  <2> QED
    BY <2>1, <2>2
<1>2. OfAsset(r, a) = {i}
  BY <1>1 DEF OfAsset
<1>3. TotalSize(r, a) = r.orders[i].size
  BY <1>2, OneOrder
<1>4. /\ a \in DOMAIN caps /\ r.orders[i].size <= caps[a].qty
      /\ caps[a].notional # None =>
            r.orders[i].price # None /\ r.orders[i].size * r.orders[i].price <= caps[a].notional
  BY DEF OrderFits
<1>5. caps[a].notional # None => TotalNotional(r, a) = r.orders[i].size * r.orders[i].price
  BY <1>2, <1>4, OneOrder
<1> QED
  BY <1>3, <1>4, <1>5

\* A request that places no order.
LEMMA NoOrders ==
    ASSUME NEW caps, NEW r, r.orders = <<>>, r.does \notin {"close", "transfer"}
    PROVE  Bounded(caps, r)
<1>1. DOMAIN <<>> = {}
  OBVIOUS
<1> QED
  BY <1>1 DEF Bounded

\* No route is a way around a cap: each gate of a route bounds everything the
\* request can place, or lets nothing be placed.
LEMMA RoutesAreBounded ==
    ASSUME NEW p, NEW img, NEW c \in Conns, NEW o \in Offers[c], p # None,
           Shape(o.req), o.req.action # "verify_blob", RouteAllows(img, p, o.req),
           CapsFor(p, Venue(o)) # None
    PROVE  Bounded(CapsFor(p, Venue(o)), o.req)
<1> DEFINE r == o.req
           v == Venue(o)
<1>1. /\ r.action \in Actions
      /\ r.orders \in Seq(ToSet(r.orders))
      /\ \A i \in DOMAIN r.orders :
              r.orders[i].size \in Nat /\ r.orders[i].price \in {None} \union Nat
      /\ r.orders # <<>> => r.does = "order"
      /\ r.action \in {"sign_binance_order", "sign_okx_order"} =>
              r.does = "order" /\ Len(r.orders) = 1
      /\ r.action \in {"sign_binance_cancel", "sign_okx_cancel"} => r.does = "cancel"
      /\ r.action = "sign_data" => r.does = "data"
      /\ r.action \in {"sign_x402_eip3009", "sign_permit2_permit_single"} => r.does = "pay"
  BY OffersAssumption
<1>2. v = VenueOfAction(r.action)
  BY DEF Venue, VenueOf
<1>3. CASE r.action \in HlOrderActions \union HlCancelActions
  <2>1. v \in HlVenues
    BY <1>2, <1>3 DEF VenueOfAction, HlVenues, HlOrderActions, HlCancelActions
  <2>2. Hyperliquid(p, r)
    BY <1>3 DEF RouteAllows, HlOrderActions, HlCancelActions
  <2>3. HlEach(CapsFor(p, v), r) /\ HlTotals(CapsFor(p, v), r)
    BY <2>1, <2>2 DEF Hyperliquid, CapsFor
  <2>4. r.does \in {"order", "cancel"}
    BY <1>3 DEF Shape, HlShape
  <2> QED
    BY <2>3, <2>4 DEF Bounded, HlEach, HlTotals, OrderFits
<1>4. CASE r.action \notin HlOrderActions \union HlCancelActions
  <2>1. v \notin HlVenues
    BY <1>1, <1>2, <1>4 DEF VenueOfAction, HlVenues, HlOrderActions, HlCancelActions, Actions, HttpActions
  <2>2. CapsFor(p, v) = p.order_caps /\ Capped(p)
    BY <2>1 DEF CapsFor, Capped
  <2>3. CASE r.action \in {"sign_binance_order", "sign_okx_order"}
    <3>1. StructuredOrder(p, r)
      BY <2>3 DEF RouteAllows, HlOrderActions, HlCancelActions
    <3>2. Len(r.orders) <= 1 /\ r.does \notin {"close", "transfer"}
      BY <1>1, <2>3
    <3>3. r.orders \in Seq(ToSet(r.orders))
      BY <1>1
    <3>4. \A i \in DOMAIN r.orders :
              /\ r.orders[i].size \in Nat /\ r.orders[i].price \in {None} \union Nat
              /\ OrderFits(p.order_caps, r.orders[i])
      BY <1>1, <2>2, <3>1 DEF StructuredOrder
    <3>5. Bounded(p.order_caps, r)
      <4> HIDE DEF r
      <4> QED
        BY <3>2, <3>3, <3>4, SingleFits
    <3> QED
      BY <2>2, <3>5
  <2>4. CASE r.action \in {"sign_binance_cancel", "sign_okx_cancel", "sign_data",
                           "sign_x402_eip3009", "sign_permit2_permit_single"}
    <3>1. r.orders = <<>> /\ r.does \notin {"close", "transfer"}
      BY <1>1, <2>4
    <3> QED
      BY <3>1, NoOrders
  <2>5. CASE r.action \in {"sign_binance", "sign_okx", "sign_bybit", "sign_kucoin"}
    <3>1. Generic(p, r)
      BY <2>5 DEF RouteAllows, HlOrderActions, HlCancelActions
    <3>2. r.does \in SafeForCapped(VenueOf(r))
      BY <2>2, <3>1 DEF Generic
    <3>3. r.does \in {"read", "cancel_all"}
      BY <3>2 DEF SafeForCapped
    <3>4. r.orders = <<>> /\ r.does \notin {"close", "transfer"}
      BY <1>1, <3>3
    <3> QED
      BY <3>4, NoOrders
  <2>6. CASE r.action = "sign_binance_request"
    <3>1. BinanceRequest(p, r) /\ BinanceRequestShape(r)
      BY <2>6 DEF RouteAllows, HlOrderActions, HlCancelActions, Shape
    <3>2. r.does \in {"read", "settings", "cancel", "cancel_all"}
      BY <2>2, <3>1 DEF BinanceRequest, BinanceRequestShape
    <3>3. r.orders = <<>> /\ r.does \notin {"close", "transfer"}
      BY <1>1, <3>2
    <3> QED
      BY <3>3, NoOrders
  <2>7. CASE r.action = "sign_asterdex"
    <3>1. AsterdexSize(p, r)
      BY <2>7 DEF RouteAllows, HlOrderActions, HlCancelActions, Asterdex
    <3>2. Len(r.orders) <= 1 /\ r.does \notin {"close", "transfer"}
      BY <2>2, <3>1 DEF AsterdexSize
    <3>3. r.orders \in Seq(ToSet(r.orders))
      BY <1>1
    <3>4. \A i \in DOMAIN r.orders :
              /\ r.orders[i].size \in Nat /\ r.orders[i].price \in {None} \union Nat
              /\ OrderFits(p.order_caps, r.orders[i])
      BY <1>1, <2>2, <3>1 DEF AsterdexSize
    <3>5. Bounded(p.order_caps, r)
      <4> HIDE DEF r
      <4> QED
        BY <3>2, <3>3, <3>4, SingleFits
    <3> QED
      BY <2>2, <3>5
  <2> QED
    BY <1>1, <1>4, <2>3, <2>4, <2>5, <2>6, <2>7 DEF Actions, HttpActions
<1> QED
  BY <1>3, <1>4

\* No route is a way around a cap, for any policies, caps, orders, builds and
\* interleavings: what one signature places stays within the caps of the policy it
\* was made under, a batch as a whole, and transfers and allowances stay within
\* their clause (the cap gates of the signing handlers).
THEOREM CapsTheorem == Spec => []WithinCaps
<1>1. ClearInv /\ HomeInv => WithinCaps
  <2> SUFFICES ASSUME ClearInv, HomeInv, NEW c \in Conns, Signed(c)
               PROVE  LET r == conn[c].offer.req  v == Venue(conn[c].offer)  p == PolicyOf(c) IN
                      /\ p # None /\ CapsFor(p, v) # None => Bounded(CapsFor(p, v), r)
                      /\ v = "x402" => r.pay.amount <= p.x402.max /\ r.pay.to \in p.x402.to
                      /\ v = "permit2" =>
                            /\ r.pay.amount <= p.permit2.max /\ r.pay.amount < Unlimited
                            /\ r.pay.to \in p.permit2.to /\ r.pay.until <= p.permit2.until
    BY DEF WithinCaps, Bounded
  <2> DEFINE o == conn[c].offer
             r == o.req
             v == Venue(o)
             p == PolicyOf(c)
  <2>1. o \in Offers[c] /\ r.action \in Actions /\ r.action # "verify_blob"
    <3>1. conn[c] # Idle /\ o \in Offers[c]
      BY DEF ClearInv, LoadInv, ConnsOK, Idle, Signed
    <3>2. r.action # "verify_blob"
      BY DEF ClearInv, LoadInv, Loaded, Past, Signed
    <3> QED
      BY <3>1, <3>2, OffersAssumption
  <2>2. Passes(image, p, r) /\ Shape(r)
    BY DEF ClearInv, Cleared, HomeInv, AtHome, Admits, Signed, PolicyOf
  <2>3. p # None => RouteAllows(image, p, r)
    BY <2>2 DEF Passes
  <2>4. p # None /\ CapsFor(p, v) # None => Bounded(CapsFor(p, v), r)
    BY <2>1, <2>2, <2>3, RoutesAreBounded
  <2>5. v = VenueOfAction(r.action)
    BY <2>1 DEF Venue, VenueOf
  <2>6. CASE v = "x402"
    <3>1. r.action = "sign_x402_eip3009" /\ p # None
      BY <2>1, <2>2, <2>5, <2>6 DEF VenueOfAction, Passes, Venue, Actions, HttpActions,
                                    HlOrderActions, HlCancelActions
    <3>2. X402(p, r)
      BY <2>3, <3>1 DEF RouteAllows, HlOrderActions, HlCancelActions
    <3> QED
      BY <2>4, <2>6, <3>2 DEF X402
  <2>7. CASE v = "permit2"
    <3>1. r.action = "sign_permit2_permit_single" /\ p # None
      BY <2>1, <2>2, <2>5, <2>7 DEF VenueOfAction, Passes, Venue, Actions, HttpActions,
                                    HlOrderActions, HlCancelActions
    <3>2. Permit2(p, r)
      BY <2>3, <3>1 DEF RouteAllows, HlOrderActions, HlCancelActions
    <3>3. r.pay.amount < Unlimited
      <4>1. r.pay.amount \in Nat /\ Unlimited \in Nat
        BY <2>1, <3>1, OffersAssumption, RulesAssumption
      <4>2. r.pay.amount <= Unlimited /\ r.pay.amount # Unlimited
        BY <2>2, <3>1, <3>2 DEF Shape, Permit2Shape, Permit2
      <4> QED
        BY <4>1, <4>2
    <3> QED
      BY <2>4, <2>7, <3>2, <3>3 DEF Permit2
  <2> QED
    BY <2>4, <2>6, <2>7
<1> QED
  BY <1>1, ClearTheorem, HomeTheorem, PTL

=============================================================================
