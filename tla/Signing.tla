------------------------------ MODULE Signing -------------------------------
(***************************************************************************)
(* The enclave's signing path (enclave handler.rs) over the three tables    *)
(* its requests share: the DEK cache (dek_cache.rs), the pinned policy keys *)
(* (tofu.rs) and the ledger of agent intents (intent_ledger.rs).  A request *)
(* is carried out on its own connection; the steps of several connections   *)
(* interleave, one step per lock or KMS call.  A refused request leaves the *)
(* connection idle; what the tables keep of it stays.                       *)
(*                                                                          *)
(* An offer is what a connection may be asked: the resolved identity (who,  *)
(* grants), the request req and the blob the gateway sends along.  A blob   *)
(* has the context its key was wrapped under (ctx), the identity its        *)
(* ciphertext is sealed to (aad), its data key (dek, None for a blob that   *)
(* KMS decrypts as a whole), its policy, and whether its secret parses.     *)
(* An offer's weight is what it takes of the bound on requests.             *)
(***************************************************************************)
EXTENDS SigningRules, SequencesExt

CONSTANTS
    Conns,
    Offers,         \* Offers[c]: what connection c may be asked
    Images,         \* builds: [strict, authority]
    MaxDeks,        \* capacity of the DEK cache
    MaxPins,        \* MAX_PINS
    MaxNonces,      \* MAX_TRACKED_NONCES
    MaxRequests,    \* bound: the weight of all requests
    MaxBoots        \* bound: restarts

ASSUME SigningAssumption ==
    /\ MaxDeks \in Nat /\ MaxPins \in Nat /\ MaxNonces \in Nat \ {0}
    /\ MaxRequests \in Nat /\ MaxBoots \in Nat

\* What a request's bytes do follows from its action and its body: a structured
\* order places one order; cancels, transfers, allowances and data none.
ASSUME OffersAssumption ==
    \A c \in Conns : \A o \in Offers[c] :
        LET r == o.req IN
        /\ r.action \in Actions
        /\ r.orders \in Seq(ToSet(r.orders))
        /\ \A i \in DOMAIN r.orders :
              r.orders[i].size \in Nat /\ r.orders[i].price \in {None} \union Nat
        /\ r.orders # <<>> => r.does = "order"
        /\ r.action \in {"sign_binance_order", "sign_okx_order"} =>
              r.does = "order" /\ Len(r.orders) = 1
        /\ r.action \in {"sign_binance_cancel", "sign_okx_cancel"} => r.does = "cancel"
        /\ r.action = "sign_data" => r.does = "data"
        /\ r.action \in {"sign_x402_eip3009", "sign_permit2_permit_single"} =>
              r.does = "pay" /\ r.pay.amount \in Nat

\* KMS wraps a data key under one encryption context.
ASSUME WrappedOnce ==
    \A c, d \in Conns : \A o \in Offers[c], x \in Offers[d] :
        o.blob.dek # None /\ o.blob.dek = x.blob.dek => o.blob.ctx = x.blob.ctx

VARIABLES
    image,      \* the running build's baked settings
    cache,      \* DEK cache keys, least recently used first
    pins,       \* pinned policy keys by customer and venue
    ledger,     \* recorded intents, oldest first
    conn,       \* conn[c]: the request in progress, and which record its intent got
    recorded,   \* history: every intent recorded since boot
    agreed,     \* history: every intent signed for since boot, and its record
    requests,   \* weight of the requests taken
    boots       \* restarts

tables == <<cache, pins, ledger>>
history == <<recorded, agreed>>
vars == <<image, tables, conn, history, requests, boots>>

Stages == {"lookup", "kms", "opened", "loaded", "cleared", "signed"}
Idle == [at |-> "idle"]

Venue(o) == VenueOf(o.req)

\* encryption_context, sealed_aad
Context(o) == <<o.who, Venue(o)>>

\* derive_key
CacheKey(o) == <<o.blob.dek, Context(o)>>

\* The customer-scoped pin namespace.
TofuKey(o) == <<o.who, Venue(o)>>

Init ==
    /\ image \in Images
    /\ cache = <<>> /\ pins = <<>> /\ ledger = <<>>
    /\ conn = [c \in Conns |-> Idle]
    /\ recorded = <<>> /\ agreed = <<>>
    /\ requests = 0 /\ boots = 0

At(c, stage) == conn[c].at = stage
GoTo(c, stage) == conn' = [conn EXCEPT ![c].at = stage]
Refuse(c) == conn' = [conn EXCEPT ![c] = Idle]

(***************************************************************************)
(* Admission: the handler's shape checks, then the venue grant, both before *)
(* any blob or KMS work.  A request that fails them changes nothing.        *)
(***************************************************************************)
\* A variant without authorize_venue.
AdmitsAnyVenue(o) == Shape(o.req)

Admits(o) == Shape(o.req) /\ Venue(o) \in o.grants

Receive(c, o) ==
    /\ At(c, "idle")
    /\ requests + o.weight <= MaxRequests
    /\ Admits(o)
    /\ requests' = requests + o.weight
    /\ conn' = [conn EXCEPT ![c] = [at |-> "lookup", offer |-> o, ticket |-> 0]]
    /\ UNCHANGED <<image, tables, history, boots>>

(***************************************************************************)
(* load_secret_for.                                                         *)
(***************************************************************************)
\* decrypt_with_dek: the ciphertext opens only for the identity it is sealed to.
Opens(o) == o.blob.aad = Context(o)

\* DekCache::get, a fresh entry: it becomes the most recently used.
CacheHit(c) ==
    LET o == conn[c].offer IN
    /\ At(c, "lookup")
    /\ CacheKey(o) \in ToSet(cache)
    /\ cache' = Append(RemoveFirst(cache, CacheKey(o)), CacheKey(o))
    /\ IF Opens(o) THEN GoTo(c, "opened") ELSE Refuse(c)
    /\ UNCHANGED <<image, pins, ledger, history, requests, boots>>

\* DekCache::get without an entry, or with one past its time, which is dropped.
CacheMiss(c) ==
    /\ At(c, "lookup")
    /\ cache' = RemoveFirst(cache, CacheKey(conn[c].offer))
    /\ GoTo(c, "kms")
    /\ UNCHANGED <<image, pins, ledger, history, requests, boots>>

\* A variant without a bound.
PutUnbounded(key) == cache' = Append(RemoveFirst(cache, key), key)

\* DekCache::put, evicting the least recently used
Put(key) ==
    LET added == Append(RemoveFirst(cache, key), key) IN
    cache' = IF Len(added) > MaxDeks THEN Tail(added) ELSE added

\* KMS unwraps a data key, or a whole blob, only under the context it was
\* wrapped with; the data key is cached once it has been used.
Decrypt(c) ==
    LET o == conn[c].offer IN
    /\ At(c, "kms")
    /\ o.blob.ctx = Context(o)
    /\ IF o.blob.dek = None
       THEN GoTo(c, "opened") /\ UNCHANGED cache
       ELSE IF Opens(o)
            THEN Put(CacheKey(o)) /\ GoTo(c, "opened")
            ELSE Refuse(c) /\ UNCHANGED cache
    /\ UNCHANGED <<image, pins, ledger, history, requests, boots>>

\* KMS denies, cannot be reached or answers with an error.
DecryptFails(c) ==
    /\ At(c, "kms")
    /\ Refuse(c)
    /\ UNCHANGED <<image, tables, history, requests, boots>>

\* handle_verify_blob answers with a digest of what it opened.
Verify(c) ==
    /\ At(c, "opened")
    /\ conn[c].offer.req.action = "verify_blob"
    /\ Refuse(c)
    /\ UNCHANGED <<image, tables, history, requests, boots>>

(***************************************************************************)
(* load_and_parse_blob, after the plaintext: the floor for money venues of  *)
(* a strict build, pinned policy keys for the rest.                         *)
(***************************************************************************)
FloorApplies(o) == Strict(image.strict, Venue(o)) /\ Venue(o) \in MoneyVenues

MeetsFloor(o) ==
    /\ AuthoritySigned(image, o.blob.policy, o.who, Venue(o))
    /\ BindingCap(o.blob.policy, Venue(o))

\* A variant that takes a policy the full store cannot pin.
PinBestEffort(o, ok) ==
    LET p == o.blob.policy  k == TofuKey(o)  full == Cardinality(DOMAIN pins) >= MaxPins IN
    /\ ok = (p.signed = "valid" /\ (k \in DOMAIN pins => pins[k] = p.signer))
    /\ pins' = IF ok /\ k \notin DOMAIN pins /\ ~full
               THEN [x \in DOMAIN pins \union {k} |-> IF x = k THEN p.signer ELSE pins[x]]
               ELSE pins

\* verify_and_pin
Pin(o, ok) ==
    LET p == o.blob.policy  k == TofuKey(o)  full == Cardinality(DOMAIN pins) >= MaxPins IN
    /\ ok = (p.signed = "valid" /\ IF k \in DOMAIN pins THEN pins[k] = p.signer ELSE ~full)
    /\ pins' = IF ok /\ k \notin DOMAIN pins
               THEN [x \in DOMAIN pins \union {k} |-> IF x = k THEN p.signer ELSE pins[x]]
               ELSE pins

\* require_if_pinned
Unpinned(o) == TofuKey(o) \notin DOMAIN pins

Accepted(o, ok) ==
    IF o.blob.policy = None
    THEN ok = ~Strict(image.strict, Venue(o)) /\ UNCHANGED pins
    ELSE IF FloorApplies(o)
    THEN ok = MeetsFloor(o) /\ UNCHANGED pins
    ELSE IF o.blob.policy.signed # "no"
    THEN Pin(o, ok)
    ELSE ok = Unpinned(o) /\ UNCHANGED pins

Load(c) ==
    LET o == conn[c].offer IN
    /\ At(c, "opened")
    /\ o.req.action # "verify_blob"
    /\ \E ok \in BOOLEAN :
          Accepted(o, ok) /\ IF ok THEN GoTo(c, "loaded") ELSE Refuse(c)
    /\ UNCHANGED <<image, cache, ledger, history, requests, boots>>

(***************************************************************************)
(* enforce_policy, the route's cap gate, then the agent's intent, which is  *)
(* recorded under the ledger's lock once its signature has verified.        *)
(***************************************************************************)
\* A variant that makes room before it looks.
RecordEvictingFirst(i, new) ==
    LET kept == IF Len(ledger) >= MaxNonces THEN Tail(ledger) ELSE ledger IN
    /\ new = (i \notin ToSet(kept))
    /\ ledger' = IF new THEN Append(kept, i) ELSE ledger
    /\ recorded' = IF new THEN Append(recorded, i) ELSE recorded

\* record_if_new
Record(i, new) ==
    LET kept == IF Len(ledger) >= MaxNonces THEN Tail(ledger) ELSE ledger IN
    /\ new = (i \notin ToSet(ledger))
    /\ ledger' = IF new THEN Append(kept, i) ELSE ledger
    /\ recorded' = IF new THEN Append(recorded, i) ELSE recorded

Clear(c) ==
    LET o == conn[c].offer  p == o.blob.policy IN
    /\ At(c, "loaded")
    /\ Passes(image, p, o.req)
    /\ IF ~NeedsIntent(p, o.req)
       THEN GoTo(c, "cleared") /\ UNCHANGED <<ledger, recorded>>
       ELSE /\ IntentVerifies(p, o.who, o.req)
            /\ \E new \in BOOLEAN :
                  /\ Record(IntentOf(o.who, o.req), new)
                  /\ IF new
                     THEN conn' = [conn EXCEPT ![c].at = "cleared", ![c].ticket = Len(recorded')]
                     ELSE Refuse(c)
    /\ UNCHANGED <<image, cache, pins, agreed, requests, boots>>

Deny(c) ==
    LET o == conn[c].offer  p == o.blob.policy IN
    /\ At(c, "loaded")
    /\ Passes(image, p, o.req) =>
          NeedsIntent(p, o.req) /\ ~IntentVerifies(p, o.who, o.req)
    /\ Refuse(c)
    /\ UNCHANGED <<image, tables, history, requests, boots>>

\* The canonical bytes are built, the secret parsed, the signature made.
Sign(c) ==
    LET o == conn[c].offer IN
    /\ At(c, "cleared")
    /\ o.req.builds /\ o.blob.secret
    /\ GoTo(c, "signed")
    /\ agreed' = IF NeedsIntent(o.blob.policy, o.req)
                 THEN Append(agreed, [intent |-> IntentOf(o.who, o.req), ticket |-> conn[c].ticket])
                 ELSE agreed
    /\ UNCHANGED <<image, tables, recorded, requests, boots>>

\* The request or the secret does not have the venue's form: a recorded
\* intent stays recorded.
SignFails(c) ==
    LET o == conn[c].offer IN
    /\ At(c, "cleared")
    /\ ~(o.req.builds /\ o.blob.secret)
    /\ Refuse(c)
    /\ UNCHANGED <<image, tables, history, requests, boots>>

Reply(c) ==
    /\ At(c, "signed")
    /\ Refuse(c)
    /\ UNCHANGED <<image, tables, history, requests, boots>>

\* The tables live in the enclave's memory; a restart may bring another build.
Restart ==
    /\ boots < MaxBoots
    /\ boots' = boots + 1
    /\ image' \in Images
    /\ cache' = <<>> /\ pins' = <<>> /\ ledger' = <<>>
    /\ conn' = [c \in Conns |-> Idle]
    /\ recorded' = <<>> /\ agreed' = <<>>
    /\ UNCHANGED requests

Step(c) ==
    \/ \E o \in Offers[c] : Receive(c, o)
    \/ CacheHit(c) \/ CacheMiss(c) \/ Decrypt(c) \/ DecryptFails(c) \/ Verify(c)
    \/ Load(c) \/ Clear(c) \/ Deny(c) \/ Sign(c) \/ SignFails(c) \/ Reply(c)

Next == Restart \/ \E c \in Conns : Step(c)

Spec == Init /\ [][Next]_vars

-----------------------------------------------------------------------------
(***************************************************************************)
(* Properties.                                                              *)
(***************************************************************************)
(* The tables keep to their capacities, whatever the requests do.           *)
TypeOK ==
    /\ image \in Images
    /\ Len(cache) <= MaxDeks /\ IsInjective(cache)
    /\ Cardinality(DOMAIN pins) <= MaxPins
    /\ Len(ledger) <= MaxNonces
    /\ \A c \in Conns : conn[c].at \in Stages \union {"idle"}
    /\ requests <= MaxRequests /\ boots <= MaxBoots

Signed(c) == conn[c].at = "signed"
PolicyOf(c) == conn[c].offer.blob.policy

(* The floor (load_and_parse_blob): on a money venue of a strict build, and *)
(* on hyperliquid_main of any build, nothing is signed but under a policy   *)
(* the authority signed for this tenant and venue, with a cap that can bind *)
(* this venue's orders, whatever blobs the gateway sends and whichever      *)
(* build was running before.                                                *)
FloorHolds ==
    \A c \in Conns :
        Signed(c) =>
            LET v == Venue(conn[c].offer)  p == PolicyOf(c) IN
            v \in MoneyVenues /\ (image.strict \/ v = "hyperliquid_main") =>
                /\ p # None
                /\ p.authority = <<conn[c].offer.who, v>>
                /\ IF v \in {"hyperliquid_main", "hyperliquid_testnet"}
                   THEN p.hl_order_caps # None /\ p.hl_order_caps # <<>>
                   ELSE p.order_caps # None /\ p.order_caps # <<>>

(* No route is a way around a cap: whatever one signature places, by        *)
(* whichever action, stays within the caps of the policy it was made under, *)
(* a batch as a whole; transfers and allowances stay within their clause.   *)
WithinCaps ==
    \A c \in Conns :
        Signed(c) =>
            LET r == conn[c].offer.req  v == Venue(conn[c].offer)  p == PolicyOf(c) IN
            /\ p # None /\ CapsFor(p, v) # None =>
                  /\ r.does \notin {"close", "transfer"}
                  /\ \A i \in DOMAIN r.orders :
                        LET a == r.orders[i].asset  caps == CapsFor(p, v) IN
                        /\ a \in DOMAIN caps
                        /\ TotalSize(r, a) <= caps[a].qty
                        /\ caps[a].notional # None => TotalNotional(r, a) <= caps[a].notional
            /\ v = "x402" => r.pay.amount <= p.x402.max /\ r.pay.to \in p.x402.to
            /\ v = "permit2" =>
                  /\ r.pay.amount <= p.permit2.max /\ r.pay.amount < Unlimited
                  /\ r.pay.to \in p.permit2.to /\ r.pay.until <= p.permit2.until

(* A secret is opened only for the tenant it was sealed to and on a venue   *)
(* of its grant, from KMS or from the DEK cache (load_secret_for).          *)
SecretsStayHome ==
    \A c \in Conns :
        conn[c].at \in {"opened", "loaded", "cleared", "signed"} =>
            LET o == conn[c].offer IN
            /\ o.blob.ctx = <<o.who, Venue(o)>>
            /\ o.blob.dek # None => o.blob.aad = <<o.who, Venue(o)>>
            /\ Venue(o) \in o.grants

(* Under a policy with an intent key no order is signed, by any of the      *)
(* tenant's routes, unless the agent signed exactly this order.  (AsterDex  *)
(* bodies are bounded by the cap alone: that handler asks for no intent.)   *)
OrdersAreIntended ==
    \A c \in Conns :
        Signed(c) =>
            LET o == conn[c].offer  p == PolicyOf(c) IN
            p # None /\ p.intent # None /\ o.req.orders # <<>> /\ Venue(o) # "asterdex" =>
                /\ o.req.intent # None /\ o.req.intent.key = p.intent
                /\ o.req.intent.over = IntentOf(o.who, o.req)

(* Two signatures over one intent, on whichever connections, were recorded  *)
(* more than MaxNonces intents apart: until then the ledger remembers it    *)
(* (record_if_new; what intent_ledger.rs says of eviction).                 *)
IntentOnce ==
    \A i, j \in DOMAIN agreed :
        i # j /\ agreed[i].intent = agreed[j].intent =>
            \/ agreed[i].ticket - agreed[j].ticket > MaxNonces
            \/ agreed[j].ticket - agreed[i].ticket > MaxNonces

(* Once a policy key is pinned for a tenant and venue, no signed policy of  *)
(* another key gets past the load, from any connection (verify_and_pin).    *)
PinHolds ==
    \A c \in Conns :
        conn[c].at \in {"loaded", "cleared", "signed"} =>
            LET o == conn[c].offer  p == PolicyOf(c) IN
            p # None /\ ~FloorApplies(o) /\ p.signed # "no" =>
                TofuKey(o) \in DOMAIN pins /\ pins[TofuKey(o)] = p.signer

=============================================================================
