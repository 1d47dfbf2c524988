----------------------------- MODULE MCSigning -----------------------------
(* An instance of Signing for TLC.  The first connection is asked for      *)
(* everything: each route with requests inside and outside the caps,       *)
(* against blobs of each kind a gateway can hold for the venue.  The       *)
(* second races it with intents, pins and cached keys.                     *)
EXTENDS Signing, TLC

CONSTANTS A, B, k1, k2, agent, c1, c2

Plain ==
    [authority |-> None, signer |-> None, signed |-> "no", actions |-> None, http |-> None,
     enforceable |-> TRUE, intent |-> None, order_caps |-> None, hl_order_caps |-> None,
     vaults |-> None, endpoints |-> None, x402 |-> None, permit2 |-> None]

SizeCap == "BTC" :> [qty |-> 2, notional |-> None]
NotionalCap == "BTC" :> [qty |-> 3, notional |-> 4]
NoCaps == [a \in {} |-> 0]
Clause == [place |-> "chain", tokens |-> {"usdc"}, to |-> {"shop"}, max |-> 3, until |-> 1]

By(p, who, v) == [p EXCEPT !.authority = <<who, v>>]
Tofu(p, k) == [p EXCEPT !.signer = k, !.signed = "valid"]
Sealed(who, v, d, p) ==
    [ctx |-> <<who, v>>, aad |-> <<who, v>>, dek |-> d, policy |-> p, secret |-> TRUE]

Symbols == [Plain EXCEPT !.order_caps = SizeCap]
Reader == [Plain EXCEPT !.http = [method |-> {"read"}, path |-> {"read", "cancel_all"}]]
Agent == [Symbols EXCEPT !.intent = agent]

\* Policies a venue's blob may carry.
Shapes(v) ==
    IF v \in HlVenues
    THEN {[Plain EXCEPT !.hl_order_caps = SizeCap, !.vaults = {"vault"}],
          [Plain EXCEPT !.hl_order_caps = NotionalCap],
          [Agent EXCEPT !.hl_order_caps = SizeCap], Symbols}
    ELSE IF v = "x402" THEN {[Plain EXCEPT !.x402 = Clause], Plain}
    ELSE IF v = "permit2"
    THEN {[Symbols EXCEPT !.permit2 = Clause],
          [Symbols EXCEPT !.permit2 = [Clause EXCEPT !.max = Unlimited]],
          [Symbols EXCEPT !.permit2 = [Clause EXCEPT !.until = None]]}
    ELSE IF v = "data-signing" THEN {[Plain EXCEPT !.actions = {"sign_data"}]}
    ELSE {Plain, Symbols, Reader, [Plain EXCEPT !.order_caps = NotionalCap],
          [Plain EXCEPT !.order_caps = NoCaps], [Plain EXCEPT !.intent = agent], Agent}

Blobs(v) ==
    LET plain(p) == Sealed(A, v, None, p) IN
    {plain(None)}
    \union {plain(p) : p \in Shapes(v)}
    \union {plain(By(p, A, v)) : p \in Shapes(v)}

Order(n, px, lim) == [asset |-> "BTC", size |-> n, price |-> px, limit |-> lim]
Ask(a, does) ==
    [action |-> a, target |-> "BTC", does |-> does, carries |-> MustCarry(a), orders |-> <<>>, vault |-> None,
     pay |-> None, formed |-> TRUE, builds |-> TRUE, nonce |-> None, intent |-> None]
Placing(a, os) == [Ask(a, "order") EXCEPT !.orders = os]
Paying(a, to, n, t) ==
    [Ask(a, "pay") EXCEPT !.pay = [place |-> "chain", token |-> "usdc", to |-> to,
                                   amount |-> n, until |-> t]]

\* An order the agent signed, and one whose size was changed afterwards.
Intended(who, a, n, os) ==
    LET r == [Placing(a, os) EXCEPT !.nonce = n] IN
    [r EXCEPT !.intent = [key |-> agent, over |-> IntentOf(who, r)]]
Edited(who, a, n) == [Intended(who, a, n, <<Order(1, 2, TRUE)>>) EXCEPT !.orders = <<Order(2, 2, TRUE)>>]

Sizes == {<<Order(2, 2, TRUE)>>, <<Order(3, 2, TRUE)>>, <<Order(2, None, FALSE)>>}
Batches == {<<Order(2, 2, TRUE)>>, <<Order(1, 2, TRUE), Order(1, 2, TRUE)>>,
            <<Order(2, 2, TRUE), Order(1, 2, TRUE)>>, <<Order(2, 2, FALSE)>>, <<Order(3, 1, TRUE)>>}

HlAsks ==
    {Placing(a, b) : a \in HlOrderActions, b \in Batches}
    \union {[Placing(a, <<Order(1, 1, TRUE)>>) EXCEPT !.vault = x] :
               a \in HlOrderActions, x \in {"vault", "other"}}
    \union {Ask(a, "cancel") : a \in HlCancelActions}
StructuredAsks ==
    {Placing(a, s) : a \in {"sign_binance_order", "sign_okx_order"}, s \in Sizes}
    \union {[Ask(a, "cancel") EXCEPT !.target = t] :
               a \in {"sign_binance_cancel", "sign_okx_cancel"}, t \in {"BTC", "ETH"}}
    \union {Edited(A, "sign_okx_order", 1), Intended(A, "sign_okx_order", 1, <<Order(1, 2, TRUE)>>)}
GenericAsks ==
    {Placing(a, <<Order(3, 2, TRUE)>>) :
        a \in {"sign_binance", "sign_binance_request", "sign_okx", "sign_bybit", "sign_kucoin"}}
    \union {Ask(a, d) : a \in {"sign_binance", "sign_binance_request", "sign_okx"},
                        d \in {"read", "cancel_all", "transfer"}}
    \union {[Ask("sign_binance", d) EXCEPT !.carries = {"method", "path"}] : d \in {"read", "cancel_all"}}
AsterdexAsks ==
    {Placing("sign_asterdex", b) : b \in Batches \union Sizes}
    \union {Ask("sign_asterdex", d) : d \in {"read", "close", "transfer"}}
TransferAsks ==
    {Paying("sign_x402_eip3009", to, n, 0) : to \in {"shop", "else"}, n \in {3, 4}}
    \union {Paying("sign_permit2_permit_single", to, n, t) :
               to \in {"shop", "else"}, n \in {3, 4, Unlimited, Unlimited + 1}, t \in {1, 2}}

AllVenues ==
    HlVenues \union {"binance", "okx", "bybit", "kucoin", "asterdex", "permit2", "x402", "data-signing"}

\* A request that is to be the only one, and one that races others.
Alone(who, r, b) ==
    [who |-> who, grants |-> AllVenues, req |-> r, blob |-> b, weight |-> MaxRequests]
Asked(who, r, b) == [Alone(who, r, b) EXCEPT !.weight = 1]

Asks == HlAsks \union StructuredAsks \union GenericAsks \union AsterdexAsks
        \union TransferAsks \union {Ask("sign_data", "data")}

EveryRoute == UNION {{Alone(A, r, b) : b \in Blobs(VenueOf(r))} : r \in Asks}

\* One tenant's capped key with an agent, in an envelope; the same with a
\* secret of another venue's form.
AgentBlob == Sealed(A, "binance", "d1", By(Agent, A, "binance"))
Misfiled == [AgentBlob EXCEPT !.dek = None, !.secret = FALSE]
Signal(n) == Intended(A, "sign_binance_order", n, <<Order(1, 2, TRUE)>>)
Small == Placing("sign_bybit", <<Order(1, 2, TRUE)>>)
Pinned(who, k) == Sealed(who, "bybit", None, Tofu(Plain, k))

Races ==
    {Asked(A, Signal(n), AgentBlob) : n \in {1, 2}}
    \union {Asked(A, Small, Pinned(A, k)) : k \in {k1, k2}}

Strays ==
    {Asked(B, Signal(1), AgentBlob),
     Asked(B, Small, Pinned(B, k2)),
     Asked(A, Small, Sealed(A, "bybit", "d2", Plain)),
     Asked(A, Small, [Pinned(A, k1) EXCEPT !.policy.signed = "half"]),
     Asked(A, Signal(1), Misfiled),
     Asked(A, [Signal(2) EXCEPT !.builds = FALSE], AgentBlob),
     [Asked(A, Signal(1), AgentBlob) EXCEPT !.grants = {"okx"}],
     Asked(A, [Ask("verify_blob", "read") EXCEPT !.target = "binance"], AgentBlob)}

Builds == {[strict |-> TRUE, authority |-> TRUE], [strict |-> FALSE, authority |-> TRUE],
           [strict |-> FALSE, authority |-> FALSE]}

Widely == c1 :> (EveryRoute \union Races \union Strays) @@ c2 :> (Races \union Strays)

=============================================================================
