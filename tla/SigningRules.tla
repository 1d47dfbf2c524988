---------------------------- MODULE SigningRules ----------------------------
(***************************************************************************)
(* What the enclave's signing handlers decide (enclave handler.rs), as      *)
(* operators without state: which venue an action signs for, which blobs a  *)
(* build may load, what a policy lets a request do, and the cap each route  *)
(* applies.  Malformed numbers and addresses are requests that are not      *)
(* well formed; sizes, prices and amounts are natural numbers.              *)
(*                                                                          *)
(* A request r:                                                             *)
(*   action, target the action; the venue of a verify_blob, the symbol of a *)
(*                  cancel                                                  *)
(*   does           what the signed bytes do at the venue                   *)
(*   carries        which of "method" and "path" the request names          *)
(*   orders         the orders they place, [asset, size, price, limit]      *)
(*   vault, pay     the vault of an HL action; the transfer or allowance    *)
(*   formed, builds passes the checks before the blob is loaded; its        *)
(*                  canonical bytes can be built                            *)
(*   nonce, intent  the request's timestamp with the agent's nonce; the     *)
(*                  agent's signature [key, over]; or None                  *)
(* A policy p: its signatures (authority, signer, signed), its lists (None  *)
(* when absent), its caps and clauses.  None in place of a policy is a      *)
(* legacy blob.                                                             *)
(***************************************************************************)
EXTENDS Integers, Sequences, FiniteSets, FiniteSetsExt

CONSTANTS
    None,
    HlMaxEntries,   \* HL_MAX_ENTRIES_PER_ACTION
    Unlimited       \* 2^160 - 1, the amount Permit2 reads as no limit

ASSUME RulesAssumption == HlMaxEntries \in Nat /\ Unlimited \in Nat

\* venue_for_action
VenueOfAction(a) ==
    CASE a \in {"sign_binance", "sign_binance_order", "sign_binance_cancel",
                "sign_binance_request"} -> "binance"
      [] a \in {"sign_okx", "sign_okx_order", "sign_okx_cancel"} -> "okx"
      [] a \in {"sign_hyperliquid_main_order", "sign_hyperliquid_main_cancel"}
           -> "hyperliquid_main"
      [] a \in {"sign_hyperliquid_testnet_order", "sign_hyperliquid_testnet_cancel"}
           -> "hyperliquid_testnet"
      [] a = "sign_kucoin" -> "kucoin"
      [] a = "sign_bybit" -> "bybit"
      [] a = "sign_asterdex" -> "asterdex"
      [] a = "sign_x402_eip3009" -> "x402"
      [] a = "sign_permit2_permit_single" -> "permit2"
      [] a = "sign_data" -> "data-signing"

\* verify_blob takes its venue from the request.
VenueOf(r) == IF r.action = "verify_blob" THEN r.target ELSE VenueOfAction(r.action)

HlVenues == {"hyperliquid_main", "hyperliquid_testnet"}

\* is_money_venue
MoneyVenues ==
    HlVenues \union {"binance", "binance_futures", "okx", "bybit", "kucoin", "asterdex", "permit2"}

\* floor_is_unconditional
Unconditional == {"hyperliquid_main"}

\* A variant without the venues whose floor no build flag relaxes.
StrictByFlag(flag, venue) == flag

\* blob_floor_strict
Strict(flag, venue) == flag \/ venue \in Unconditional

\* rot3_binding_cap_present: the field that can bind an order of this venue.
CapsFor(p, venue) == IF venue \in HlVenues THEN p.hl_order_caps ELSE p.order_caps

BindingCap(p, venue) == CapsFor(p, venue) # None /\ DOMAIN CapsFor(p, venue) # {}

\* verify_policy_authority: the signature is bound to the tenant and the venue.
AuthoritySigned(image, p, who, venue) ==
    image.authority /\ p.authority = <<who, venue>>

(***************************************************************************)
(* Checks a handler makes before it loads the blob.                         *)
(***************************************************************************)
HlOrderActions == {"sign_hyperliquid_main_order", "sign_hyperliquid_testnet_order"}
HlCancelActions == {"sign_hyperliquid_main_cancel", "sign_hyperliquid_testnet_cancel"}

\* validate_order_action, validate_cancel_action
HlShape(r) ==
    /\ r.does = IF r.action \in HlOrderActions THEN "order" ELSE "cancel"
    /\ Len(r.orders) <= HlMaxEntries
    /\ r.action \in HlOrderActions => r.orders # <<>>

\* check_binance_request_allow: no listed operation has withdrawal parameters.
BinanceRequestShape(r) == r.does \in {"read", "settings", "order", "cancel", "cancel_all"}

\* permit2_request_shape
Permit2Shape(r) == r.pay.amount <= Unlimited

\* What a handler takes apart before anything else, or answers BAD_REQUEST.
MustCarry(a) ==
    CASE a \in {"sign_kucoin", "sign_okx"} -> {"method", "path"}
      [] a \in {"sign_binance", "sign_bybit", "sign_asterdex"} -> {"method"}
      [] OTHER -> {}

Shape(r) ==
    /\ r.formed
    /\ MustCarry(r.action) \subseteq r.carries
    /\ r.action \in HlOrderActions \union HlCancelActions => HlShape(r)
    /\ r.action = "sign_binance_request" => BinanceRequestShape(r)
    /\ r.action = "sign_permit2_permit_single" => Permit2Shape(r)

(***************************************************************************)
(* enforce_policy: what the policy says before any cap is looked at.        *)
(***************************************************************************)
\* Actions of the exchanges spoken to over HTTP; the others are typed data.
HttpActions ==
    {"sign_binance", "sign_binance_order", "sign_binance_cancel", "sign_binance_request",
     "sign_okx", "sign_okx_order", "sign_okx_cancel", "sign_kucoin", "sign_bybit",
     "sign_asterdex"}

\* handle_sign_binance_request fills in the method and path of its operation.
Carried(r) == IF r.action = "sign_binance_request" THEN {"method", "path"} ELSE r.carries

\* allowed_methods, allowed_path_prefixes, denied_path_prefixes: p.http[part] is
\* what the lists on this part let through.  A request that does not name the
\* part is not held to them.
HttpAllowed(p, r) ==
    p.http # None => \A part \in Carried(r) : r.does \in p.http[part]

\* A variant that forgets that an intent key must be capped.
PolicyAllowsBareIntent(p, r) ==
    /\ p.actions # None => r.action \in p.actions
    /\ p.intent # None => VenueOf(r) \notin HlVenues
    /\ HttpAllowed(p, r)
    /\ p.enforceable

PolicyAllows(p, r) ==
    /\ p.intent # None => p.order_caps # None
    /\ p.actions # None => r.action \in p.actions
    /\ p.intent # None => VenueOf(r) \notin HlVenues
    /\ HttpAllowed(p, r)
    /\ p.enforceable     \* label within bounds, no max_requests_per_minute

(***************************************************************************)
(* The caps.                                                                *)
(***************************************************************************)
\* enforce_order_cap, with a quantity
OrderFits(caps, o) ==
    /\ o.asset \in DOMAIN caps
    /\ o.size <= caps[o.asset].qty
    /\ caps[o.asset].notional # None =>
          o.price # None /\ o.size * o.price <= caps[o.asset].notional

Capped(p) == p.order_caps # None

\* handle_sign_binance_order, handle_sign_okx_order
StructuredOrder(p, r) == Capped(p) => \A i \in DOMAIN r.orders : OrderFits(p.order_caps, r.orders[i])

\* handle_sign_binance_cancel, handle_sign_okx_cancel: the symbol list only
StructuredCancel(p, r) == Capped(p) => r.target \in DOMAIN p.order_caps

\* generic_capped_op_allowed
SafeForCapped(venue) ==
    CASE venue = "binance" -> {"read", "cancel_all"}
      [] venue = "okx" -> {"read"}
      [] OTHER -> {}

\* handle_sign_binance, handle_sign_okx, handle_sign_bybit, handle_sign_kucoin
Generic(p, r) == Capped(p) => "path" \in r.carries /\ r.does \in SafeForCapped(VenueOf(r))

\* binance_request_order_denied_for_capped
BinanceRequest(p, r) == r.does = "order" => ~Capped(p) /\ p.intent = None

OfAsset(r, a) == {i \in DOMAIN r.orders : r.orders[i].asset = a}
TotalSize(r, a) == MapThenSumSet(LAMBDA i : r.orders[i].size, OfAsset(r, a))
TotalNotional(r, a) ==
    MapThenSumSet(LAMBDA i : r.orders[i].size * r.orders[i].price, OfAsset(r, a))

\* enforce_hl_caps, the per-order pass: under a notional cap plain limit
\* orders only.
HlEach(caps, r) ==
    \A i \in DOMAIN r.orders :
        /\ OrderFits(caps, r.orders[i])
        /\ caps[r.orders[i].asset].notional # None => r.orders[i].limit

\* A variant that bounds each order but not the batch.
HlTotalsPerOrder(caps, r) ==
    \A i \in DOMAIN r.orders : r.orders[i].size <= caps[r.orders[i].asset].qty

\* enforce_hl_caps, the aggregate pass
HlTotals(caps, r) ==
    \A i \in DOMAIN r.orders :
        LET a == r.orders[i].asset IN
        /\ TotalSize(r, a) <= caps[a].qty
        /\ caps[a].notional # None => TotalNotional(r, a) <= caps[a].notional

\* enforce_hl_caps
Hyperliquid(p, r) ==
    /\ p.vaults # None /\ r.vault # None => r.vault \in p.vaults
    /\ p.hl_order_caps # None =>
          HlEach(p.hl_order_caps, r) /\ HlTotals(p.hl_order_caps, r)

\* enforce_asterdex_size_cap: under a cap no close-all, no batch and no body
\* with a parameter that orders, cancels and reads do not have, and a notional
\* cap takes limit orders only.
AsterdexSize(p, r) ==
    Capped(p) =>
        /\ r.does \notin {"close", "transfer"}
        /\ Len(r.orders) <= 1
        /\ \A i \in DOMAIN r.orders :
              /\ OrderFits(p.order_caps, r.orders[i])
              /\ p.order_caps[r.orders[i].asset].notional # None => r.orders[i].limit

\* handle_sign_asterdex, with asterdex_floor_denies and the endpoint list
Asterdex(image, p, r) ==
    /\ image.strict => Capped(p)
    /\ p.endpoints # None => "path" \in r.carries /\ r.does \in p.endpoints
    /\ AsterdexSize(p, r)

\* enforce_x402_cap: a clause that leaves a field out allows nothing.
X402(p, r) ==
    /\ p.x402 # None
    /\ p.x402.place # None /\ p.x402.place = r.pay.place
    /\ p.x402.tokens # None /\ r.pay.token \in p.x402.tokens
    /\ p.x402.max # None /\ r.pay.amount <= p.x402.max
    /\ p.x402.to # None /\ r.pay.to \in p.x402.to

\* enforce_permit2_allowance, permit2_allow_list
Permit2(p, r) ==
    /\ p.permit2 # None
    /\ r.pay.amount # Unlimited
    /\ p.permit2.place # None /\ p.permit2.place = r.pay.place
    /\ p.permit2.tokens # None /\ r.pay.token \in p.permit2.tokens
    /\ p.permit2.to # None /\ r.pay.to \in p.permit2.to
    /\ p.permit2.max # None /\ r.pay.amount <= p.permit2.max
    /\ p.permit2.until # None /\ r.pay.until <= p.permit2.until

\* The gate each handler applies after enforce_policy.
RouteAllows(image, p, r) ==
    CASE r.action \in {"sign_binance_order", "sign_okx_order"} -> StructuredOrder(p, r)
      [] r.action \in {"sign_binance_cancel", "sign_okx_cancel"} -> StructuredCancel(p, r)
      [] r.action \in {"sign_binance", "sign_okx", "sign_bybit", "sign_kucoin"} -> Generic(p, r)
      [] r.action = "sign_binance_request" -> BinanceRequest(p, r)
      [] r.action \in HlOrderActions \union HlCancelActions -> Hyperliquid(p, r)
      [] r.action = "sign_asterdex" -> Asterdex(image, p, r)
      [] r.action = "sign_x402_eip3009" -> X402(p, r)
      [] r.action = "sign_permit2_permit_single" -> Permit2(p, r)
      [] r.action = "sign_data" -> TRUE

\* The actions `handle` dispatches to a handler that opens a blob.
Actions ==
    HttpActions \union HlOrderActions \union HlCancelActions
    \union {"sign_x402_eip3009", "sign_permit2_permit_single", "sign_data", "verify_blob"}

\* A legacy blob has no policy to ask: the transfer routes demand one.
Passes(image, p, r) ==
    IF p = None
    THEN VenueOf(r) \notin {"x402", "permit2"}
    ELSE PolicyAllows(p, r) /\ RouteAllows(image, p, r)

(***************************************************************************)
(* The agent's intent (AF-2) covers everything the request asks for.        *)
(***************************************************************************)
IntentActions ==
    {"sign_binance_order", "sign_okx_order", "sign_binance_cancel", "sign_okx_cancel"}

\* build_agent_intent_msg_order, build_agent_intent_msg_cancel
IntentOf(who, r) == <<who, r.action, r.target, r.orders, r.nonce>>

\* enforce_agent_intent_order, enforce_agent_intent_cancel
NeedsIntent(p, r) == p # None /\ p.intent # None /\ r.action \in IntentActions

\* verify_agent_intent, up to the ledger
IntentVerifies(p, who, r) ==
    /\ r.nonce # None
    /\ r.intent # None
    /\ r.intent.key = p.intent
    /\ r.intent.over = IntentOf(who, r)

=============================================================================
