--------------------------- MODULE GatewayRoutes ---------------------------
(***************************************************************************)
(* The gateway's routes (main.rs, handlers.rs): for every kind of request   *)
(* its tier, its class for the kill switch, and the steps its middleware    *)
(* and its handler take, in the order of the code.  A step either passes or *)
(* ends the request with an error; what the steps do is in Gateway.         *)
(*                                                                          *)
(*   auth      require_bearer            orders  orders per minute          *)
(*   state     tenant_state_mw           count   daily order counter        *)
(*   rate      rate_limit_mw             cancel  cancels per minute         *)
(*   shape     checks of the request     spend   x402 spend of the day      *)
(*   body      body_route_gate           blob    staged key of the venue    *)
(*   creds     AWS credentials           breaker circuit of the key         *)
(*   call      round trip to the enclave fields  the answer has its fields  *)
(*   success   report_success            press   stop the tenant            *)
(*   legs      sign and send both legs   read    the request's JSON body    *)
(***************************************************************************)
EXTENDS TenantRules, Sequences

Steps == {"auth", "state", "rate", "shape", "body", "creds", "call", "success", "legs", "orders",
          "count", "cancel", "spend", "blob", "breaker", "fields", "press", "read"}

(***************************************************************************)
(* Kinds of requests: a route, and what its body asks for where the route   *)
(* looks into it.                                                           *)
(***************************************************************************)
SignKinds    == {"signOrder", "signCancel", "signOpaque"}
RequestKinds == {"requestOrder", "requestCancel", "requestCancelAll", "requestRead", "requestOther"}
OrderRoutes  == {"binanceOrder", "spotOrder", "okxOrder"}
CancelRoutes == {"binanceCancel", "spotCancel", "okxCancel"}
ReadRoutes   == {"accountBinance", "accountOkx", "openOrdersBinance", "openOrdersOkx",
                 "userTradesBinance", "userTradesOkx"}
LegKinds     == {"legBinance", "legOkx"}   \* tasks of a hedge, not requests

SignTier     == SignKinds \cup RequestKinds \cup OrderRoutes \cup CancelRoutes \cup ReadRoutes
                  \cup {"x402", "permit2", "cancelAll", "hedge", "heartbeat"}
OperatorTier == {"verifyBlob", "signData"}
PublicTier   == {"attestation", "healthz"}

Kinds == SignTier \cup OperatorTier \cup PublicTier \cup {"halt"}

\* Mutated form of Tier: the stop shares the router of the money path.
TierShared(kind) ==
    CASE kind \in SignTier \cup {"halt"} -> "sign"
      [] kind \in OperatorTier -> "operator"
      [] kind \in LegKinds     -> "leg"
      [] OTHER                 -> "public"

\* The routers of main.rs: which pool, timeout and token set a request meets.
Tier(kind) ==
    CASE kind \in SignTier     -> "sign"
      [] kind \in OperatorTier -> "operator"
      [] kind = "halt"         -> "halt"
      [] kind \in LegKinds     -> "leg"
      [] OTHER                 -> "public"

Layers(tier) ==
    CASE tier = "sign" -> <<"auth", "state", "rate">>
      [] tier \in {"operator", "halt"} -> <<"auth">>
      [] OTHER -> <<>>

-----------------------------------------------------------------------------
(* The kill switch: the class the path gives, and the class the body gives. *)

\* Mutated form of PathClass: the body decides for every signing path.
PathClassByBody(kind) ==
    CASE kind \in {"halt", "heartbeat"} -> "Exempt"
      [] kind \in SignKinds \cup RequestKinds \cup OrderRoutes -> "BodyDecides"
      [] kind = "x402" -> "MoneyMoving"
      [] kind = "hedge" -> "Order"
      [] kind \in CancelRoutes \cup {"cancelAll"} -> "Cancel"
      [] kind \in ReadRoutes -> "Read"
      [] OTHER -> "Unknown"

\* classify; the permit2 route has no class of its own.
PathClass(kind) ==
    CASE kind \in {"halt", "heartbeat"} -> "Exempt"
      [] kind \in SignKinds \cup RequestKinds -> "BodyDecides"
      [] kind = "x402" -> "MoneyMoving"
      [] kind \in OrderRoutes \cup {"hedge"} -> "Order"
      [] kind \in CancelRoutes \cup {"cancelAll"} -> "Cancel"
      [] kind \in ReadRoutes -> "Read"
      [] OTHER -> "Unknown"

\* post_sign: an action for an order or a cancel of Hyperliquid, or bytes the
\* gateway cannot read.
SignBodyClass(kind) ==
    CASE kind = "signOrder" -> "Order" [] kind = "signCancel" -> "Cancel" [] OTHER -> "Unknown"

\* classify_binance_op
BinanceOpClass(kind) ==
    CASE kind = "requestOrder" -> "Order"
      [] kind \in {"requestCancel", "requestCancelAll"} -> "Cancel"
      [] kind = "requestRead" -> "Read"
      [] OTHER -> "Unknown"

BodyClass(kind) == IF kind \in SignKinds THEN SignBodyClass(kind) ELSE BinanceOpClass(kind)

-----------------------------------------------------------------------------
(* Shared parts of the handlers.                                            *)

OrderGate  == <<"orders", "count">>
CancelGate == <<"cancel">>

\* sign_structured_request: one structured order or cancel, signed.
Structured == <<"shape", "blob", "breaker", "creds", "shape", "call", "fields", "success">>

\* sign_account_read: a signed read reports success before it looks at the fields.
SignedRead == <<"blob", "breaker", "creds", "call", "success">>

\* build_binance_signed_qs, binance_signed_url: the query string of a signed request.
SignedQuery == <<"fields">>

-----------------------------------------------------------------------------
(* The handlers.                                                            *)

SignShape == <<"shape", "body">>

\* Only Hyperliquid orders and cancels meet a budget here; opaque bodies do not.
SignBudget(kind) ==
    CASE kind = "signOrder" -> OrderGate [] kind = "signCancel" -> CancelGate [] OTHER -> <<>>

SignKey == <<"creds", "blob">>

SignAnswer == <<"breaker", "call", "fields", "success">>

PostSign(kind) == SignShape \o SignBudget(kind) \o SignKey \o SignAnswer

X402Checks == <<"shape", "blob", "shape", "spend", "creds", "shape">>
X402Answer == <<"breaker", "call", "fields", "success">>
PostSignX402 == X402Checks \o X402Answer

Permit2Checks == <<"shape", "blob", "breaker", "creds", "shape">>
Permit2Answer == <<"call", "fields", "success">>
PostSignPermit2 == Permit2Checks \o Permit2Answer

PostBinanceOrder  == OrderGate \o Structured \o SignedQuery
PostBinanceCancel == CancelGate \o Structured \o SignedQuery

\* The spot order refuses reduce_only before it asks any budget.
PostSpotOrder  == <<"shape">> \o OrderGate \o Structured \o SignedQuery
PostSpotCancel == CancelGate \o Structured \o SignedQuery

PostOkxOrder  == OrderGate \o Structured
PostOkxCancel == CancelGate \o Structured

\* Mutated form of RequestBudget: a batch op is taken for a plain request.
RequestBudgetNone(kind) == IF kind = "requestCancel" THEN CancelGate ELSE <<>>

\* Only the op "order" is counted, only "cancel" has a cancel budget.
RequestBudget(kind) ==
    CASE kind = "requestOrder" -> OrderGate [] kind = "requestCancel" -> CancelGate [] OTHER -> <<>>

RequestChecks(kind) == <<"shape", "body">> \o RequestBudget(kind) \o <<"blob", "breaker", "creds">>
RequestAnswer == <<"call", "fields", "success">>
PostBinanceRequest(kind) == RequestChecks(kind) \o RequestAnswer

GetAccountBinance == SignedRead \o SignedQuery

\* Two signed reads, one after the other.
GetAccountOkx == SignedRead \o SignedRead

OpenOrdersBinance == <<"shape">> \o SignedRead \o SignedQuery
OpenOrdersOkx     == <<"shape">> \o SignedRead

UserTradesBinance == <<"shape">> \o SignedRead \o SignedQuery
UserTradesOkx     == <<"shape">> \o SignedRead

PostCancelAll == CancelGate \o <<"shape">> \o SignedRead \o SignedQuery

\* sign_leg
LegBinance == Structured \o SignedQuery
LegOkx     == Structured

PostHedge == <<"shape">> \o OrderGate \o <<"legs">>

PostVerifyBlob == <<"shape", "blob", "creds", "call", "fields">>

PostSignData == <<"shape", "shape", "blob", "creds", "call", "fields">>

PostHeartbeat == <<"shape", "call", "fields">>

\* The configuration, the nonce, the document, its PCR0.
GetAttestation == <<"shape", "shape", "call", "fields">>

GetHealthz == <<"call">>

PostTenantHalt == <<"press">>

Handler(kind) ==
    CASE kind \in SignKinds -> PostSign(kind)
      [] kind \in RequestKinds -> PostBinanceRequest(kind)
      [] kind = "x402" -> PostSignX402
      [] kind = "permit2" -> PostSignPermit2
      [] kind = "binanceOrder" -> PostBinanceOrder
      [] kind = "binanceCancel" -> PostBinanceCancel
      [] kind = "spotOrder" -> PostSpotOrder
      [] kind = "spotCancel" -> PostSpotCancel
      [] kind = "okxOrder" -> PostOkxOrder
      [] kind = "okxCancel" -> PostOkxCancel
      [] kind = "accountBinance" -> GetAccountBinance
      [] kind = "accountOkx" -> GetAccountOkx
      [] kind = "openOrdersBinance" -> OpenOrdersBinance
      [] kind = "openOrdersOkx" -> OpenOrdersOkx
      [] kind = "userTradesBinance" -> UserTradesBinance
      [] kind = "userTradesOkx" -> UserTradesOkx
      [] kind = "legBinance" -> LegBinance
      [] kind = "legOkx" -> LegOkx
      [] kind = "cancelAll" -> PostCancelAll
      [] kind = "hedge" -> PostHedge
      [] kind = "verifyBlob" -> PostVerifyBlob
      [] kind = "signData" -> PostSignData
      [] kind = "heartbeat" -> PostHeartbeat
      [] kind = "attestation" -> GetAttestation
      [] kind = "healthz" -> GetHealthz
      [] OTHER -> PostTenantHalt

\* A handler with a JSON body runs when the body has arrived, after the middleware.
Extractors(kind) ==
    IF kind \in ReadRoutes \cup PublicTier \cup LegKinds \cup {"cancelAll"} THEN <<>> ELSE <<"read">>

Program(kind) == Layers(Tier(kind)) \o Extractors(kind) \o Handler(kind)

\* Where a handler waits, so that a timeout may drop it.
Awaits == {"read", "count", "spend", "creds", "call"}

\* blob_key: the venue part of the scope a request's circuit is kept under.
VenueOfKind(kind) ==
    CASE kind \in {"signOrder", "signCancel"} -> "hyperliquid"
      [] kind \in {"x402", "permit2"} -> "wallet"
      [] kind \in {"okxOrder", "okxCancel", "accountOkx", "openOrdersOkx", "userTradesOkx", "legOkx"} -> "okx"
      [] OTHER -> "binance"

=============================================================================
