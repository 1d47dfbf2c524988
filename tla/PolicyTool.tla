----------------------------- MODULE PolicyTool -----------------------------
(***************************************************************************)
(* signer-policy-wrap (policy-cli): signing a policy with the authority's   *)
(* key, and a client's two ways of wrapping a policy and an exchange secret *)
(* into a blob.  `aws kms encrypt` between the steps is run by hand.        *)
(*                                                                          *)
(* A policy file has the clauses the load path looks at, among them the     *)
(* policy's own key and signature (signer, signed), which this tool only    *)
(* carries and the authority's signature does not cover, and                *)
(*   flaws    the ways in which its clauses are wrong                       *)
(*   exact    nothing is lost when this tool parses and writes it           *)
(*   size     the size of a blob that carries it                            *)
(***************************************************************************)
EXTENDS Blobs

CONSTANTS
    Drafts,       \* policy files nobody has signed
    ClientHomes,  \* the customer and venue pairs policies and blobs are for
    MaxSigned     \* bound: policies the authority signs

\* The fields of a policy file.
PolicyFields ==
    {"authority", "signer", "signed", "hl_order_caps", "order_caps", "intent",
     "flaws", "exact", "size"}

ASSUME DraftsAssumption ==
    /\ \A p \in Drafts :
          /\ DOMAIN p = PolicyFields /\ p.authority = None /\ p.size \in Sizes
          /\ p.signed \in {"no", "half", "invalid", "valid"}
    /\ None \notin ClientHomes

VARIABLES
    shelf,    \* policy files at hand
    bench     \* the client's work: the blob so far, and whether dek.bin is on disk

toolVars == <<shelf, bench>>

NoWork == [at |-> "nothing"]
Delivered == [at |-> "delivered"]     \* bound: one blob of the client's
ClientKey == "client"

ToolInit == shelf = Drafts /\ bench = NoWork

(***************************************************************************)
(* sanity_check_policy.                                                     *)
(***************************************************************************)
\* The label, and the lists whose empty entry would match everything.
ListsSane(p) == p.flaws \cap {"label", "empty_entry"} = {}

\* max_requests_per_minute, which no enclave implements
RateUnset(p) == "rate" \notin p.flaws

\* A wanted x402 clause is complete, and addresses are addresses.
ClausesSane(p) == p.flaws \cap {"x402", "address"} = {}

\* One key does not serve both Hyperliquid and AsterDex.
VenuesApart(p) == "two_venues" \notin p.flaws

Sane(p) == ListsSane(p) /\ RateUnset(p) /\ ClausesSane(p) /\ VenuesApart(p)

\* strip_json_nulls, assert_policy_round_trip
RoundTrips(p) == p.exact

\* Mutated form of PolicySign: it signs what it is given.
PolicySignUnchecked(p, home) ==
    /\ p \in shelf /\ p.authority = None
    /\ Cardinality(shelf) < Cardinality(Drafts) + MaxSigned
    /\ shelf' = shelf \union {[p EXCEPT !.authority = home]}
    /\ UNCHANGED bench

\* cmd_policy_sign: never a second signature, and only over a sane policy.
PolicySign(p, home) ==
    /\ p \in shelf /\ p.authority = None
    /\ RoundTrips(p) /\ Sane(p)
    /\ Cardinality(shelf) < Cardinality(Drafts) + MaxSigned
    /\ shelf' = shelf \union {[p EXCEPT !.authority = home]}
    /\ UNCHANGED bench

(***************************************************************************)
(* A client's blob.  --skip-sanity-check leaves the sanity check out.       *)
(***************************************************************************)
\* load_policy_and_secret
Wrappable(p, skip) == RoundTrips(p) /\ (skip \/ Sane(p))

Work(at, form, p, dek) ==
    [at |-> at, dek |-> dek,
     blob |-> [key |-> ClientKey, form |-> form, ctx |-> None, aad |-> None,
               policy |-> p, size |-> p.size]]

\* cmd_wrap_legacy
WrapFlat(p, skip) ==
    /\ bench = NoWork /\ p \in shelf
    /\ Wrappable(p, skip)
    /\ bench' = Work("plain", "flat", p, FALSE)
    /\ UNCHANGED shelf

\* cmd_envelope: no associated data is bound, and the data key is written out.
WrapEnvelope(p, skip) ==
    /\ bench = NoWork /\ p \in shelf
    /\ Wrappable(p, skip)
    /\ bench' = Work("enveloped", "envelope", p, TRUE)
    /\ UNCHANGED shelf

\* aws kms encrypt, under the context the client types
KmsEncrypt(home) ==
    /\ bench.at \in {"plain", "enveloped"}
    /\ bench' = [bench EXCEPT !.at = IF @ = "plain" THEN "ready" ELSE "wrapped", !.blob.ctx = home]
    /\ UNCHANGED shelf

\* cmd_seal: the data key is removed from the disk if it can be.  An envelope
\* it cannot read (version, base64, length of the data key) ends the command
\* with nothing written.
Seal(removed) ==
    /\ bench.at = "wrapped"
    /\ bench' = [bench EXCEPT !.at = "ready", !.dek = ~removed]
    /\ UNCHANGED shelf

ToolNext ==
    \/ \E p \in shelf, h \in ClientHomes : PolicySign(p, h)
    \/ \E p \in shelf, skip \in BOOLEAN : WrapFlat(p, skip) \/ WrapEnvelope(p, skip)
    \/ \E h \in ClientHomes : KmsEncrypt(h)
    \/ \E removed \in BOOLEAN : Seal(removed)

=============================================================================
