------------------------------ MODULE Receipts ------------------------------
(***************************************************************************)
(* The enclave's request dispatch (handler.rs, handle) with its decision    *)
(* receipts and the signed counter heartbeat (receipt.rs), composed with    *)
(* the registry.  A request resolves its tenant once; the mode gate decides *)
(* on that entry; the handler runs; a receipt is numbered and signed under  *)
(* the counter lock.  Requests run in parallel, and with registry           *)
(* refreshes: each lock the code takes ends a step.                         *)
(***************************************************************************)
EXTENDS Registry, Sequences

CONSTANTS
    Requests,      \* connections served at one time
    Keys,          \* data-signing keys that may become resident
    NoKey,
    MaxArrivals    \* bound: requests

ASSUME ReceiptsAssumption == MaxArrivals \in Nat /\ NoKey \notin Keys

VARIABLES
    key,        \* the resident receipt key
    seq,        \* SEQ: the next number of each customer
    req,        \* req[q]: the request a task works on
    chain,      \* history: receipts issued to each customer since boot
    beats,      \* history: heartbeats signed since boot
    arrivals

receiptVars == <<key, seq, req, chain, beats, arrivals>>
vars == <<registryVars, receiptVars>>

(***************************************************************************)
(* What an action does to exposure.  "order": *_order, x402 and permit2     *)
(* transfers, bodies the enclave cannot read.  "cancel": *_cancel, signed   *)
(* reads, venue deletes.  "audit": verify_blob.                             *)
(***************************************************************************)
Kinds == {"order", "cancel", "audit", "heartbeat"}

\* is_receipted_action
Receipted(kind) == kind \in {"order", "cancel"}

\* tenant_mode_gate
ModeAllows(mode, kind) ==
    \/ mode = "Active"
    \/ kind \in {"audit", "heartbeat"}
    \/ mode = "CancelOnly" /\ kind = "cancel"

NoReq == [at |-> "idle"]

ReceiptsInit ==
    /\ key = NoKey
    /\ seq = [c \in Customers |-> 0]
    /\ req = [q \in Requests |-> NoReq]
    /\ chain = [c \in Customers |-> <<>>]
    /\ beats = {}
    /\ arrivals = 0

Init == RegistryInit /\ ReceiptsInit

Stage(kind, id) ==
    IF ~ModeAllows(id.mode, kind) THEN "attach"
    ELSE IF kind = "heartbeat" THEN "beat" ELSE "acting"

\* handle, up to the dispatch: the tenant is resolved once, the customer's rate
\* limit is asked, an unknown token is refused, the mode gate decides.
Handle(q, t, kind, limited) ==
    /\ arrivals < MaxArrivals
    /\ arrivals' = arrivals + 1
    /\ req[q] = NoReq
    /\ LET id == Resolve(t)
       IN IF id = NoEntry \/ limited
          THEN UNCHANGED req
          ELSE req' = [req EXCEPT ![q] =
                   [at |-> Stage(kind, id), kind |-> kind, token |-> t, id |-> id,
                    had |-> seq[id.customer], next |-> 0]]
    /\ UNCHANGED <<registryVars, key, seq, chain, beats>>

\* The action's handler: it signs or refuses; either way there is an answer.
Act(q) ==
    /\ req[q].at = "acting"
    /\ req' = [req EXCEPT ![q].at = "attach"]
    /\ UNCHANGED <<registryVars, key, seq, chain, beats, arrivals>>

\* issue_pre, before the counter lock: no receipt without a key, or for an action
\* that is no decision; otherwise the key is copied out.
Attach(q) ==
    /\ req[q].at = "attach"
    /\ req' = [req EXCEPT ![q] =
                  IF Receipted(@.kind) /\ key # NoKey THEN [@ EXCEPT !.at = "number"] ELSE NoReq]
    /\ UNCHANGED <<registryVars, key, seq, chain, beats, arrivals>>

\* Mutated form of Number: the number is taken before the signature is made.
NumberBurnt(q, signs) ==
    /\ req[q].at = "number"
    /\ LET c == req[q].id.customer
       IN /\ seq' = [seq EXCEPT ![c] = @ + 1]
          /\ chain' = IF signs THEN [chain EXCEPT ![c] = Append(@, seq[c])] ELSE chain
    /\ req' = [req EXCEPT ![q] = NoReq]
    /\ UNCHANGED <<registryVars, key, beats, arrivals>>

\* issue_pre, under the counter lock: number, sign, then commit; a failed
\* signature leaves the counter alone and the answer without a receipt.
Number(q, signs) ==
    /\ req[q].at = "number"
    /\ LET c == req[q].id.customer
       IN /\ IF signs
             THEN /\ seq' = [seq EXCEPT ![c] = @ + 1]
                  /\ chain' = [chain EXCEPT ![c] = Append(@, seq[c])]
             ELSE UNCHANGED <<seq, chain>>
    /\ req' = [req EXCEPT ![q] = NoReq]
    /\ UNCHANGED <<registryVars, key, beats, arrivals>>

-----------------------------------------------------------------------------
(* issue_heartbeat: the key, the counter and the registry version are read  *)
(* under three locks; the entry is the one resolved at the start.           *)

BeatKey(q) ==
    /\ req[q].at = "beat"
    /\ req' = [req EXCEPT ![q] = IF key = NoKey THEN NoReq ELSE [@ EXCEPT !.at = "count"]]
    /\ UNCHANGED <<registryVars, key, seq, chain, beats, arrivals>>

\* Mutated form of BeatCount: the last number issued instead of the next one.
BeatCountLatest(q) ==
    /\ req[q].at = "count"
    /\ LET n == seq[req[q].id.customer]
       IN req' = [req EXCEPT ![q].at = "sign", ![q].next = IF n = 0 THEN 0 ELSE n - 1]
    /\ UNCHANGED <<registryVars, key, seq, chain, beats, arrivals>>

BeatCount(q) ==
    /\ req[q].at = "count"
    /\ req' = [req EXCEPT ![q].at = "sign", ![q].next = seq[req[q].id.customer]]
    /\ UNCHANGED <<registryVars, key, seq, chain, beats, arrivals>>

\* A heartbeat that cannot be signed is answered with an error.
BeatSign(q, signs) ==
    /\ req[q].at = "sign"
    /\ LET r == req[q]
           beat == [token |-> r.token, entry |-> r.id, next |-> r.next, had |-> r.had,
                    version |-> reg.version]
       IN beats' = IF signs THEN beats \cup {beat} ELSE beats
    /\ req' = [req EXCEPT ![q] = NoReq]
    /\ UNCHANGED <<registryVars, key, seq, chain, arrivals>>

-----------------------------------------------------------------------------

\* sign_data, under the service identity: the key it decrypted becomes resident,
\* in place of another one.  The service identity is resolved like any other, so
\* there is a registry by then.
InstallKey(k) ==
    /\ reg.version # 0
    /\ key # k
    /\ key' = k
    /\ UNCHANGED <<registryVars, seq, req, chain, beats, arrivals>>

\* A restart begins a new boot_id: counters and receipts start over.
Restart ==
    /\ Reboot
    /\ key' = NoKey
    /\ seq' = [c \in Customers |-> 0]
    /\ req' = [q \in Requests |-> NoReq]
    /\ chain' = [c \in Customers |-> <<>>]
    /\ beats' = {}
    /\ UNCHANGED arrivals

Next ==
    \/ RegistryStep /\ UNCHANGED receiptVars
    \/ Restart
    \/ \E k \in Keys : InstallKey(k)
    \/ \E q \in Requests :
        \/ \E t \in Tokens, kind \in Kinds, limited \in BOOLEAN : Handle(q, t, kind, limited)
        \/ Act(q) \/ Attach(q)
        \/ \E signs \in BOOLEAN : Number(q, signs) \/ BeatSign(q, signs)
        \/ BeatKey(q) \/ BeatCount(q)

Spec == Init /\ [][Next]_vars

-----------------------------------------------------------------------------

\* Every variable of the composition holds a value of its type.
TypeOK ==
    /\ RegistryTypeOK
    /\ key \in Keys \cup {NoKey}
    /\ seq \in [Customers -> Nat]
    /\ req \in [Requests -> {NoReq} \cup
                  [at : {"acting", "attach", "number", "beat", "count", "sign"}, kind : Kinds,
                   token : Tokens, id : Entries \ {NoEntry}, had : Nat, next : Nat]]
    /\ chain \in [Customers -> Seq(Nat)]
    /\ arrivals \in 0..MaxArrivals

\* The receipts a customer was issued since boot are numbered 0, 1, 2, ... without
\* a hole and without a repetition, and the counter says how many there are,
\* whatever signatures fail, whichever tenants' requests interleave and however
\* often the receipt key is replaced (issue_pre).
GapFree ==
    \A c \in Customers :
        /\ Len(chain[c]) = seq[c]
        /\ \A i \in 1..Len(chain[c]) : chain[c][i] = i - 1

\* A heartbeat counts at least every receipt issued before it was asked for, and
\* no more than were issued: a swallowed last receipt shows (issue_heartbeat).
HeartbeatCounts ==
    \A b \in beats : b.had <= b.next /\ b.next <= Len(chain[b.entry.customer])

\* "Version of the registry the enclave is actually running" next to the digest of
\* "the caller's OWN resident registry entry": the two fields of one heartbeat
\* describe one registry (ReceiptHeartbeat).
HeartbeatIsOneRegistry ==
    \A b \in beats : b.version # 0 /\ Content[b.version][b.token] = b.entry

=============================================================================
