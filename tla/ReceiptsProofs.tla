--------------------------- MODULE ReceiptsProofs ---------------------------
(***************************************************************************)
(* Proofs about the registry refresh, for any number of concurrent calls,   *)
(* challenges, versions and restarts, and about the decision receipts, for  *)
(* any number of connections, customers and keys.                           *)
(***************************************************************************)
EXTENDS Receipts, SequenceTheorems, TLAPS

-----------------------------------------------------------------------------
(* The registry on its own.                                                 *)

\* The registry keeps its types (challenge, refresh).
THEOREM RegistryTypeCorrect == RegistrySpec => []RegistryTypeOK
<1>1. RegistryInit => RegistryTypeOK
  BY RegistryAssumption
  DEF RegistryInit, RegistryTypeOK, Versions, Nonces, EmptyRegistry, NoCall
<1>2. RegistryTypeOK /\ [RegistryNext]_registryVars => RegistryTypeOK'
  <2> SUFFICES ASSUME RegistryTypeOK, [RegistryNext]_registryVars
               PROVE  RegistryTypeOK'
    OBVIOUS
  <2> USE RegistryAssumption DEF RegistryTypeOK, Versions, Nonces, Messages
  <2>1. CASE Publish
    BY <2>1 DEF Publish
  <2>2. CASE Challenge
    BY <2>2 DEF Challenge
  <2>3. ASSUME NEW n \in Nonces, Sign(n)
        PROVE  RegistryTypeOK'
    BY <2>3 DEF Sign
  <2>4. ASSUME NEW k \in Calls, Install(k)
        PROVE  RegistryTypeOK'
    <3>1. /\ call[k].nonce \in Nonces /\ call[k].version \in Versions
          /\ call' = [call EXCEPT ![k] = NoCall]
      BY <2>4 DEF Install, NoCall
    <3>2. call' \in [Calls -> {NoCall} \cup [at : {"checked"}, nonce : Nonces, version : Versions]]
      BY <3>1
    <3>3. /\ reg' \in [version : 0..MaxVersion, nonce : 0..MaxNonce]
          /\ pending' \in 0..MaxNonce
      <4>1. CASE call[k].version > reg.version
        <5>1. /\ reg' = [version |-> call[k].version, nonce |-> call[k].nonce]
              /\ pending' = IF pending = call[k].nonce THEN 0 ELSE pending
          BY <2>4, <4>1 DEF Install
        <5>2. reg' \in [version : 0..MaxVersion, nonce : 0..MaxNonce]
          BY <3>1, <5>1
        <5> QED
          BY <5>1, <5>2
      <4>2. CASE ~(call[k].version > reg.version)
        BY <2>4, <4>2 DEF Install
      <4> QED
        BY <4>1, <4>2
    <3> QED
      BY <2>4, <3>2, <3>3 DEF Install
  <2>5. ASSUME NEW k \in Calls, NEW m \in signed, Check(k, m)
        PROVE  RegistryTypeOK'
    <3>1. m.nonce \in Nonces /\ m.version \in Versions
      BY <2>5
    <3> QED
      BY <2>5, <3>1 DEF Check
  <2>6. CASE Reboot
    BY <2>6 DEF Reboot, EmptyRegistry
  <2>7. CASE UNCHANGED registryVars
    BY <2>7 DEF registryVars
  <2> QED
    BY <2>1, <2>2, <2>3, <2>4, <2>5, <2>6, <2>7 DEF RegistryNext, RegistryStep
<1> QED
  BY <1>1, <1>2, PTL DEF RegistrySpec

-----------------------------------------------------------------------------
(* The strengthening of NoReplay: what was signed was current when it was     *)
(* signed, and every nonce that is pending or being used belongs to this boot. *)

SignedWhenCurrent ==
    /\ \A n \in Nonces : n <= issued => headAt[n] <= head
    /\ \A m \in signed : m.nonce <= issued /\ headAt[m.nonce] <= m.version /\ m.version <= head

OwnNonces ==
    /\ born <= issued
    /\ pending # 0 => pending \in (born + 1)..issued
    /\ \A k \in Calls : call[k] # NoCall => SinceChallenge(call[k].nonce, call[k].version)

ReplayInv == RegistryTypeOK /\ SignedWhenCurrent /\ OwnNonces /\ NoReplay

\* Every step of the registry, the relay or the control plane keeps the
\* strengthened invariant.
LEMMA ReplayStep == ReplayInv /\ RegistryTypeOK' /\ [RegistryNext]_registryVars => ReplayInv'
<1> SUFFICES ASSUME ReplayInv, RegistryTypeOK', [RegistryNext]_registryVars
             PROVE  SignedWhenCurrent' /\ OwnNonces' /\ NoReplay'
  BY DEF ReplayInv
<1> USE RegistryAssumption
    DEF ReplayInv, RegistryTypeOK, SignedWhenCurrent, OwnNonces, NoReplay, SinceChallenge,
        Versions, Nonces, Messages
<1>1. CASE Publish
  BY <1>1 DEF Publish
<1>2. CASE Challenge
  <2>1. \A n \in Nonces : n <= issued => headAt'[n] = headAt[n]
    BY <1>2 DEF Challenge
  <2>2. SignedWhenCurrent'
    BY <1>2, <2>1 DEF Challenge
  <2>3. OwnNonces'
    BY <1>2, <2>1 DEF Challenge, NoCall
  <2>4. NoReplay'
    BY <1>2, <2>1 DEF Challenge
  <2> QED
    BY <2>2, <2>3, <2>4
<1>3. ASSUME NEW n \in Nonces, Sign(n)
      PROVE  SignedWhenCurrent' /\ OwnNonces' /\ NoReplay'
  BY <1>3 DEF Sign
<1>4. ASSUME NEW k \in Calls, Install(k)
      PROVE  SignedWhenCurrent' /\ OwnNonces' /\ NoReplay'
  <2>1. SinceChallenge(call[k].nonce, call[k].version)
    BY <1>4 DEF Install
  <2>2. SignedWhenCurrent'
    BY <1>4 DEF Install
  <2>3. OwnNonces'
    BY <1>4 DEF Install, NoCall
  <2>4. NoReplay'
    <3>1. CASE call[k].version > reg.version
      <4>1. reg' = [version |-> call[k].version, nonce |-> call[k].nonce]
        BY <1>4, <3>1 DEF Install
      <4>2. reg'.version = call[k].version /\ reg'.nonce = call[k].nonce
        BY <4>1
      <4> QED
        BY <1>4, <2>1, <4>2 DEF Install
    <3>2. CASE ~(call[k].version > reg.version)
      BY <1>4, <3>2 DEF Install
    <3> QED
      BY <3>1, <3>2
  <2> QED
    BY <2>2, <2>3, <2>4
<1>5. ASSUME NEW k \in Calls, NEW m \in signed, Check(k, m)
      PROVE  SignedWhenCurrent' /\ OwnNonces' /\ NoReplay'
  <2>1. SinceChallenge(m.nonce, m.version)
    BY <1>5 DEF Check
  <2> QED
    BY <1>5, <2>1 DEF Check, NoCall
<1>6. CASE Reboot
  BY <1>6 DEF Reboot, EmptyRegistry
<1>7. CASE UNCHANGED registryVars
  BY <1>7 DEF registryVars
<1> QED
  BY <1>1, <1>2, <1>3, <1>4, <1>5, <1>6, <1>7 DEF RegistryNext, RegistryStep

\* However the relay delays, repeats or replays what was signed, the resident
\* registry was signed for a challenge of this enclave's own life and is no older
\* than the version current at that challenge (refresh, challenge).
THEOREM NoReplayTheorem == RegistrySpec => []NoReplay
<1>1. RegistryInit => ReplayInv
  BY RegistryAssumption
  DEF RegistryInit, ReplayInv, RegistryTypeOK, SignedWhenCurrent, OwnNonces, NoReplay,
      Versions, Nonces, EmptyRegistry, NoCall
<1>2. ReplayInv => NoReplay
  BY DEF ReplayInv
<1> QED
  BY <1>1, <1>2, ReplayStep, RegistryTypeCorrect, PTL DEF RegistrySpec

\* No interleaving of refreshes installs a lower version over a higher one
\* (refresh, step 5).
THEOREM NoDowngradeTheorem == RegistrySpec => NoDowngrade
<1>1. RegistryTypeOK /\ [RegistryNext]_registryVars
          => [reg'.version >= reg.version \/ boots' # boots]_registryVars
  <2> SUFFICES ASSUME RegistryTypeOK, RegistryNext
               PROVE  reg'.version >= reg.version \/ boots' # boots
    OBVIOUS
  <2>1. reg.version \in Int /\ boots \in Int
    BY RegistryAssumption DEF RegistryTypeOK
  <2>2. CASE reg' = reg
    BY <2>1, <2>2
  <2>3. ASSUME NEW k \in Calls, Install(k)
        PROVE  reg'.version >= reg.version
    <3>1. CASE call[k].version > reg.version
      <4>1. call[k].version \in Int
        BY <2>3 DEF Install, RegistryTypeOK, Versions, NoCall
      <4> QED
        BY <2>1, <2>3, <3>1, <4>1 DEF Install
    <3>2. CASE ~(call[k].version > reg.version)
      BY <2>1, <2>3, <3>2 DEF Install
    <3> QED
      BY <3>1, <3>2
  <2>4. CASE Reboot
    BY <2>1, <2>4 DEF Reboot
  <2> QED
    BY <2>2, <2>3, <2>4 DEF RegistryNext, RegistryStep, Publish, Sign, Challenge, Check
<1> QED
  BY <1>1, RegistryTypeCorrect, PTL DEF RegistrySpec, NoDowngrade

\* A nonce that is pending is never burnt by a refresh it was not issued for
\* (refresh, step 7).
THEOREM NonceTheorem == RegistrySpec => NonceIsNotBurnt
<1> DEFINE Kept == pending # 0 /\ pending' # pending =>
                      pending' > pending \/ reg'.nonce = pending \/ boots' # boots
<1>1. ReplayInv /\ [RegistryNext]_registryVars => [Kept]_registryVars
  <2> SUFFICES ASSUME ReplayInv, RegistryNext
               PROVE  Kept
    OBVIOUS
  <2>1. pending \in Int /\ issued \in Int /\ boots \in Int /\ (pending # 0 => pending <= issued)
    BY RegistryAssumption DEF ReplayInv, RegistryTypeOK, OwnNonces
  <2>2. CASE pending' = pending
    BY <2>2
  <2>3. CASE Challenge
    BY <2>1, <2>3 DEF Challenge
  <2>4. ASSUME NEW k \in Calls, Install(k)
        PROVE  Kept
    BY <2>4 DEF Install
  <2>5. CASE Reboot
    BY <2>1, <2>5 DEF Reboot
  <2> QED
    BY <2>2, <2>3, <2>4, <2>5 DEF RegistryNext, RegistryStep, Publish, Sign, Check
<1>2. RegistryInit => ReplayInv
  BY RegistryAssumption
  DEF RegistryInit, ReplayInv, RegistryTypeOK, SignedWhenCurrent, OwnNonces, NoReplay,
      Versions, Nonces, EmptyRegistry, NoCall
<1> QED
  BY <1>1, <1>2, ReplayStep, RegistryTypeCorrect, PTL DEF RegistrySpec, NonceIsNotBurnt

-----------------------------------------------------------------------------
(* The receipts.                                                            *)

\* Steps of requests and of the receipt key leave the registry alone, so every
\* theorem about the registry holds of the composition.
THEOREM ImplementsRegistry == Spec => RegistrySpec
<1>1. Init => RegistryInit
  BY DEF Init
<1>2. [Next]_vars => [RegistryNext]_registryVars
  BY DEF Next, vars, RegistryNext, Restart, InstallKey, Handle, Act, Attach, Number,
         BeatKey, BeatCount, BeatSign
<1> QED
  BY <1>1, <1>2, PTL DEF Spec, RegistrySpec

\* What is known of a request whatever stage it is in: its entry, and that the
\* counter it read is not ahead of the customer's counter.
ReqOK(r) ==
    r # NoReq =>
        /\ r.id \in [customer : Customers, mode : Modes]
        /\ r.had \in Nat /\ r.had <= seq[r.id.customer]
        /\ r.next \in Nat
        /\ r.at = "sign" => r.had <= r.next /\ r.next <= seq[r.id.customer]

ReqRecords ==
    {NoReq} \cup
    [at : {"acting", "attach", "number", "beat", "count", "sign"}, kind : Kinds, token : Tokens,
     id : [customer : Customers, mode : Modes], had : Nat, next : Nat]

Counters ==
    /\ seq \in [Customers -> Nat]
    /\ chain \in [Customers -> Seq(Nat)]
    /\ \A q \in Requests : ReqOK(req[q])
    /\ req \in [Requests -> ReqRecords]

Beats ==
    \A b \in beats : /\ b.entry.customer \in Customers
                     /\ b.had \in Nat /\ b.next \in Nat
                     /\ b.had <= b.next /\ b.next <= seq[b.entry.customer]

ReceiptInv == Counters /\ GapFree /\ Beats

\* An entry that `resolve` returns names a customer.
LEMMA ResolvedEntry ==
    ASSUME RegistryTypeOK, NEW t \in Tokens, Resolve(t) # NoEntry
    PROVE  Resolve(t) \in [customer : Customers, mode : Modes]
<1>1. reg.version # 0
  BY DEF Resolve
<1>2. reg.version \in Versions
  BY <1>1, RegistryAssumption DEF RegistryTypeOK, Versions
<1>3. Content[reg.version][t] \in Entries
  BY <1>2, RegistryAssumption
<1> QED
  BY <1>1, <1>3 DEF Resolve, Entries

\* A step that leaves counters, receipts and heartbeats alone keeps the invariant
\* if the requests it changes are still known as ReqOK says.
LEMMA QuietStep ==
    ASSUME ReceiptInv, UNCHANGED <<seq, chain, beats>>,
           req' \in [Requests -> ReqRecords],
           \A q \in Requests : ReqOK(req[q])'
    PROVE  ReceiptInv'
BY DEF ReceiptInv, Counters, GapFree, Beats

\* Appending its own length keeps a sequence 0, 1, 2, ...
LEMMA Appended ==
    ASSUME NEW s \in Seq(Nat), NEW n \in Nat, Len(s) = n,
           \A i \in 1..Len(s) : s[i] = i - 1
    PROVE  /\ Len(Append(s, n)) = n + 1
           /\ \A i \in 1..Len(Append(s, n)) : Append(s, n)[i] = i - 1
<1>1. /\ Len(Append(s, n)) = Len(s) + 1
      /\ \A i \in 1..Len(s) : Append(s, n)[i] = s[i]
      /\ Append(s, n)[Len(s) + 1] = n
  BY AppendProperties
<1> QED
  BY <1>1

\* Every step of the composition keeps numbers, receipts and heartbeats in line.
LEMMA ReceiptStep == ReceiptInv /\ RegistryTypeOK /\ [Next]_vars => ReceiptInv'
<1> SUFFICES ASSUME ReceiptInv, RegistryTypeOK, [Next]_vars
             PROVE  ReceiptInv'
  OBVIOUS
<1> USE DEF ReceiptInv, Counters, ReqRecords
<1>1. CASE UNCHANGED receiptVars
  BY <1>1 DEF receiptVars, GapFree, Beats, ReqOK
<1>2. CASE Restart
  BY <1>2, EmptySeq DEF Restart, GapFree, Beats, ReqOK
<1>3. ASSUME NEW k \in Keys, InstallKey(k)
      PROVE  ReceiptInv'
  BY <1>3 DEF InstallKey, GapFree, Beats, ReqOK
<1>4. ASSUME NEW q \in Requests, NEW t \in Tokens, NEW kind \in Kinds, NEW limited \in BOOLEAN,
             Handle(q, t, kind, limited)
      PROVE  ReceiptInv'
  <2>1. ASSUME Resolve(t) # NoEntry
        PROVE  Resolve(t).customer \in Customers /\ Resolve(t) \in [customer : Customers, mode : Modes]
    BY <2>1, ResolvedEntry
  <2>2. UNCHANGED <<seq, chain, beats>>
    BY <1>4 DEF Handle
  <2>3. /\ req' \in [Requests -> ReqRecords]
        /\ \A p \in Requests : ReqOK(req[p])'
    <3>1. CASE req' = req
      BY <2>2, <3>1 DEF ReqOK
    <3>2. CASE /\ Resolve(t) # NoEntry
               /\ req' = [req EXCEPT ![q] =
                   [at |-> Stage(kind, Resolve(t)), kind |-> kind, token |-> t, id |-> Resolve(t),
                    had |-> seq[Resolve(t).customer], next |-> 0]]
      <4>1. Stage(kind, Resolve(t)) \in {"acting", "attach", "beat"}
        BY DEF Stage
      <4> QED
        BY <2>1, <2>2, <3>2, <4>1 DEF ReqOK
    <3> QED
      BY <1>4, <3>1, <3>2 DEF Handle
  <2> QED
    BY <2>2, <2>3 DEF GapFree, Beats
<1>5. ASSUME NEW q \in Requests, Act(q) \/ Attach(q) \/ BeatKey(q)
      PROVE  ReceiptInv'
  <2>1. req[q] # NoReq
    BY <1>5 DEF Act, Attach, BeatKey, NoReq
  <2>2. \/ req' = [req EXCEPT ![q] = NoReq]
        \/ \E stage \in {"attach", "number", "count"} : req' = [req EXCEPT ![q].at = stage]
    BY <1>5 DEF Act, Attach, BeatKey
  <2>3. UNCHANGED <<seq, chain, beats>>
    BY <1>5 DEF Act, Attach, BeatKey
  <2>4. req' \in [Requests -> ReqRecords]
    <3>1. ASSUME NEW stage \in {"attach", "number", "count"}
          PROVE  [req[q] EXCEPT !.at = stage] \in ReqRecords
      BY <2>1
    <3>2. ASSUME NEW r \in ReqRecords, req' = [req EXCEPT ![q] = r]
          PROVE  req' \in [Requests -> ReqRecords]
      BY <3>2
    <3>3. NoReq \in ReqRecords
      OBVIOUS
    <3> HIDE DEF ReqRecords
    <3> QED
      BY <2>2, <3>1, <3>2, <3>3
  <2>5. \A p \in Requests : ReqOK(req[p])'
    <3>1. CASE req' = [req EXCEPT ![q] = NoReq]
      BY <2>3, <3>1 DEF ReqOK
    <3>2. ASSUME NEW stage \in {"attach", "number", "count"}, req' = [req EXCEPT ![q].at = stage]
          PROVE  \A p \in Requests : ReqOK(req[p])'
      BY <2>1, <2>3, <3>2 DEF ReqOK, ReqRecords
    <3> QED
      BY <2>2, <3>1, <3>2
  <2> QED
    BY <2>3, <2>4, <2>5, QuietStep
<1>6. ASSUME NEW q \in Requests, BeatCount(q)
      PROVE  ReceiptInv'
  <2>1. req[q] # NoReq
    BY <1>6 DEF BeatCount, NoReq
  <2>2. UNCHANGED <<seq, chain, beats>>
    BY <1>6 DEF BeatCount
  <2>3. req' = [req EXCEPT ![q].at = "sign", ![q].next = seq[req[q].id.customer]]
    BY <1>6 DEF BeatCount
  <2>4. req[q].id.customer \in Customers /\ seq[req[q].id.customer] \in Nat
    BY <2>1 DEF ReqRecords
  <2>5. req' \in [Requests -> ReqRecords]
    <3>1. ASSUME NEW n \in Nat
          PROVE  [req[q] EXCEPT !.at = "sign", !.next = n] \in ReqRecords
      BY <2>1
    <3>2. ASSUME NEW r \in ReqRecords, req' = [req EXCEPT ![q] = r]
          PROVE  req' \in [Requests -> ReqRecords]
      BY <3>2
    <3>3. req' = [req EXCEPT ![q] = [req[q] EXCEPT !.at = "sign", !.next = seq[req[q].id.customer]]]
      BY <2>3
    <3> HIDE DEF ReqRecords
    <3> QED
      BY <2>4, <3>1, <3>2, <3>3
  <2>6. \A p \in Requests : ReqOK(req[p])'
    BY <2>1, <2>2, <2>3, <2>4 DEF ReqOK, ReqRecords
  <2> QED
    BY <2>2, <2>5, <2>6, QuietStep
<1>7. ASSUME NEW q \in Requests, NEW signs \in BOOLEAN, BeatSign(q, signs)
      PROVE  ReceiptInv'
  <2>1. req[q] # NoReq
    BY <1>7 DEF BeatSign, NoReq
  <2>2. UNCHANGED <<seq, chain>> /\ req' = [req EXCEPT ![q] = NoReq]
    BY <1>7 DEF BeatSign
  <2>3. Beats'
    BY <1>7, <2>1, <2>2 DEF BeatSign, Beats, ReqOK
  <2> QED
    BY <2>2, <2>3 DEF GapFree, ReqOK
<1>8. ASSUME NEW q \in Requests, NEW signs \in BOOLEAN, Number(q, signs)
      PROVE  ReceiptInv'
  <2> DEFINE c == req[q].id.customer
  <2>1. req[q] # NoReq /\ c \in Customers
    BY <1>8 DEF Number, NoReq
  <2>2. UNCHANGED beats /\ req' = [req EXCEPT ![q] = NoReq]
    BY <1>8 DEF Number
  <2>3. CASE UNCHANGED <<seq, chain>>
    BY <2>2, <2>3 DEF GapFree, Beats, ReqOK
  <2>4. CASE /\ seq' = [seq EXCEPT ![c] = @ + 1]
             /\ chain' = [chain EXCEPT ![c] = Append(@, seq[c])]
    <3>1. \A d \in Customers : seq'[d] \in Nat /\ seq[d] <= seq'[d]
      BY <2>1, <2>4
    <3>2. seq' \in [Customers -> Nat] /\ chain' \in [Customers -> Seq(Nat)]
      BY <2>1, <2>4
    <3>3. \A p \in Requests : ReqOK(req[p])'
      BY <2>2, <3>1 DEF ReqOK
    <3>4. Beats'
      BY <2>2, <3>1 DEF Beats
    <3>5. GapFree'
      <4>1. ASSUME NEW d \in Customers, d # c
            PROVE  seq'[d] = seq[d] /\ chain'[d] = chain[d]
        BY <2>4, <4>1
      <4>2. chain'[c] = Append(chain[c], seq[c]) /\ seq'[c] = seq[c] + 1
        BY <2>1, <2>4
      <4>3. /\ Len(chain'[c]) = seq[c] + 1
            /\ \A i \in 1..Len(chain'[c]) : chain'[c][i] = i - 1
        <5>1. chain[c] \in Seq(Nat) /\ Len(chain[c]) = seq[c] /\ seq[c] \in Nat
          BY <2>1 DEF GapFree
        <5>2. \A i \in 1..Len(chain[c]) : chain[c][i] = i - 1
          BY <2>1 DEF GapFree
        <5> QED
          BY <4>2, <5>1, <5>2, Appended
      <4>4. ASSUME NEW d \in Customers
            PROVE  /\ Len(chain'[d]) = seq'[d]
                   /\ \A i \in 1..Len(chain'[d]) : chain'[d][i] = i - 1
        <5> HIDE DEF c
        <5>1. CASE d = c
          BY <4>2, <4>3, <5>1
        <5>2. CASE d # c
          BY <4>1, <5>2 DEF GapFree
        <5> QED
          BY <5>1, <5>2
      <4> QED
        BY <4>4 DEF GapFree
    <3>6. req' \in [Requests -> ReqRecords]
      BY <2>2
    <3> QED
      BY <2>2, <3>2, <3>3, <3>4, <3>5, <3>6
  <2> QED
    BY <1>8, <2>3, <2>4 DEF Number
<1>9. CASE UNCHANGED vars
  BY <1>9 DEF vars, receiptVars, GapFree, Beats, ReqOK
<1> QED
  BY <1>1, <1>2, <1>3, <1>4, <1>5, <1>6, <1>7, <1>8, <1>9 DEF Next

\* The invariant holds of every behaviour of the composition.
LEMMA AlwaysInLine == Spec => []ReceiptInv
<1>1. Init => ReceiptInv
  BY EmptySeq DEF Init, ReceiptsInit, ReceiptInv, Counters, ReqRecords, GapFree, Beats, ReqOK
<1> QED
  BY <1>1, ReceiptStep, ImplementsRegistry, RegistryTypeCorrect, PTL DEF Spec

\* Receipts are numbered without a hole or a repetition for every customer
\* (issue_pre).
THEOREM GapFreeTheorem == Spec => []GapFree
<1>1. ReceiptInv => GapFree
  BY DEF ReceiptInv
<1> QED
  BY <1>1, AlwaysInLine, PTL

\* A heartbeat counts what was issued before it was asked for, and no more than
\* was issued (issue_heartbeat).
THEOREM HeartbeatTheorem == Spec => []HeartbeatCounts
<1>1. ReceiptInv => HeartbeatCounts
  BY DEF ReceiptInv, HeartbeatCounts, Beats, GapFree
<1> QED
  BY <1>1, AlwaysInLine, PTL

=============================================================================
