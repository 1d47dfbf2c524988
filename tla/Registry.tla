------------------------------ MODULE Registry ------------------------------
(***************************************************************************)
(* The enclave's tenant registry (registry.rs).  A refresh is accepted when *)
(* the control plane's signature covers the nonce this enclave issued, the  *)
(* version and the entries; it is installed under the write lock if its     *)
(* version is greater than the resident one.  The nonce is looked up before *)
(* the signature is verified and consumed after the install, under          *)
(* different locks, and every connection runs in a task of its own.         *)
(*                                                                          *)
(* The relay between enclave and control plane is not trusted: what was     *)
(* signed once may be delivered at any time, any number of times, in any    *)
(* order, also after a restart.  Signatures are not forged.                 *)
(***************************************************************************)
EXTENDS Integers

CONSTANTS
    Calls,        \* registry_refresh requests in flight at one time
    Tokens,       \* opaque bearer tokens
    Customers,
    Content,      \* Content[v][t]: the entry of token t in version v
    Acceptable,   \* versions whose entries pass the checks of `refresh`
    MaxVersion,   \* bound: versions the control plane publishes
    MaxNonce,     \* bound: challenges
    MaxBoots      \* bound: enclave restarts

Versions == 1..MaxVersion
Nonces   == 1..MaxNonce

Modes == {"Active", "CancelOnly", "Halted"}

NoEntry == [customer |-> "none", mode |-> "Halted"]
Entries == [customer : Customers, mode : Modes] \cup {NoEntry}

ASSUME RegistryAssumption ==
    /\ MaxVersion \in Nat \ {0} /\ MaxNonce \in Nat /\ MaxBoots \in Nat
    /\ Acceptable \subseteq Versions
    /\ Content \in [Versions -> [Tokens -> Entries]]

VARIABLES
    head,      \* the control plane's current version
    signed,    \* what the control plane has signed so far
    issued,    \* nonces issued so far are 1 .. issued: random, never repeated
    headAt,    \* history: headAt[n], the current version when n was issued
    born,      \* history: nonces issued before this enclave started
    pending,   \* the pending-nonce slot; 0 is None
    reg,       \* the resident registry: its version (0: empty) and its nonce
    call,      \* call[k]: a refresh between its checks and its install
    boots

registryVars == <<head, signed, issued, headAt, born, pending, reg, call, boots>>

NoCall == [at |-> "idle"]
EmptyRegistry == [version |-> 0, nonce |-> 0]

RegistryInit ==
    /\ head = 1
    /\ signed = {}
    /\ issued = 0 /\ born = 0 /\ pending = 0
    /\ headAt = [n \in Nonces |-> 0]
    /\ reg = EmptyRegistry
    /\ call = [k \in Calls |-> NoCall]
    /\ boots = 0

\* The control plane: publishes versions, and signs only the current one.
Publish ==
    /\ head < MaxVersion
    /\ head' = head + 1
    /\ UNCHANGED <<signed, issued, headAt, born, pending, reg, call, boots>>

Sign(n) ==
    /\ n <= issued
    /\ signed' = signed \cup {[nonce |-> n, version |-> head]}
    /\ UNCHANGED <<head, issued, headAt, born, pending, reg, call, boots>>

\* challenge: a fresh nonce replaces the pending one.
Challenge ==
    /\ issued < MaxNonce
    /\ issued' = issued + 1
    /\ pending' = issued'
    /\ headAt' = [headAt EXCEPT ![issued'] = head]
    /\ UNCHANGED <<head, signed, born, reg, call, boots>>

\* The entries parse, their ids are safe, their modes known, and no reserved venue
\* goes to a stranger.
Vetted(v) == v \in Acceptable

\* Mutated form of Check: any nonce the control plane signed is good enough.
CheckAnyNonce(k, m) ==
    /\ call[k] = NoCall
    /\ m \in signed
    /\ Vetted(m.version)
    /\ call' = [call EXCEPT ![k] = [at |-> "checked", nonce |-> m.nonce, version |-> m.version]]
    /\ UNCHANGED <<head, signed, issued, headAt, born, pending, reg, boots>>

\* refresh, steps 1 to 4: the nonce is peeked at, the signature verified, the
\* entries parsed and vetted.  A call that fails any of them changes nothing.
Check(k, m) ==
    /\ call[k] = NoCall
    /\ m \in signed
    /\ m.nonce = pending
    /\ Vetted(m.version)
    /\ call' = [call EXCEPT ![k] = [at |-> "checked", nonce |-> m.nonce, version |-> m.version]]
    /\ UNCHANGED <<head, signed, issued, headAt, born, pending, reg, boots>>

\* Mutated forms of Install: the resident version is not asked again under the
\* write lock; the nonce slot is emptied whatever it holds.
InstallUnchecked(k) ==
    /\ call[k] # NoCall
    /\ LET m == call[k]
       IN /\ reg' = [version |-> m.version, nonce |-> m.nonce]
          /\ pending' = IF pending = m.nonce THEN 0 ELSE pending
    /\ call' = [call EXCEPT ![k] = NoCall]
    /\ UNCHANGED <<head, signed, issued, headAt, born, boots>>

InstallClearing(k) ==
    /\ call[k] # NoCall
    /\ LET m == call[k]
       IN IF m.version > reg.version
          THEN /\ reg' = [version |-> m.version, nonce |-> m.nonce]
               /\ pending' = 0
          ELSE UNCHANGED <<reg, pending>>
    /\ call' = [call EXCEPT ![k] = NoCall]
    /\ UNCHANGED <<head, signed, issued, headAt, born, boots>>

\* Steps 5 to 7, under the write lock: the version must grow; the nonce slot is
\* emptied only if it still holds the nonce that was checked.
Install(k) ==
    /\ call[k] # NoCall
    /\ LET m == call[k]
       IN IF m.version > reg.version
          THEN /\ reg' = [version |-> m.version, nonce |-> m.nonce]
               /\ pending' = IF pending = m.nonce THEN 0 ELSE pending
          ELSE UNCHANGED <<reg, pending>>
    /\ call' = [call EXCEPT ![k] = NoCall]
    /\ UNCHANGED <<head, signed, issued, headAt, born, boots>>

\* The enclave has no disk: a restart forgets the registry and the nonce.
Reboot ==
    /\ boots < MaxBoots
    /\ boots' = boots + 1
    /\ born' = issued
    /\ pending' = 0
    /\ reg' = EmptyRegistry
    /\ call' = [k \in Calls |-> NoCall]
    /\ UNCHANGED <<head, signed, issued, headAt>>

\* resolve: the entry of the token in the resident registry, if there is one.
Resolve(t) == IF reg.version = 0 THEN NoEntry ELSE Content[reg.version][t]

RegistryStep ==
    \/ Publish
    \/ Challenge
    \/ \E n \in Nonces : Sign(n)
    \/ \E k \in Calls : Install(k) \/ \E m \in signed : Check(k, m)

RegistryNext == RegistryStep \/ Reboot

RegistrySpec == RegistryInit /\ [][RegistryNext]_registryVars

-----------------------------------------------------------------------------

Messages == [nonce : Nonces, version : Versions]

\* Every variable of the registry holds a value of its type.
RegistryTypeOK ==
    /\ head \in Versions
    /\ signed \in SUBSET Messages
    /\ issued \in 0..MaxNonce /\ born \in 0..MaxNonce /\ pending \in 0..MaxNonce
    /\ headAt \in [Nonces -> 0..MaxVersion]
    /\ reg \in [version : 0..MaxVersion, nonce : 0..MaxNonce]
    /\ call \in [Calls -> {NoCall} \cup [at : {"checked"}, nonce : Nonces, version : Versions]]
    /\ boots \in 0..MaxBoots

\* What a signed pair (nonce, version) tells: the version was current at or after
\* the challenge, and the challenge is one of this enclave's.
SinceChallenge(n, v) == n \in (born + 1)..issued /\ headAt[n] <= v /\ v <= head

\* Whatever the relay holds back, repeats or replays, before or after a restart,
\* the resident registry was signed for a challenge of this enclave's own life
\* and is no older than the version current when that challenge was issued: a
\* tenant removed before it is never let back in (refresh, challenge).
NoReplay == reg.version # 0 => SinceChallenge(reg.nonce, reg.version)

\* The resident version never goes back but by a restart, however the checks and
\* installs of concurrent refreshes interleave (refresh, step 5).
NoDowngrade == [][reg'.version >= reg.version \/ boots' # boots]_registryVars

\* A nonce leaves its slot only for a newer challenge, by the install it was
\* issued for, or by a restart: a slow refresh never burns the next operator's
\* nonce (refresh, step 7).
NonceIsNotBurnt ==
    [][pending # 0 /\ pending' # pending =>
          pending' > pending \/ reg'.nonce = pending \/ boots' # boots]_registryVars

=============================================================================
