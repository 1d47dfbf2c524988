----------------------------- MODULE KeyFactory -----------------------------
(***************************************************************************)
(* Keys born in the enclave (handler.rs, provision_data_key and             *)
(* provision_agent_key) and the parent's command that asks for one, writes  *)
(* the sealed blob to a new file and prints the key's address               *)
(* (parent/main.rs).  Several commands may run at a time; each may be       *)
(* killed between any two of its steps.                                     *)
(*                                                                          *)
(* A request has a kind, the credentials it is made with, the identity the  *)
(* key is for (home), its policy, and the file it goes to (out).            *)
(***************************************************************************)
EXTENDS PolicyTool

CONSTANTS
    Commands,     \* commands that may run at one time
    Outputs,      \* Outputs[home]: the files a key of this identity is written to
    Places,       \* places where a blob file may be
    AgentHomes,   \* identities agent keys are asked for
    MaxKeys,      \* bound: requests
    Images        \* builds of the enclave

\* What a policy file can be once the authority may have signed it.
Policies ==
    Drafts \union {[p EXCEPT !.authority = h] : p \in Drafts, h \in ClientHomes}

\* The identities keys are minted for, customer and venue.
Homes == AgentHomes \union {DataHome}

ASSUME FactoryAssumption ==
    /\ \A home \in Homes : Outputs[home] \subseteq Places /\ home = <<home[1], home[2]>>
    /\ None \notin Images /\ None \notin Policies /\ None \notin Homes

VARIABLES
    image,      \* the running build, or None
    asked,      \* requests so far; a key is named by its request
    command,    \* command[w]: what command w is doing
    disk,       \* disk[p]: the blob in file p, or None
    announced   \* addresses printed, with their files, while the operator leaves these alone

factoryVars == <<image, asked, command, disk, announced>>

NoCommand == [at |-> "idle"]

FactoryInit ==
    /\ image \in Images
    /\ asked = 0
    /\ command = [w \in Commands |-> NoCommand]
    /\ disk = [p \in Places |-> None]
    /\ announced = {}

Quit(w) == command' = [command EXCEPT ![w] = NoCommand]
Holding(w, at) == command[w].at = at

(***************************************************************************)
(* The request (build_provision_request, build_provision_agent_request).    *)
(***************************************************************************)
DataRequest(creds, out) ==
    [kind |-> "data", creds |-> creds, home |-> DataHome, policy |-> None, out |-> out]

AgentRequest(creds, home, policy, out) ==
    [kind |-> "agent", creds |-> creds, home |-> home, policy |-> policy, out |-> out]

\* The parent refuses an unsafe id before it connects.
Sendable(r) == r.kind = "agent" => r.home[1] \in SafeIds /\ r.home[2] \in SafeIds

Ask(w, r) ==
    /\ Holding(w, "idle")
    /\ asked < MaxKeys
    /\ Sendable(r)
    /\ asked' = asked + 1
    /\ command' = [command EXCEPT ![w] = [at |-> "sent", request |-> r, key |-> asked']]
    /\ UNCHANGED <<image, disk, announced>>

(***************************************************************************)
(* The enclave.                                                             *)
(***************************************************************************)
\* build_data_key_plaintext: the policy is the enclave's own.
DataPolicy == [authority |-> None, signer |-> None, signed |-> "no",
               hl_order_caps |-> None, order_caps |-> None, intent |-> None,
               flaws |-> {}, exact |-> TRUE, size |-> "small"]

\* None stands for no file and for no policy.
ASSUME NoneAssumption ==
    /\ None # DataPolicy
    /\ None \notin [key : Nat, form : {"envelope"}, ctx : Homes, aad : Homes,
                   policy : Policies \union {DataPolicy}, size : Sizes]

\* is_agent_key_venue
Mintable == {"hyperliquid_main", "hyperliquid_testnet"}

\* Mutated form of Mints: without the load-time floor.
MintsUnfloored(r) ==
    LET who == r.home[1]  v == r.home[2]  p == r.policy IN
    v \in Mintable /\ who \in SafeIds /\ p.intent = None

\* handle_provision_agent_key: the checks the load path will make, made before
\* the key is born.
Mints(r) ==
    LET who == r.home[1]  v == r.home[2]  p == r.policy IN
    /\ v \in Mintable
    /\ who \in SafeIds
    /\ p.intent = None
    /\ Strict(image.strict, v) /\ v \in MoneyVenues =>
          AuthoritySigned(image, p, who, v) /\ BindingCap(p, v)

\* build_agent_key_plaintext: the policy is carried over byte by byte.
AgentBlob(key, r) == Sealed(key, r.home, r.policy, r.policy.size)

\* handle_provision_data_key
DataBlob(key) == Sealed(key, DataHome, DataPolicy, DataPolicy.size)

Born(key, r) == IF r.kind = "data" THEN DataBlob(key) ELSE AgentBlob(key, r)

\* The answer to a request: a sealed key if its checks pass and KMS wraps its
\* data key, an error otherwise, which ends the command.
Answer(w) ==
    LET r == command[w].request IN
    /\ Holding(w, "sent") /\ image # None
    /\ \E outcome \in WrapOutcomes(r.creds, r.home) :
          IF (r.kind = "agent" => Mints(r)) /\ outcome = "wrapped"
          THEN command' = [command EXCEPT ![w] =
                  [at |-> "answered", request |-> r, key |-> @.key,
                   blob |-> Born(@.key, r), image |-> image]]
          ELSE Quit(w)
    /\ UNCHANGED <<image, asked, disk, announced>>

(***************************************************************************)
(* The file (write_new_private_file) and the printed address (main).        *)
(***************************************************************************)
\* Mutated form of WriteNew: an existing file is truncated.
WriteOver(w) ==
    /\ Holding(w, "answered")
    /\ disk' = [disk EXCEPT ![command[w].request.out] = command[w].blob]
    /\ command' = [command EXCEPT ![w].at = "written"]
    /\ UNCHANGED <<image, asked, announced>>

\* create_new refuses a file that exists; the key is lost with the command.
WriteNew(w) ==
    LET out == command[w].request.out IN
    /\ Holding(w, "answered")
    /\ IF disk[out] = None
       THEN /\ disk' = [disk EXCEPT ![out] = command[w].blob]
            /\ command' = [command EXCEPT ![w].at = "written"]
       ELSE Quit(w) /\ UNCHANGED disk
    /\ UNCHANGED <<image, asked, announced>>

\* write_all fails half way: the new file stays, empty or cut off.
WriteTorn(w) ==
    LET out == command[w].request.out IN
    /\ Holding(w, "answered")
    /\ disk[out] = None
    /\ \E size \in {"empty", "small"} :
          disk' = [disk EXCEPT ![out] = [command[w].blob EXCEPT !.form = "torn", !.size = size]]
    /\ Quit(w)
    /\ UNCHANGED <<image, asked, announced>>

Announce(w) ==
    /\ Holding(w, "written")
    /\ announced' = announced \union
          {[key |-> command[w].key, file |-> command[w].request.out, home |-> command[w].request.home,
            image |-> command[w].image]}
    /\ Quit(w)
    /\ UNCHANGED <<image, asked, disk>>

\* The command dies, or the connection to the enclave does.
Killed(w) ==
    /\ ~Holding(w, "idle")
    /\ Quit(w)
    /\ UNCHANGED <<image, asked, disk, announced>>

(***************************************************************************)
(* The operator: files are placed and removed by hand, the enclave is       *)
(* stopped and started with another build.                                  *)
(***************************************************************************)
LeaveAlone(p) == announced' = {a \in announced : a.file # p}

\* Nobody touches the file of a command that is about to print its address.
Unattended(p) == \A w \in Commands : Holding(w, "written") => command[w].request.out # p

Place(p) ==
    /\ bench.at = "ready" /\ Unattended(p)
    /\ disk' = [disk EXCEPT ![p] = bench.blob]
    /\ bench' = Delivered
    /\ LeaveAlone(p)
    /\ UNCHANGED <<image, asked, command, shelf>>

RemoveFile(p) ==
    /\ disk[p] # None /\ Unattended(p)
    /\ disk' = [disk EXCEPT ![p] = None]
    /\ LeaveAlone(p)
    /\ UNCHANGED <<image, asked, command>>

EnclaveStops ==
    /\ image # None
    /\ image' = None
    /\ UNCHANGED <<asked, command, disk, announced>>

EnclaveStarts(i) ==
    /\ image = None
    /\ image' = i
    /\ UNCHANGED <<asked, command, disk, announced>>

FactoryNext ==
    \/ \E w \in Commands :
          \/ \E creds \in Credentials :
                \/ \E out \in Outputs[DataHome] : Ask(w, DataRequest(creds, out))
                \/ \E home \in AgentHomes, p \in shelf :
                      \E out \in Outputs[home] : Ask(w, AgentRequest(creds, home, p, out))
          \/ Answer(w) \/ WriteNew(w) \/ WriteTorn(w) \/ Announce(w) \/ Killed(w)
    \/ \E p \in Places : RemoveFile(p)
    \/ EnclaveStops \/ \E i \in Images : EnclaveStarts(i)

=============================================================================
