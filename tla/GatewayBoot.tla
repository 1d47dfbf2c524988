---------------------------- MODULE GatewayBoot -----------------------------
(***************************************************************************)
(* How the gateway starts (gateway main.rs, state.rs): it reads the sealed  *)
(* keys, has the enclave sign once with the data key and compares the       *)
(* signer with the address it publishes, then repeats that test for as long *)
(* as it runs and shows the outcome on /healthz.  What /attestation         *)
(* publishes comes from the same environment (handlers.rs).                 *)
(*                                                                          *)
(* A file is [dir, customer, stem]: flat in the blobs directory, in a       *)
(* customer's subdirectory, or the --blob-path of old deployments.  Both    *)
(* forms of the data key's public half (address, compressed point) are      *)
(* represented by the key.                                                  *)
(***************************************************************************)
EXTENDS KeyFactory

CONSTANTS
    Exchanges,   \* SUPPORTED_EXCHANGES
    Default,     \* DEFAULT_CUSTOMER_ID
    Configs      \* settings of a deployment: [token, path, interval, pcr0, garbled]

VARIABLES
    config,   \* data token set, --blob-path given, probe interval not zero, SIGNER_PCR0,
              \* and the blob files with a .ctx.json beside them that is no context
    env,      \* SIGNER_DATA_ADDRESS and SIGNER_DATA_PUBKEY of the next start
    gw        \* the running gateway

bootVars == <<config, env, gw>>

Down == [up |-> FALSE]

BootInit ==
    /\ config \in Configs
    /\ env = [address |-> None, pubkey |-> None]
    /\ gw = Down

(***************************************************************************)
(* load_all_blobs.                                                          *)
(***************************************************************************)
Scope(p) == <<p.customer, p.stem>>

\* A subdirectory that would shadow the flat files, or is no safe id, is skipped.
Scanned(p) ==
    \/ p.dir = "flat"
    \/ p.dir = "customer" /\ p.customer # Default /\ p.customer \in SafeIds

\* load_blob_with_ctx: the file fits, and a .ctx.json, if there is one, holds a
\* context that is not empty.
LoadsWithCtx(p) == FitsGateway(disk[p]) /\ p \notin config.garbled

\* Pass 1: an unreadable venue file ends the start.
VenueFileBad(p) ==
    p.dir = "flat" /\ p.stem \in Exchanges /\ disk[p] # None /\ ~LoadsWithCtx(p)

\* Passes 2 and 3: any other unreadable file is skipped.
Readable == {p \in Places : Scanned(p) /\ disk[p] # None /\ LoadsWithCtx(p)}

\* The legacy file stands in for a missing kucoin.enc, and must then be readable;
\* it has no context file.
LegacyScope == <<Default, "kucoin">>
LegacyUsed == config.path /\ LegacyScope \notin {Scope(p) : p \in Readable}
LegacyFiles == {p \in Places : p.dir = "path" /\ disk[p] # None /\ FitsGateway(disk[p])}

BlobFiles == Readable \union (IF LegacyUsed THEN LegacyFiles ELSE {})

LoadSucceeds ==
    /\ \A p \in Places : ~VenueFileBad(p)
    /\ LegacyUsed => LegacyFiles # {}
    /\ BlobFiles # {}

LoadAllBlobs ==
    [s \in {Scope(p) : p \in BlobFiles} |-> disk[CHOOSE p \in BlobFiles : Scope(p) = s]]

(***************************************************************************)
(* run_data_signing_probe, by what it may answer: signing fails without     *)
(* credentials or enclave, or when the enclave cannot load the key.  An     *)
(* enclave that has pinned another policy key refuses it as well: one more  *)
(* reason for a failure, which is always among the outcomes.                *)
(***************************************************************************)
CanSign(blob) == image # None /\ Loads(image, blob, DataHome)

\* Mutated form of ProbeOutcomes: any signature will do.
ProbeOutcomesAnyKey(blobs, address) ==
    IF ~config.token THEN {"skipped"}
    ELSE IF address = None \/ DataHome \notin DOMAIN blobs THEN {"failed"}
    ELSE IF CanSign(blobs[DataHome]) THEN {"passed", "failed"} ELSE {"failed"}

ProbeOutcomes(blobs, address) ==
    IF ~config.token THEN {"skipped"}
    ELSE IF address = None \/ DataHome \notin DOMAIN blobs THEN {"failed"}
    ELSE IF CanSign(blobs[DataHome]) /\ blobs[DataHome].key = address THEN {"passed", "failed"}
    ELSE {"failed"}

\* data_signing_self_test and spawn_sign_health_probe: a failure ends the start.
Boot ==
    /\ ~gw.up
    /\ LoadSucceeds
    /\ \E outcome \in ProbeOutcomes(LoadAllBlobs, env.address) \ {"failed"} :
          gw' = [up |-> TRUE, blobs |-> LoadAllBlobs, env |-> env,
                 health |-> [enabled |-> outcome = "passed" /\ config.interval,
                             ok |-> outcome = "passed"]]
    /\ UNCHANGED <<config, env>>

\* Mutated form of Recorded: the last success is left standing.
RecordedQuietly(health, outcome) == [health EXCEPT !.ok = @ \/ outcome = "passed"]

\* record_success, record_failure; a skipped probe keeps the last state.
Recorded(health, outcome) ==
    IF outcome = "skipped" THEN health ELSE [health EXCEPT !.ok = outcome = "passed"]

\* One tick of the periodic probe.
Probe ==
    /\ gw.up /\ gw.health.enabled
    /\ \E outcome \in ProbeOutcomes(gw.blobs, gw.env.address) :
          gw' = [gw EXCEPT !.health = Recorded(@, outcome)]
    /\ UNCHANGED <<config, env>>

\* The process ends.
GatewayStops ==
    /\ gw.up
    /\ gw' = Down
    /\ UNCHANGED <<config, env>>

(***************************************************************************)
(* The operator copies what the parent printed into the environment file.   *)
(***************************************************************************)
PrintedDataKeys == {a.key : a \in {x \in announced : x.home = DataHome}}

SetAddress(key) ==
    /\ key \in PrintedDataKeys \ {env.address}
    /\ env' = [env EXCEPT !.address = key]
    /\ UNCHANGED <<config, gw>>

SetPubkey(key) ==
    /\ key \in PrintedDataKeys \ {env.pubkey}
    /\ env' = [env EXCEPT !.pubkey = key]
    /\ UNCHANGED <<config, gw>>

\* get_attestation: answered only by the build whose PCR0 was configured.
Attests == gw.up /\ image # None /\ image = config.pcr0

BootNext ==
    \/ Boot \/ Probe \/ GatewayStops
    \/ \E a \in announced : SetAddress(a.key) \/ SetPubkey(a.key)

=============================================================================
