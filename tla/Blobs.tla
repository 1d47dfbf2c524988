------------------------------- MODULE Blobs --------------------------------
(***************************************************************************)
(* Sealed keys: what a blob is made of, what KMS and AES-GCM bind it to,    *)
(* and what has to agree for the gateway to take the file and for the       *)
(* enclave to open and load it (envelope.rs, kms_client.rs, the load path   *)
(* of handler.rs, aws.rs).                                                  *)
(*                                                                          *)
(* A blob has the key it holds, its form (an envelope around a data key, a  *)
(* flat KMS ciphertext, or torn by a failed write), the encryption context  *)
(* KMS was given (ctx), the identity bound as associated data (aad, None    *)
(* when nothing was bound), the policy beside the key and a size.           *)
(* An image is a build of the enclave: [strict, authority, allowed], the    *)
(* last one saying whether the KMS key policy lists its PCR0.               *)
(***************************************************************************)
EXTENDS SigningRules

CONSTANTS
    Credentials,   \* "provisioning", "production" or "garbled"
    SafeIds,    \* is_safe_id: 1-64 letters, digits, '-' or '_'
    CleanIds    \* ids that survive kmstool's key=value arguments

ASSUME BlobsAssumption ==
    SafeIds \subseteq CleanIds /\ Credentials \subseteq {"provisioning", "production", "garbled"}

\* for_data_signing: the fixed identity of the attested-data key.
DataHome == <<"attested-data", "data-signing">>

(***************************************************************************)
(* Sizes.  The enclave bounds the base64 text it is sent by 8 KiB, the      *)
(* gateway the file by 8 KiB: a file of 6 to 8 KiB passes the gateway only. *)
(***************************************************************************)
Sizes == {"empty", "small", "medium", "large"}

\* load_blob_from_path
FitsGateway(b) == b.size \in {"small", "medium"}

\* MAX_CIPHERTEXT_BYTES in load_secret_for
FitsEnclave(b) == b.size = "small"

(***************************************************************************)
(* kmstool.  Credentials are those of the ephemeral provisioning role, the  *)
(* decrypt-only production role, or carry a line break.                     *)
(***************************************************************************)
\* build_stdin_secrets: a value that would end its own line is refused.
Deliverable(creds) == creds # "garbled"

\* validate_context_pair
CleanContext(home) == home[1] \in CleanIds /\ home[2] \in CleanIds

\* wrap_dek_with_context: what the call may answer.  Production credentials
\* have no kms:Encrypt; a child that cannot be run or parsed is a failure.
WrapOutcomes(creds, home) ==
    IF ~CleanContext(home) \/ ~Deliverable(creds)
    THEN {"failed"}
    ELSE {"failed", IF creds = "provisioning" THEN "wrapped" ELSE "denied"}

\* seal_with_dek over a DEK wrapped under the same identity.
Sealed(key, home, policy, size) ==
    [key |-> key, form |-> "envelope", ctx |-> home, aad |-> home, policy |-> policy, size |-> size]

\* kms_client::decrypt: KMS opens only what was wrapped under this context,
\* and only for a build its key policy lists.
Unwraps(image, b, home) == image.allowed /\ CleanContext(home) /\ b.ctx = home

\* is_envelope, parse_envelope, decrypt_with_dek: the whole identity is
\* always bound as associated data.
Decrypts(b, home) == b.form = "envelope" => b.aad = home

Opens(image, b, home) ==
    /\ FitsEnclave(b)
    /\ b.form # "torn"
    /\ Unwraps(image, b, home)
    /\ Decrypts(b, home)

\* enforce_policy_inner: a label that is too long, or a field the enclave does
\* not implement, makes every request of the key fail.
Enforceable(p) == p.flaws \cap {"label", "rate"} = {}

\* The policy's own signature (signer_pubkey, policy_signature): both fields or
\* neither, and one that verifies.  This is what load_and_parse_blob asks where
\* the floor does not apply, of an enclave that has pinned no key yet: a pin
\* refuses more, until a restart empties the store (Signing).
TofuSound(p) == p.signed \in {"no", "valid"}

\* load_and_parse_blob and the checks every request of this key must pass:
\* the floor or else the policy's own signature, an intent key only beside caps
\* and never on a Hyperliquid venue.
Loads(image, b, home) ==
    LET v == home[2]  p == b.policy  strict == Strict(image.strict, v) IN
    /\ Opens(image, b, home)
    /\ IF p = None THEN ~strict
       ELSE /\ IF strict /\ v \in MoneyVenues
               THEN AuthoritySigned(image, p, home[1], v) /\ BindingCap(p, v)
               ELSE TofuSound(p)
            /\ p.intent # None => p.order_caps # None /\ v \notin HlVenues
            /\ Enforceable(p)

=============================================================================
