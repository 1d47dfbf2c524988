------------------------------ MODULE Release -------------------------------
(***************************************************************************)
(* From a policy file to a serving gateway: the policy tool, the key        *)
(* factory, the gateway's start and the on-chain register, all worked by    *)
(* operators by hand, in any order and with anything failing in between.    *)
(***************************************************************************)
EXTENDS GatewayBoot, Pcr0Registry

vars == <<toolVars, factoryVars, bootVars, registerVars>>

Init == ToolInit /\ FactoryInit /\ BootInit /\ RegisterInit

Tool == ToolNext /\ UNCHANGED <<factoryVars, bootVars, registerVars>>

Factory == FactoryNext /\ UNCHANGED <<toolVars, bootVars, registerVars>>

Install == \E p \in Places : Place(p) /\ UNCHANGED <<bootVars, registerVars>>

Gateway == BootNext /\ UNCHANGED <<toolVars, factoryVars, registerVars>>

OnChain == RegisterNext /\ UNCHANGED <<toolVars, factoryVars, bootVars>>

Next == Tool \/ Factory \/ Install \/ Gateway \/ OnChain

Spec == Init /\ [][Next]_vars

\* The periodic probe runs for as long as its task does: run_data_signing_probe
\* ends after three attempts, and the ticker fires again.
FairSpec == Spec /\ WF_vars(Probe /\ UNCHANGED <<toolVars, factoryVars, registerVars>>)

-----------------------------------------------------------------------------
(* Properties.                                                              *)

(* A key that was minted, written and announced can be loaded: a data key   *)
(* by every build the KMS key policy lists, an agent key by every such      *)
(* build with the flag and the authority of the one that minted it, whoever *)
(* signed or flawed its policy meanwhile (handle_provision_agent_key        *)
(* mirrors the load path, cmd_policy_sign what the enclave enforces).  Left *)
(* out is what the code leaves out: a blob over the enclave's size cap and, *)
(* where the floor does not apply, an unenforceable policy or one whose own *)
(* signature is half there or wrong.  Minting looks at none of these.       *)
SameRules(i, j) == i.strict = j.strict /\ i.authority = j.authority

SealedKeysLoad ==
    \A a \in announced, i \in Images :
        LET b == disk[a.file] IN
        /\ i.allowed
        /\ a.home = DataHome \/ SameRules(i, a.image)
        /\ FitsEnclave(b)
        /\ Strict(i.strict, a.home[2]) \/ (Enforceable(b.policy) /\ TofuSound(b.policy))
        => Loads(i, b, a.home)

(* A printed address has its key in the named file, however many commands   *)
(* run at a time, fail or are killed (write_new_private_file, then print):  *)
(* nobody funds or publishes an address whose key was overwritten or lost.  *)
AnnouncedIsSealed ==
    \A a \in announced :
        disk[a.file] # None /\ disk[a.file].key = a.key /\ disk[a.file].form = "envelope"

(* While a gateway serves signed data, the key it signs with is the one     *)
(* whose address /attestation publishes, although key files and the         *)
(* environment are replaced under it (data_signing_self_test).              *)
ServesPublishedKey ==
    gw.up /\ config.token =>
        DataHome \in DOMAIN gw.blobs /\ gw.blobs[DataHome].key = gw.env.address

(* The same of the compressed key that /attestation publishes beside the    *)
(* address, as the comment on data_signing_self_test says of `data_pubkey`. *)
PublishedPubkeyIsServed ==
    Attests /\ config.token /\ gw.env.pubkey # None => gw.blobs[DataHome].key = gw.env.pubkey

(* A signing outage does not stay hidden behind an enclave that answers or  *)
(* a gateway that runs: as long as it lasts, /healthz comes to say so       *)
(* (spawn_sign_health_probe).                                               *)
Broken == image = None \/ ~image.allowed

OutageIsReported ==
    (gw.up /\ gw.health.enabled /\ Broken) ~> (~Broken \/ ~gw.up \/ ~gw.health.ok)

=============================================================================
