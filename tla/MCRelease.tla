----------------------------- MODULE MCRelease ------------------------------
(***************************************************************************)
(* Instance of Release for TLC: a strict build, a lax one and one the KMS   *)
(* key policy does not list; a sound policy, one whose label no enclave     *)
(* accepts, one too large, one the tool would not write back, and two with  *)
(* signatures of their own, a whole one and a half one; agent keys for the  *)
(* venue whose floor no build relaxes and for the one where a lax build     *)
(* does; a data key's file, a flat file of each venue, the legacy path and  *)
(* a directory that would shadow the flat files.                            *)
(***************************************************************************)
EXTENDS Release

MCSafe ==
    {"attested-data", "data-signing", "default", "hyperliquid_main", "hyperliquid_testnet", "kucoin"}

Policy(flaws, exact, size) ==
    [authority |-> None, signer |-> None, signed |-> "no", hl_order_caps |-> [btc |-> 1],
     order_caps |-> None, intent |-> None, flaws |-> flaws, exact |-> exact, size |-> size]

\* A policy with a key of its own.
Tofu(signed) == [Policy({}, TRUE, "small") EXCEPT !.signer = "owner", !.signed = signed]

MCDrafts ==
    {Policy({}, TRUE, "small"), Policy({"label"}, TRUE, "small"),
     Policy({}, TRUE, "medium"), Policy({}, FALSE, "small"), Tofu("valid"), Tofu("half")}

AgentHome == <<"default", "hyperliquid_main">>
TestnetHome == <<"default", "hyperliquid_testnet">>
MCAgentHomes == {AgentHome, TestnetHome}
MCClientHomes == {AgentHome, TestnetHome}

DataFile == [dir |-> "customer", customer |-> "attested-data", stem |-> "data-signing"]
AgentFile == [dir |-> "flat", customer |-> "default", stem |-> "hyperliquid_main"]
TestnetFile == [dir |-> "flat", customer |-> "default", stem |-> "hyperliquid_testnet"]
LegacyFile == [dir |-> "path", customer |-> "default", stem |-> "kucoin"]
\* a customer's directory with the id of the flat files
ShadowFile == [dir |-> "customer", customer |-> "default", stem |-> "hyperliquid_main"]
MCPlaces == {DataFile, AgentFile, TestnetFile, LegacyFile, ShadowFile}
MCOutputs ==
    [h \in MCAgentHomes \union {DataHome} |->
        IF h = DataHome THEN {DataFile} ELSE IF h = AgentHome THEN {AgentFile} ELSE {TestnetFile}]

Build(strict, allowed) == [strict |-> strict, authority |-> TRUE, allowed |-> allowed]
MCImages == {Build(TRUE, TRUE), Build(FALSE, TRUE), Build(TRUE, FALSE)}

Config(token, path, interval, garbled) ==
    [token |-> token, path |-> path, interval |-> interval, pcr0 |-> Build(TRUE, TRUE),
     garbled |-> garbled]
MCConfigs ==
    {Config(TRUE, FALSE, TRUE, {}), Config(TRUE, FALSE, FALSE, {}),
     Config(FALSE, TRUE, TRUE, {DataFile, TestnetFile})}

\* One story at a time: keys of one venue are minted side by side; keys of any
\* venue and with any policy are minted one after the other; a gateway runs on
\* data keys while these are replaced; a client's blob is wrapped, installed
\* and served; owners register measurements.
Quiet == gw = Down /\ env = [address |-> None, pubkey |-> None]
OffChain == records = [o \in Owners |-> <<>>]
NoKeys == asked = 0
Busy == {w \in Commands : command[w] # NoCommand}
Mainnet == \A p \in shelf : p.authority # None => p.authority = AgentHome /\ p.signed = "no"
SideBySide ==
    /\ Mainnet
    /\ \A w \in Busy : LET r == command[w].request IN
          r.kind = "data" \/ (r.home = AgentHome /\ r.policy.signed = "no")
InTurn == \A w \in Busy : w = "w1" /\ command[w].request.creds = "provisioning"
DataOnly ==
    /\ disk[AgentFile] = None /\ disk[TestnetFile] = None /\ shelf = Drafts
    /\ \A w \in Busy :
          command[w].request.kind = "data" /\ command[w].request.creds = "provisioning"

Stories ==
    \/ OffChain /\ bench = NoWork /\ Quiet /\ (SideBySide \/ InTurn)
    \/ OffChain /\ bench = NoWork /\ DataOnly
    \/ OffChain /\ NoKeys /\ Mainnet
    \/ Quiet /\ NoKeys /\ bench = NoWork /\ shelf = Drafts
=============================================================================
