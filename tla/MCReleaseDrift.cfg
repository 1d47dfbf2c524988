SPECIFICATION Spec
CONSTANTS
    None = None
    HlMaxEntries = 1
    Unlimited = 1
    Credentials = {"provisioning", "production", "garbled"}
    SafeIds <- MCSafe
    CleanIds <- MCSafe
    Drafts <- MCDrafts
    ClientHomes <- MCClientHomes
    MaxSigned = 1
    Commands = {"w1", "w2"}
    Outputs <- MCOutputs
    Places <- MCPlaces
    AgentHomes <- MCAgentHomes
    MaxKeys = 2
    Images <- MCImages
    Exchanges = {"hyperliquid_main", "hyperliquid_testnet", "kucoin"}
    Default = "default"
    Configs <- MCConfigs
    Owners = {o1, o2}
    Pcr0s = {m1, m2}
    Nobody = Nobody
    MaxRecords = 3
CONSTRAINT Stories
INVARIANT PublishedPubkeyIsServed
CHECK_DEADLOCK FALSE
