SPECIFICATION Spec
CONSTANTS
    None = None
    A = A
    B = B
    k1 = k1
    k2 = k2
    agent = agent
    c1 = c1
    c2 = c2
    Conns = {c1, c2}
    Offers <- Widely
    Images <- Builds
    HlMaxEntries = 2
    Unlimited = 7
    MaxDeks = 1
    MaxPins = 1
    MaxNonces = 1
    MaxRequests = 3
    MaxBoots = 1
INVARIANTS TypeOK FloorHolds WithinCaps SecretsStayHome OrdersAreIntended IntentOnce PinHolds
CHECK_DEADLOCK FALSE
