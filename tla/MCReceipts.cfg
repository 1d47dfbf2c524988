SPECIFICATION Spec
CONSTANTS
    c1 = c1
    c2 = c2
    t1 = t1
    t2 = t2
    Calls = {k1, k2}
    Tokens = {t1, t2}
    Customers = {c1, c2}
    Content <- TwoTenants
    Acceptable = {1, 2}
    MaxVersion = 3
    MaxNonce = 3
    MaxBoots = 1
    Requests = {q1, q2}
    Keys = {s1, s2}
    NoKey = NoKey
    MaxArrivals = 3
SYMMETRY TaskSymmetry
CONSTRAINT Balanced
INVARIANTS NoReplay GapFree HeartbeatCounts
PROPERTIES NoDowngrade NonceIsNotBurnt
CHECK_DEADLOCK FALSE
