SPECIFICATION Spec
CONSTANTS
    c1 = c1
    c2 = c2
    t1 = t1
    t2 = t2
    Calls = {k1}
    Tokens = {t1, t2}
    Customers = {c1, c2}
    Content <- TwoTenants
    Acceptable = {1, 2}
    MaxVersion = 2
    MaxNonce = 2
    MaxBoots = 0
    Requests = {q1, q2}
    Keys = {s1}
    NoKey = NoKey
    MaxArrivals = 2
SYMMETRY TaskSymmetry
INVARIANT HeartbeatIsOneRegistry
CHECK_DEADLOCK FALSE
