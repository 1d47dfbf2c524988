SPECIFICATION Spec
CONSTANTS
    c1 = c1
    c2 = c2
    v1 = v1
    v2 = v2
    o1 = o1
    o2 = o2
    Customers = {c1}
    Pressers = {p1, p2}
    Jobs = {j1, j2}
    Venues = {v1, v2}
    Supported = {v1, v2}
    Orders = {o1, o2}
    Owner <- AllOwnedByC1
    VenueOf <- TwoBooks
    Tokens = {c1}
    MaxRounds = 2
    MaxPresses = 2
    MaxCrashes = 1
    MaxPanics = 0
SYMMETRY TaskSymmetry
INVARIANTS DoneIsTruthful ReleaseStopsUnwind RunningHasJob
CHECK_DEADLOCK FALSE
