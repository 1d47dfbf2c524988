SPECIFICATION FairSpec
CONSTANTS
    c1 = c1
    c2 = c2
    v1 = v1
    v2 = v2
    o1 = o1
    o2 = o2
    Customers = {c1, c2}
    Pressers = {p1}
    Jobs = {j1, j2}
    Venues = {v1, v2}
    Supported = {v1}
    Orders = {}
    Owner <- AllOwnedByC1
    VenueOf <- OneBook
    Tokens = {c1}
    MaxRounds = 1
    MaxPresses = 2
    MaxCrashes = 1
    MaxPanics = 1
CONSTRAINT InDepth
INVARIANTS OneJobPerTenant DurableMeansOnDisk
PROPERTIES OnlyOperatorReleases ImplementsStore UnwindEnds UnwindMissedOnlyByClaim
CHECK_DEADLOCK FALSE
