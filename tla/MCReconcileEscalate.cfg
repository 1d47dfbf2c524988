SPECIFICATION FairSpec
CONSTANTS
    c1 = c1
    c2 = c2
    v1 = v1
    v2 = v2
    o1 = o1
    o2 = o2
    Customers = {c1}
    Pressers = {p1}
    Jobs = {j1}
    Venues = {v1}
    Supported = {v1}
    Orders = {o1}
    Owner <- AllOwnedByC1
    VenueOf <- OneBook
    Tokens = {c1}
    MaxRounds = 1
    MaxPresses = 2
    MaxCrashes = 0
    MaxPanics = 0
PROPERTY StopIsUnwound
CHECK_DEADLOCK FALSE
