SPECIFICATION FairSpec
CONSTANTS
    Requests = {"q1", "q2", "q3"}
    KindsOf <- MCKindsOf
    Customers = {"c1"}
    Tokens = {"t1", "t2"}
    ApiTokens <- MCApi
    OperatorTokens <- MCOperators
    SignCap = 2
    OperatorCap = 1
    EnclaveCap = 1
    MaxArrivals = 1
    MaxReleases = 1
    Scopes <- MCScopes
    MaxCircuits = 1
    MaxDoublings = 2
    Legs = {"legBinance", "legOkx"}
CONSTRAINT Stories
INVARIANTS StopIsFinal OrdersAreCounted BackoffIsEarned
PROPERTIES HedgeKeepsPromise EveryRequestAnswered StopGoesThrough
CHECK_DEADLOCK FALSE
