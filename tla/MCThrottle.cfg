SPECIFICATION Spec
CONSTANTS
    r1 = r1
    r2 = r2
    k1 = k1
    k2 = k2
    k3 = k3
    k4 = k4
    Tokens = {"t1", "t2"}
    NoCap = NoCap
    Configs <- MCConfigs
    MinuteLen = 2
    MaxSecs = 3
    Keys = {k1, k2, k3, k4}
    Capacity = 1
    Rate = 1
    MaxTracked = 2
    MaxNow = 1
    Workers = {r1, r2}
    MaxAsks = 6
SYMMETRY Symmetry
CONSTRAINT InDepth
INVARIANTS DenialsAreEarned WindowBound GrantsAreBounded NothingLeaks GhostsLastTheirTime
CHECK_DEADLOCK FALSE
