SPECIFICATION Spec
CONSTANTS
    Keys = {k1, k2}
    Requests = {r1, r2}
    Values = {1, 3}
    MaxValue = 3
    OrderCap = 2
    SpendCap = 4
    SumLimit = 5
    MaxDay = 2
    DryRun = FALSE
    MaxCrashes = 2
SYMMETRY RequestSymmetry
CONSTRAINT OnePayer
INVARIANTS CapHolds Covered
PROPERTY NeverRefilled
CHECK_DEADLOCK FALSE
