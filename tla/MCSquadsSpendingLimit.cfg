SPECIFICATION Spec
CONSTANTS
    a = a
    b = b
    d = d
    e = e
    Keys = {a, b}
    Destinations = {d, e}
    LimitArgs <- MCLimitArgs
    VaultFunds = 5
    MaxTime = 6
INVARIANTS
    SpentPerPeriod
    LifetimeBound
CHECK_DEADLOCK FALSE
