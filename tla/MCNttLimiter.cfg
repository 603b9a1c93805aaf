SPECIFICATION Spec
CONSTANTS
    RATE_LIMIT_DURATION = 3
    Amounts = {0, 1, 3}
    Limits = {0, 2, 5}
    MaxTime = 8
    MaxHistory = 20
CONSTRAINT Bounded
INVARIANTS
    WindowBound
    BucketSound
CHECK_DEADLOCK FALSE
