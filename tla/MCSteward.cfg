SPECIFICATION LiveSpec
CONSTANTS
    a = a
    b = b
    c = c
    Votes = {a, b, c}
    Initial <- MCInitial
    Candidates = {c}
    Failing = {a, c}
    Delinquent = {a}
    Targets = {a}
    Score <- MCScoreZero
    num_delegation_validators = 2
    num_epochs_between_scoring = 2
    MAX_VALIDATORS = 3
    MaxEpoch = 3
INVARIANTS
    Aligned
    DataFollows
    NoneSkipped
    RebalancedOnce
    SharesFit
    InCycle
PROPERTIES
    BestChosen
    LoopCompletes
CHECK_DEADLOCK FALSE
