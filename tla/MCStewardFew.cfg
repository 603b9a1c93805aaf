SPECIFICATION Spec
CONSTANTS
    a = a
    b = b
    c = c
    Votes = {a, b, c}
    Initial <- MCInitial
    Candidates = {c}
    Failing = {a, c}
    Delinquent = {b}
    Targets = {a}
    Score <- MCScore
    num_delegation_validators = 2
    num_epochs_between_scoring = 2
    MAX_VALIDATORS = 3
    MaxEpoch = 3
INVARIANT FewAreAllSelected
CHECK_DEADLOCK FALSE
