SPECIFICATION Spec
CONSTANTS
    NoKey = NoKey
    LimitKeys = {l}
    MAX_TIME_LOCK = 1
    MultisigCreateArgs <- MCMultisigCreateArgs
    ConfigActionLists <- MCConfigActionLists
    NewMembers <- MCNewMembers
    NewThresholds = {1, 3}
    NewTimeLocks = {0, 2}
    MaxBatchSize = 0
    MaxTime = 0
    MaxDepth = 1
    a = a
    b = b
    c = c
    Keys = {a, b, c}
    l = l
    Kinds = {"Vault", "Config"}
    MaxIndex = 1
INVARIANTS
    FreshVotesCount
    RejectionIsFinal
    NoLimbo
    MultisigSound
    CancelNeverStuck
PROPERTIES
    ConfigByConsent
CHECK_DEADLOCK FALSE
