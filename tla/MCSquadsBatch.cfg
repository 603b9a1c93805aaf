SPECIFICATION LiveSpec
CONSTANTS
    NoKey = NoKey
    LimitKeys = {}
    MAX_TIME_LOCK = 1
    MultisigCreateArgs <- MCMultisigCreateArgs
    ConfigActionLists <- MCConfigActionLists
    NewMembers <- MCNewMembers
    NewThresholds = {}
    NewTimeLocks = {}
    MaxBatchSize = 2
    MaxTime = 2
    MaxDepth = 2
    a = a
    b = b
    Keys = {a, b}
    Kinds = {"Batch", "Config", "Vault"}
    MaxIndex = 2
INVARIANTS
    FreshVotesCount
    NoLostUpdate
    ExecutedOnceInOrder
PROPERTIES
    StaleIsFinal
    PayloadFrozen
    OnlyApprovedExecutes
    ImplementsLifecycle
    BatchesFinish
CHECK_DEADLOCK FALSE
