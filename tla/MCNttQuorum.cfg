SPECIFICATION Spec
CONSTANTS
    A = A
    B = B
    X = X
    t1 = t1
    t2 = t2
    t3 = t3
    RATE_LIMIT_DURATION = 2
    TRIMMED_DECIMALS = 8
    U64_MAX = 1000
    Chains = {A, B}
    Locking = {A}
    Decimals <- MCDecimals
    Transceivers = {t1, t2, t3}
    BITS = 3
    Registered <- MCRegistered
    Threshold = 2
    Limit <- MCLimit
    Supply <- MCSupply
    Amounts <- MCAmounts
    Queueing = {FALSE}
    Administered = {B}
    Registrable = {t1, t2, t3}
    Deregistrable = {t1, t2}
    NewThresholds = {1, 2, 3}
    Pauses = {TRUE, FALSE}
    PeerAddresses = {A, X}
    EmitterAddresses = {A}
    PeerDecimals <- MCPeerDecimals
    NewLimits <- MCNewLimits
    Phantoms <- MCPhantoms
    Faulty = {t2}
    MaxTransfers = 1
    LastTransfer = 1
    MaxTime = 1
INVARIANTS
    TypeOK
    ThresholdReachable
    VotesAttested
PROPERTIES
    ApprovedByThreshold
    ReleaseForward
CHECK_DEADLOCK FALSE
