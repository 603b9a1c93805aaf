SPECIFICATION LiveSpec
CONSTANTS
    A = A
    B = B
    t1 = t1
    t2 = t2
    RATE_LIMIT_DURATION = 1
    TRIMMED_DECIMALS = 8
    U64_MAX = 1000
    Chains = {A, B}
    Locking = {A}
    Decimals <- MCDecimals
    Transceivers = {t1, t2}
    BITS = 2
    Registered <- MCRegistered
    Threshold = 2
    Limit <- MCLimit
    Supply <- MCSupply
    Amounts <- MCAmounts
    Queueing = {TRUE}
    Administered = {B}
    Registrable = {t1}
    Deregistrable = {t1}
    NewThresholds = {}
    Pauses = {TRUE, FALSE}
    PeerAddresses = {}
    EmitterAddresses = {}
    PeerDecimals <- MCPeerDecimals
    NewLimits <- MCNewLimits
    Phantoms = {}
    Faulty = {}
    MaxTransfers = 1
    LastTransfer = 2
    MaxTime = 3
INVARIANTS
    Backed
PROPERTIES
    ImplementsTransfers
    Delivery
CHECK_DEADLOCK FALSE
