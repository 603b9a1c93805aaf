SPECIFICATION Spec
CONSTANTS
    alice = alice
    bob = bob
    Keys = {alice, bob}
    BufferIndices = {0}
    VaultIndices = {0, 1}
    Bytes = {0, 1}
    Hashes = {0, 1, 2, 3, 4, 5, 6, 7}
    Chunks <- MCChunks
    Declarations <- MCDeclarations
    WellFormed <- MCWellFormed
    EmptyMessage = "empty"
    ArgMessages = {"empty", "other"}
    hash <- MCHash
    MAX_BUFFER_SIZE = 3
    MaxBuffers = 3
INVARIANTS
    TypeOK
    CreatedAsDeclared
    UsedOnce
CHECK_DEADLOCK FALSE
