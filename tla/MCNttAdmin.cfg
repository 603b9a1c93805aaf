SPECIFICATION Spec
CONSTANTS
    Users = {alice, bob}
    Unusable = {typo}
    SharedMultisigs = {shared}
    OtherMultisigs = {other}
    upgrade_lock = upgrade_lock
    token_authority = token_authority
    None = None
    alice = alice
    bob = bob
    typo = typo
    shared = shared
    other = other
INVARIANTS
    HandoverLocked
    NeverLockedOut
PROPERTIES
    MintHandover
CHECK_DEADLOCK FALSE
