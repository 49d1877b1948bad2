SPECIFICATION Spec
CONSTANTS
    Calls = {c1, c2, c3}
    Sessions = {s1, s2, s3}
    PoolSize = 2
    RetryAttempts = 2
    Ops = {"sign", "public_key"}
    MaxFailovers = 2
    NoSession = NoSession
SYMMETRY Symmetry
INVARIANTS
    TypeOK
    PermitsConserved
    SessionsExclusive
    NoHandleLeaked
PROPERTIES
    HandedBackThroughPool
    SignsAtMostOnce
    GivesUpOnlyWhenExhausted
    ImplementsLease
