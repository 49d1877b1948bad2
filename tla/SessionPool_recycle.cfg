SPECIFICATION Spec
CONSTANTS
    Calls = {c1, c2}
    Sessions = {s1, s2}
    PoolSize = 1
    RetryAttempts = 1
    Ops = {"sign"}
    MaxFailovers = 1
    NoSession = NoSession
PROPERTY
    LostSessionsReplaced
