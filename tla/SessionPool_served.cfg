SPECIFICATION FairSpec
CONSTANTS
    Calls = {c1, c2, c3}
    Sessions = {s1, s2}
    PoolSize = 2
    RetryAttempts = 1
    Ops = {"sign"}
    MaxFailovers = 1
    NoSession = NoSession
PROPERTIES
    HealthyFailuresAreLogins
    CallsSettle
