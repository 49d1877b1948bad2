SPECIFICATION Spec
CONSTANTS
    HttpRequests = {h1}
    GrpcRequests = {g1}
    Slow = {}
    MaxSignals = 1
INVARIANT
    CleanShutdownAnswersAll
CHECK_DEADLOCK FALSE
