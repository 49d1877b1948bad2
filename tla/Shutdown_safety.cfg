SPECIFICATION Spec
CONSTANTS
    HttpRequests = {h1, h2}
    GrpcRequests = {g1}
    Slow = {h2}
    MaxSignals = 2
INVARIANTS
    TypeOK
    CutOffByTheOtherServer
PROPERTIES
    EndedServerEndsProcess
    DrainingEndsProcess
CHECK_DEADLOCK FALSE
