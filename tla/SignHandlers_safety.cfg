SPECIFICATION Spec
CONSTANTS
    MaxVersion = 2
    Rules <- MCRules
    Registry <- MCRegistry
    Requests <- MCRequests
    None = None
    Default = Default
    Down = Down
    A = A
    B = B
    TokenA = TokenA
    TokenB = TokenB
    K1 = K1
    K2 = K2
    Proxy = Proxy
    Ip1 = Ip1
    Ip2 = Ip2
INVARIANTS
    TypeOK
    QuietRequestsFollowRules
    SignaturesWereAllowed
    SignedAsAsked
