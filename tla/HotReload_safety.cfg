SPECIFICATION FairSpec
CONSTANTS
    MaxVersion = 4
    MaxStarts = 3
    ChannelCapacity = 2
    Backends = {"software", "hsm_cluster"}
    Partial = {2}
    Torn = Torn
    Missing = Missing
    Default = Default
    Down = Down
INVARIANTS
    TypeOK
    KeysNotBehindAuth
    AuthNotBehindKeys
    UpdateOnItsWay
PROPERTIES
    ImplementsLiveConfig
    LiveFollowsWatchedFile
CHECK_DEADLOCK FALSE
