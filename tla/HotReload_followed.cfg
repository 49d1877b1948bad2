SPECIFICATION FairSpec
CONSTANTS
    MaxVersion = 2
    MaxStarts = 1
    ChannelCapacity = 2
    Backends = {"software", "hsm_cluster"}
    Partial = {}
    Torn = Torn
    Missing = Missing
    Default = Default
    Down = Down
PROPERTIES
    LiveFollowsFile
CHECK_DEADLOCK FALSE
