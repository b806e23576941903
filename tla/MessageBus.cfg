SPECIFICATION FairSpec
CONSTANTS
    N = 2
    light = light
    Ids <- MCIds
    Configured <- MCConfigured
    Remote = 1
    MaxSent = 2
    MaxTicks = 1
INVARIANTS
    TypeOK
    AgreedOrder
    SenderOrder
    NothingSkipped
    NothingLost
PROPERTIES
    MulticastSpec
    EverythingHandled
CHECK_DEADLOCK FALSE
