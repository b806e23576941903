SPECIFICATION FairSpec
CONSTANTS
    Requests = {r1, r2}
    Configured = {indoor}
    Unknown = Unknown
    Malformed = Malformed
    None = None
    PoolSize = 2
    MaxUpdates = 1
INVARIANTS
    TypeOK
    OneRightReply
    Fresh
    NoEntryForgotten
PROPERTIES
    RequestsEnd
CHECK_DEADLOCK FALSE
