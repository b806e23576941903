SPECIFICATION FairSpec
CONSTANTS
    Nothing = Nothing
    Thrown = Thrown
    NotAnArray = NotAnArray
    NoToken = NoToken
    Unread = Unread
    Files <- MCFiles
    Lifetimes = {1, 2}
    Redirects = {r1, r2}
    MaxTime = 4
INVARIANTS
    TypeOK
    AllOrNothing
    AuthenticatedMeansToken
PROPERTIES
    StartAndCommandsEnd
CHECK_DEADLOCK FALSE
