SPECIFICATION FairSpec
CONSTANTS
    MaxHandle = 2
    NoClient = NoClient
    Clients = {ann, bob, eve}
    MaxRelays = 1
INVARIANTS
    TypeOK
    HandlesConsistent
PROPERTIES
    OnlyClosedErased
    WaitingIsServed
CHECK_DEADLOCK FALSE
