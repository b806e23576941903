SPECIFICATION Spec
CONSTANTS
    MaxHandle = 2
    NoClient = NoClient
    Clients = {ann, bob}
    MaxRelays = 1
INVARIANTS
    RelayReachesAll
CHECK_DEADLOCK FALSE
