SPECIFICATION ProgramFairSpec
CONSTANTS
    M = 2
    StopsTimer = {2}
    UsesLater = {2}
    Readers = {2}
    Answerers = {1}
    MaxWaiting = 1
INVARIANTS
    ProgramTypeOK
PROPERTIES
    SilentAfterStop
    CalledBackUntilStopped
CHECK_DEADLOCK FALSE
