SPECIFICATION TeslaFairSpec
CONSTANTS
    RetryWakeUps = 2
    MaxRate = 3
INVARIANTS
    TeslaTypeOK
    WaitsForATimer
    OneThreadAtATime
PROPERTIES
    KeepsReading
CHECK_DEADLOCK FALSE
