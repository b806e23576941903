SPECIFICATION Spec
CONSTANTS
    NumEntries = 2
    HoursPerDay = 3
    MinutesPerHour = 2
    UTCOffsets <- MCUTCOffsets
    PollsPerMinute = 2
    LastMinute = 13
INVARIANTS
    TypeOK
    FiresOncePerDay
CHECK_DEADLOCK FALSE
