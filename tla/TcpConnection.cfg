SPECIFICATION FairSpec
CONSTANTS
    MaxMessages = 3
    Chunks = 2
INVARIANTS
    TypeOK
    NoWriteAfterDestruction
    AllSentBeforeDestruction
PROPERTIES
    SendsAndDestructionEnd
CHECK_DEADLOCK FALSE
