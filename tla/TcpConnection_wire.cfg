SPECIFICATION Spec
CONSTANTS
    MaxMessages = 2
    Chunks = 2
INVARIANTS
    WholeMessagesInOrder
CHECK_DEADLOCK FALSE
