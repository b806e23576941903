SPECIFICATION FairSpec
CONSTANTS
    manager = manager
    network = network
    printer = printer
    main = main
    Callers <- MCCallers
    Owner = main
    MaxCalls = 2
INVARIANTS
    TypeOK
    AllCalledBeforeDestroyed
PROPERTIES
    FifoSpec
    EverythingCalled
CHECK_DEADLOCK FALSE
