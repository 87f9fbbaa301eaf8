SPECIFICATION FairSpec
CONSTANTS
    Main = main
    Extra = {d1}
    NoThread = none
    Service = {s1}
    Type = {"MESSAGE"}
    MaxDispatchers = 2
    IoThreads = 2
    CanStop = TRUE
    Spurious = FALSE
    EarlyExpiry = FALSE
    MaxBlocking = 0
    MaxHandlers = 2
PROPERTIES
    ShutdownEnds
CHECK_DEADLOCK FALSE
