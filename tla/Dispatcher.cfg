SPECIFICATION FairSpec
CONSTANTS
    Main = main
    Extra = {d1, d2}
    NoThread = none
    Service = {s1}
    Type = {"AVAILABILITY", "MESSAGE"}
    MaxDispatchers = 2
    IoThreads = 2
    CanStop = TRUE
    Spurious = TRUE
    EarlyExpiry = TRUE
    MaxBlocking = 0
    MaxHandlers = 3
INVARIANTS
    DispatchersAgree
    AvailabilityRespected
PROPERTIES
    TakenUnlessTwoWait
CHECK_DEADLOCK FALSE
