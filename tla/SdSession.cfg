CONSTANTS
    MaxSession = 3
    MaxIncarnation = 3
    MaxInFlight = 2
SPECIFICATION FairSpec
INVARIANTS
    NoFalseReboot
    RebootDetected
PROPERTIES
    StaleForgotten
