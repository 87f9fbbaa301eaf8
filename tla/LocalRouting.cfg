CONSTANTS
    Clients = {2, 3}
    HostClient = 1
    Versions = {1, 2}
    Scenarios <- MCScenarios
    MaxQueue = 1
    AllowedMissingPongs = 0
SPECIFICATION FairSpec
INVARIANTS
    HostTablesAgree
    RoutingAgreement
    OffersFollow
PROPERTIES
    Rejoins
    WatchdogForgets
CHECK_DEADLOCK FALSE
