SPECIFICATION FairSpec
CONSTANTS
    Service <- MCService
    Client = {1, 2}
    MaxEndpoint = 4
    MaxSocket = 6
    MaxNet = 2
    repetitions_max = 1
    Scenarios <- MCScenarios
INVARIANTS
    TablesAgree
    SubscriptionsAgree
PROPERTIES
    SubscriptionsServed
    Reported
CHECK_DEADLOCK FALSE
