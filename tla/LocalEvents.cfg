SPECIFICATION FairSpec
CONSTANTS
    ca = ca
    cb = cb
    ex = ex
    ey = ey
    Client = {ca, cb}
    Remote = {ra, rb}
    Event = {ex, ey}
    ANY_EVENT = any
    Value = {1, 2}
    Scenarios <- MCScenarios
INVARIANTS
    SubscriptionsAgree
    ValuesCurrent
    RemoteCurrent
PROPERTIES
    Answered
CHECK_DEADLOCK FALSE
