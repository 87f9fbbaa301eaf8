SPECIFICATION FairSpec
CONSTANTS
    r1 = r1
    c0 = c0
    Endpoint = {e1, e2}
    Remote = {r1}
    Client = {c0}
    remote_of <- RemotesShared
    clients_of <- OneClient
    MaxId = 2
    CrossingSd = FALSE
    MaxPending = 2
    MaxSubscribes = 3
    MaxOffers = 1
INVARIANTS
    Inv
    SubscriptionsAgree
PROPERTIES
    SubscriptionAnswered
