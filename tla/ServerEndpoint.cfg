SPECIFICATION FairSpec
CONSTANTS
    Protocols = {"tcp", "udp", "local"}
    Targets = {t1, t2}
    Clients = {t1}
    Observed = t1
    t1 = t1
    t2 = t2
    Sizes = {1, 3}
    CookieSize = 1
    HeaderSize = 1
    max_message_size_ = 3
    queue_limit_ = 3
    MaxMessages = 3
    MaxRequests = 1
    MaxConnections = 2
    MaxFaults = 1
INVARIANTS
    TablesExact
    OneWritePerQueue
PROPERTIES
    ImplementsChannel
    
CHECK_DEADLOCK FALSE
