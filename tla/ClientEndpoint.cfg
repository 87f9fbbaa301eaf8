SPECIFICATION FairSpec
CONSTANTS
    Protocols = {"tcp", "udp", "local"}
    Sizes = {1, 3}
    CookieSize = 1
    HeaderSize = 1
    max_message_size_ = 3
    queue_limit_ = 3
    MaxMessages = 2
    MaxFaults = 2
INVARIANTS
    QueueInOrder
PROPERTIES
    ImplementsChannel
    AcceptedIsSent
CHECK_DEADLOCK FALSE
