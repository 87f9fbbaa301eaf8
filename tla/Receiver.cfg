SPECIFICATION Spec
CONSTANTS
    Streams <- MCStreams
    Garbage = {8, 12, 70}
    recv_buffer_size_initial_ = 40
    buffer_shrink_threshold_ = 1
    max_message_size_ = 50
    Unlimited = 90
INVARIANTS
    ArrivedIsDelivered
    BufferInOrder
    CookiesResync
CHECK_DEADLOCK FALSE
