--------------------------- MODULE ClientEndpoint ---------------------------
(***************************************************************************)
(* A client endpoint: the sending side of a connection to one remote, for  *)
(* the three protocols the template client_endpoint_impl is instantiated   *)
(* with.  Application threads call send, stop and restart; the handlers of *)
(* asynchronous operations run on the io threads, in any order.            *)
(*                                                                         *)
(* Boost.Asio and the kernel are modelled from how the code uses them:     *)
(* closing a socket completes what is pending on it with operation_aborted *)
(* but cannot take back a handler that is already queued.                  *)
(***************************************************************************)
EXTENDS Buffers

CONSTANTS
    Protocols,         \* the instantiations: "tcp", "udp", "local"
    HeaderSize,        \* room kept for a header when a cookie is inserted
    max_message_size_,
    queue_limit_,
    MaxMessages,       \* bound: messages send() accepts
    MaxFaults          \* bound: failed connects, lost connections, failed
                       \* writes, and calls of restart() and stop()

ASSUME ConstantsAssumption ==
    /\ Protocols \subseteq {"tcp", "udp", "local"}
    /\ max_message_size_ \in Nat \ {0}
    /\ {HeaderSize, queue_limit_, MaxMessages, MaxFaults} \subseteq Nat

VARIABLES
    proto,              \* which instantiation this endpoint is
    state_,             \* cei_state_e
    sending_blocked_,
    packetizer_,        \* the buffer being filled: a sequence of messages
    queue_,             \* buffers; the front one is being written
    queue_size_,
    was_not_connected_,
    flush_timer_,       \* a flush is scheduled
    connect_timer_,     \* a reconnect is scheduled
    reconnects,         \* the timer expired: wait_connect_cbk is queued
    socket_,            \* the socket and the operations under way on it
    announcing,         \* the host will call set_connected(true) in a moment
    stopping,           \* local_client_endpoint_impl::stop waits for the queue
    \* history
    accepted,           \* messages send() returned true for
    wire,               \* messages the network took, in order
    given_up,           \* handlers that left the queue with nobody to write it
    faults, restarts    \* bounded by MaxFaults

buffers == <<packetizer_, queue_, queue_size_>>
history == <<accepted, wire, restarts>>
vars == <<proto, state_, sending_blocked_, buffers, was_not_connected_,
          flush_timer_, connect_timer_, reconnects, socket_, announcing,
          stopping, history, given_up, faults>>

\* What became of a write, and of a connect or a receive.
Results == {"pending", "ok", "broken_pipe", "bad_descriptor", "aborted", "other"}
Outcomes == {"pending", "ok", "failed", "aborted"}
Write == [buffer : Buffer, res : Results]

Socket == [conn : {"closed", "open", "connecting", "up"}, writes : Seq(Write),
           connects : Seq(Outcomes), reads : Seq(Outcomes)]

-----------------------------------------------------------------------------
(* Sockets, as Boost.Asio and the kernel present them.  s.conn is "closed", *)
(* "open" (not connected), "connecting" or "up".                            *)

Settle(r, to) == IF r = "pending" THEN to ELSE r
SettleAll(rs, to) == [i \in DOMAIN rs |-> Settle(rs[i], to)]
SettleWrites(ws, to) ==
    [i \in DOMAIN ws |-> [ws[i] EXCEPT !.res = Settle(@, to)]]

HandlersQueued ==
    \/ \E i \in DOMAIN socket_.writes : socket_.writes[i].res # "pending"
    \/ \E i \in DOMAIN socket_.connects : socket_.connects[i] # "pending"
    \/ \E i \in DOMAIN socket_.reads : socket_.reads[i] # "pending"

shutdown_and_close_socket(s) ==
    [s EXCEPT !.conn = "closed",
              !.writes = SettleWrites(@, "aborted"),
              !.connects = SettleAll(@, "aborted"),
              !.reads = SettleAll(@, "aborted")]

async_write(s, b, unconnected) ==
    LET res == CASE s.conn \in {"up", "connecting"} -> "pending"
                 [] s.conn = "open" -> unconnected
                 [] s.conn = "closed" -> "bad_descriptor"
    IN  [s EXCEPT !.writes = Append(@, [buffer |-> b, res |-> res])]

async_receive(s, unconnected) ==
    IF s.conn = "closed" THEN s
    ELSE [s EXCEPT !.reads = Append(@, IF s.conn = "open" THEN unconnected
                                                          ELSE "pending")]

\* The new socket and whether a connect failed on the spot.  A second connect
\* on a TCP socket that is connecting fails (already_started); on a connected
\* socket it reports already_connected, which connect_cbk takes for success.
Attempt(s, conn, res) ==
    [s EXCEPT !.conn = conn, !.connects = Append(@, res)]
async_connect(s) ==
    IF s.conn = "up" THEN {<<Attempt(s, "up", "ok"), 0>>}
    ELSE IF s.conn = "connecting" THEN {<<Attempt(s, s.conn, "failed"), 0>>}
    ELSE {<<Attempt(s, "connecting", "pending"), 0>>}
connect_at_once(s) ==
    IF s.conn = "up" THEN {<<Attempt(s, "up", "ok"), 0>>}
    ELSE {<<Attempt(s, "up", "ok"), 0>>, <<Attempt(s, "open", "failed"), 1>>}

-----------------------------------------------------------------------------
(* What the protocols implement *)

connecting(rs) ==
    \E r \in rs :
        /\ faults + restarts + r[2] <= MaxFaults
        /\ faults' = faults + r[2]
        /\ socket_' = r[1]
        /\ state_' = "CONNECTING"
        /\ UNCHANGED given_up

\* connect() on socket s in state st.  When a stream socket cannot be opened
\* it returns without scheduling another attempt.
cannot_open(s, st) ==
    /\ s.conn = "closed"
    /\ faults + restarts < MaxFaults
    /\ faults' = faults + 1
    /\ socket_' = s
    /\ state_' = st
    /\ given_up' = given_up \cup {"connect"}
connect_tcp(s, st) == connecting(async_connect(s)) \/ cannot_open(s, st)
connect_udp(s) == connecting(connect_at_once(s))
connect_local(s, st) == connecting(connect_at_once(s)) \/ cannot_open(s, st)
connect(s, st) ==
    \/ proto = "tcp" /\ connect_tcp(s, st)
    \/ proto = "udp" /\ connect_udp(s)
    \/ proto = "local" /\ connect_local(s, st)

receive_tcp(s) == async_receive(s, "failed")
receive_udp(s) == async_receive(s, "pending")
receive_local(s) == async_receive(s, "failed")
receive(s) == CASE proto = "tcp" -> receive_tcp(s)
                [] proto = "udp" -> receive_udp(s)
                [] proto = "local" -> receive_local(s)

\* A buffer with a magic cookie, if there is room for it.
send_magic_cookie(b) ==
    IF max_message_size_ - BufferSize(b) >= HeaderSize + CookieSize
    THEN <<Cookie>> \o b ELSE b

\* send_queued() with queue q of size n on socket s.  A TCP endpoint inserts a
\* cookie when cookies are enabled and ten seconds have passed.
send_queued_tcp(s, q, n) ==
    \E b \in {Head(q), send_magic_cookie(Head(q))} :
        /\ queue_' = [q EXCEPT ![1] = b]
        /\ queue_size_' = n + BufferSize(b) - BufferSize(Head(q))
        /\ socket_' = async_write(s, b, "broken_pipe")
send_queued_udp(s, q, n) ==
    queue_' = q /\ queue_size_' = n /\ socket_' = async_write(s, Head(q), "other")
send_queued_local(s, q, n) ==
    queue_' = q /\ queue_size_' = n /\ socket_' = async_write(s, Head(q), "broken_pipe")
send_queued(s, q, n) ==
    \/ q = <<>> /\ queue_' = q /\ queue_size_' = n /\ socket_' = s
    \/ /\ q # <<>>
       /\ \/ proto = "tcp" /\ send_queued_tcp(s, q, n)
          \/ proto = "udp" /\ send_queued_udp(s, q, n)
          \/ proto = "local" /\ send_queued_local(s, q, n)

\* Mutant: every buffer is written at once.
enqueue_sending_always(b) ==
    send_queued(socket_, Append(queue_, b), queue_size_ + BufferSize(b))

\* A buffer joins the queue; only the first one has to be written.
enqueue(b) ==
    LET q == Append(queue_, b)
        n == queue_size_ + BufferSize(b)
    IN  IF queue_ = <<>> THEN send_queued(socket_, q, n)
        ELSE queue_' = q /\ queue_size_' = n /\ UNCHANGED socket_

-----------------------------------------------------------------------------
(* client_endpoint_impl *)

\* The constructor, and start() by the host that created the endpoint.
Init ==
    /\ proto \in Protocols
    /\ state_ = "CONNECTING"
    /\ sending_blocked_ = FALSE
    /\ packetizer_ = <<>> /\ queue_ = <<>> /\ queue_size_ = 0
    /\ was_not_connected_ = FALSE
    /\ flush_timer_ = FALSE /\ connect_timer_ = FALSE /\ reconnects = FALSE
    /\ LET s == [conn |-> "closed", writes |-> <<>>, connects |-> <<>>,
                 reads |-> <<>>]
       IN  \E r \in IF proto = "tcp" THEN async_connect(s) ELSE connect_at_once(s) :
               socket_ = r[1] /\ faults = r[2] /\ r[2] <= MaxFaults
    /\ announcing = FALSE /\ stopping = FALSE
    /\ accepted = 0 /\ wire = <<>> /\ given_up = {} /\ restarts = 0

exceeds_limit(_queued, _size) == _queued + _size > queue_limit_

\* Once the packetizer moved to an empty queue nothing starts the write if the
\* queue limit then refuses the message.
send(_size, _flush) ==
    LET m == [id |-> accepted + 1, size |-> _size]
        spill == packetizer_ # <<>> /\ BufferSize(packetizer_) + _size > max_message_size_
        q == IF spill THEN Append(queue_, packetizer_) ELSE queue_
        n == IF spill THEN queue_size_ + BufferSize(packetizer_) ELSE queue_size_
        p == IF spill THEN <<>> ELSE packetizer_
        b == Append(p, m)
        flushed == IF _flush THEN Append(q, b) ELSE q
        total == IF _flush THEN n + BufferSize(b) ELSE n
    IN  /\ ~sending_blocked_
        /\ _size <= max_message_size_
        /\ accepted < MaxMessages
        /\ \/ /\ exceeds_limit(n, _size)
              /\ packetizer_' = p /\ queue_' = q /\ queue_size_' = n
              /\ given_up' = IF queue_ = <<>> /\ q # <<>>
                             THEN given_up \cup {"send"} ELSE given_up
              /\ UNCHANGED <<flush_timer_, socket_, accepted>>
           \/ /\ ~exceeds_limit(n, _size)
              /\ packetizer_' = IF _flush THEN <<>> ELSE b
              /\ IF queue_ = <<>> THEN send_queued(socket_, flushed, total)
                 ELSE queue_' = flushed /\ queue_size_' = total /\ UNCHANGED socket_
              /\ flush_timer_' = ~_flush
              /\ accepted' = accepted + 1
              /\ UNCHANGED given_up
        /\ UNCHANGED <<proto, state_, sending_blocked_, was_not_connected_,
                       connect_timer_, reconnects, announcing, stopping, wire,
                       restarts, faults>>

\* flush_cbk of the flush timer; sending_blocked_ is not looked at.
flush ==
    /\ flush_timer_
    /\ flush_timer_' = FALSE
    /\ IF packetizer_ = <<>>
       THEN UNCHANGED <<buffers, socket_>>
       ELSE packetizer_' = <<>> /\ enqueue(packetizer_)
    /\ UNCHANGED <<proto, state_, sending_blocked_, was_not_connected_,
                   connect_timer_, reconnects, announcing, stopping, history,
                   given_up, faults>>

\* Mutant: what waited for the connection is not written when it is there.
must_resend_never == FALSE

must_resend == queue_ # <<>> /\ was_not_connected_

\* connect_cbk for the i-th connect that completed.  on_connect of the host
\* calls set_connected(true) at once, or from a timer when it has services to
\* report on this endpoint.
connect_cbk(i) ==
    LET res == socket_.connects[i]
        s == [socket_ EXCEPT !.connects = RemoveAt(@, i)]
        r == receive(s)
    IN  /\ res # "pending"
        /\ CASE res = "aborted" ->
                   /\ socket_' = shutdown_and_close_socket(s)
                   /\ given_up' = given_up \cup {"aborted"}
                   /\ UNCHANGED <<state_, connect_timer_, announcing, queue_,
                                  queue_size_, was_not_connected_>>
             [] res = "failed" ->
                   /\ socket_' = shutdown_and_close_socket(s)
                   /\ connect_timer_' = TRUE
                   /\ state_' = IF state_ # "ESTABLISHED" THEN "CLOSED" ELSE state_
                   /\ UNCHANGED <<announcing, queue_, queue_size_,
                                  was_not_connected_, given_up>>
             [] res = "ok" ->
                   /\ connect_timer_' = FALSE
                   /\ IF state_ = "ESTABLISHED"
                      THEN UNCHANGED <<state_, announcing>>
                      ELSE \/ state_' = "ESTABLISHED" /\ UNCHANGED announcing
                           \/ announcing' = TRUE /\ proto # "local" /\ UNCHANGED state_
                   /\ was_not_connected_' = (was_not_connected_ /\ ~must_resend)
                   /\ IF must_resend THEN send_queued(r, queue_, queue_size_)
                      ELSE socket_' = r /\ UNCHANGED <<queue_, queue_size_>>
                   /\ UNCHANGED given_up
        /\ UNCHANGED <<proto, sending_blocked_, packetizer_, flush_timer_, reconnects,
                       stopping, history, faults>>

\* call_sd_endpoint_connected of the host, three milliseconds after on_connect.
set_connected ==
    /\ announcing
    /\ announcing' = FALSE
    /\ state_' = "ESTABLISHED"
    /\ UNCHANGED <<proto, sending_blocked_, buffers, was_not_connected_,
                   flush_timer_, connect_timer_, reconnects, socket_, stopping,
                   history, given_up, faults>>

\* The timer expires; its handler is queued and cancel() no longer stops it.
\* That other handlers wait as long as the timer is a fault of its own.
connect_timer_expires ==
    /\ connect_timer_ /\ ~reconnects
    /\ connect_timer_' = FALSE /\ reconnects' = TRUE
    /\ IF HandlersQueued
       THEN faults + restarts < MaxFaults /\ faults' = faults + 1
       ELSE UNCHANGED faults
    /\ UNCHANGED <<proto, state_, sending_blocked_, buffers, was_not_connected_,
                   flush_timer_, socket_, announcing, stopping, history, given_up>>

wait_connect_cbk ==
    /\ reconnects
    /\ reconnects' = FALSE
    /\ connect(socket_, state_)
    /\ UNCHANGED <<proto, sending_blocked_, buffers, was_not_connected_,
                   flush_timer_, connect_timer_, announcing, stopping, history>>

\* send_cbk for the i-th write that completed.
send_cbk(i) ==
    LET w == socket_.writes[i]
        s == [socket_ EXCEPT !.writes = RemoveAt(@, i)]
        clears == w.res = "broken_pipe" /\ sending_blocked_
    IN  /\ w.res # "pending"
        /\ CASE w.res = "ok" ->
                   /\ IF queue_ = <<>>
                      THEN UNCHANGED <<queue_, queue_size_>> /\ socket_' = s
                      ELSE send_queued(s, Tail(queue_),
                                       queue_size_ - BufferSize(Head(queue_)))
                   /\ UNCHANGED <<state_, was_not_connected_, given_up, faults>>
             [] w.res \in {"broken_pipe", "bad_descriptor"} ->
                   /\ queue_' = IF clears THEN <<>> ELSE queue_
                   /\ queue_size_' = IF clears THEN 0 ELSE queue_size_
                   /\ was_not_connected_' = TRUE
                   /\ connect(shutdown_and_close_socket(s), "CLOSED")
             [] w.res = "aborted" ->
                   /\ socket_' = shutdown_and_close_socket(s)
                   /\ given_up' = given_up \cup {"aborted"}
                   /\ UNCHANGED <<queue_, queue_size_, state_, was_not_connected_, faults>>
             [] w.res = "other" ->
                   /\ socket_' = s
                   /\ given_up' = given_up \cup {"other"}
                   /\ UNCHANGED <<queue_, queue_size_, state_, was_not_connected_, faults>>
        /\ UNCHANGED <<proto, sending_blocked_, packetizer_, flush_timer_,
                       connect_timer_, reconnects, announcing, stopping, history>>

\* receive_cbk of the i-th receive, after the connection was lost; one that
\* brings data leaves this state alone.  TCP closes the socket and waits for
\* the next write to reconnect, UDP closes it too, a local endpoint leaves it
\* to the error handler of its host.
receive_cbk_tcp(s) ==
    socket_' = shutdown_and_close_socket(s) /\ state_' = "CLOSED"
receive_cbk_udp(s) ==
    socket_' = shutdown_and_close_socket(s) /\ UNCHANGED state_
receive_cbk_local(s) ==
    socket_' = s /\ UNCHANGED state_
receive_cbk(i) ==
    LET res == socket_.reads[i]
        s == [socket_ EXCEPT !.reads = RemoveAt(@, i)]
    IN  /\ res # "pending"
        /\ \/ res = "aborted" /\ socket_' = s /\ UNCHANGED state_
           \/ res # "aborted" /\ proto = "tcp" /\ receive_cbk_tcp(s)
           \/ res # "aborted" /\ proto = "udp" /\ receive_cbk_udp(s)
           \/ res # "aborted" /\ proto = "local" /\ receive_cbk_local(s)
        /\ UNCHANGED <<proto, sending_blocked_, buffers, was_not_connected_,
                       flush_timer_, connect_timer_, reconnects, announcing,
                       stopping, history, given_up, faults>>

-----------------------------------------------------------------------------
(* Calls of the host *)

restarting ==
    /\ faults + restarts < MaxFaults /\ ~stopping
    /\ state_ # "CONNECTING"
    /\ restarts' = restarts + 1
    /\ state_' = "CONNECTING"
    /\ socket_' = shutdown_and_close_socket(socket_)
    /\ connect_timer_' = TRUE
    /\ UNCHANGED <<proto, packetizer_, was_not_connected_, flush_timer_,
                   reconnects, announcing, stopping, accepted, wire, given_up, faults>>

\* restart(); the UDP endpoint leaves queue_size_ as it is, and only the local
\* one unblocks sending.
restart_tcp ==
    /\ proto = "tcp" /\ restarting
    /\ queue_' = <<>> /\ queue_size_' = 0 /\ UNCHANGED sending_blocked_
restart_udp ==
    /\ proto = "udp" /\ restarting
    /\ queue_' = <<>> /\ UNCHANGED <<queue_size_, sending_blocked_>>

\* Mutant: the size of the queue is kept.
restart_local_keeping_size ==
    /\ proto = "local" /\ restarting
    /\ queue_' = <<>> /\ sending_blocked_' = FALSE /\ UNCHANGED queue_size_

restart_local ==
    /\ proto = "local" /\ restarting
    /\ queue_' = <<>> /\ queue_size_' = 0 /\ sending_blocked_' = FALSE

stopped ==
    /\ faults + restarts < MaxFaults /\ ~sending_blocked_
    /\ restarts' = restarts + 1
    /\ sending_blocked_' = TRUE
    /\ connect_timer_' = FALSE
    /\ UNCHANGED <<proto, state_, packetizer_, was_not_connected_, flush_timer_,
                   reconnects, announcing, accepted, wire, given_up, faults>>

\* stop() of a TCP or UDP endpoint.
stop ==
    /\ proto # "local" /\ stopped
    /\ queue_' = <<>> /\ queue_size_' = 0
    /\ socket_' = shutdown_and_close_socket(socket_)
    /\ UNCHANGED stopping

\* A local endpoint waits until its queue is empty, its socket is closed or
\* half a second has passed.
stop_local ==
    /\ proto = "local" /\ stopped
    /\ stopping' = TRUE
    /\ UNCHANGED <<queue_, queue_size_, socket_>>
stop_local_waited ==
    /\ stopping
    /\ stopping' = FALSE
    /\ socket_' = shutdown_and_close_socket(socket_)
    /\ UNCHANGED <<proto, state_, sending_blocked_, buffers, was_not_connected_,
                   flush_timer_, connect_timer_, reconnects, announcing, history,
                   given_up, faults>>

-----------------------------------------------------------------------------
(* The network *)

NetworkStep == UNCHANGED <<proto, state_, sending_blocked_, buffers,
    was_not_connected_, flush_timer_, connect_timer_, reconnects, announcing,
    stopping, accepted, restarts, given_up>>

\* A TCP connect completes; if it is refused, so are the writes behind it.
ConnectCompletes(ok) ==
    /\ socket_.conn = "connecting"
    /\ ok \/ faults + restarts < MaxFaults
    /\ faults' = IF ok THEN faults ELSE faults + 1
    /\ socket_' = [socket_ EXCEPT
           !.conn = IF ok THEN "up" ELSE "open",
           !.connects = SettleAll(@, IF ok THEN "ok" ELSE "failed"),
           !.writes = IF ok THEN @ ELSE SettleWrites(@, "broken_pipe")]
    /\ UNCHANGED wire /\ NetworkStep

\* The oldest pending write is taken by the network.
WriteCompletes ==
    /\ socket_.conn = "up"
    /\ \E i \in DOMAIN socket_.writes :
          /\ socket_.writes[i].res = "pending"
          /\ \A j \in 1 .. i - 1 : socket_.writes[j].res # "pending"
          /\ socket_' = [socket_ EXCEPT !.writes[i].res = "ok"]
          /\ wire' = Append(wire, Ids(socket_.writes[i].buffer))
    /\ UNCHANGED faults /\ NetworkStep

\* The remote goes away.  Writes on a stream socket fail; a TCP write may also
\* stay pending for a while.  A UDP socket just reports the refusal.
ConnectionLost(res) ==
    /\ res = "pending" => proto = "tcp"
    /\ socket_.conn = "up" /\ faults + restarts < MaxFaults
    /\ faults' = faults + 1
    /\ socket_' = [socket_ EXCEPT
           !.conn = IF proto = "udp" THEN "up" ELSE "open",
           !.reads = SettleAll(@, "failed"),
           !.writes = SettleWrites(@, res)]
    /\ UNCHANGED wire /\ NetworkStep

Handlers ==
    \/ \E i \in DOMAIN socket_.connects : connect_cbk(i)
    \/ \E i \in DOMAIN socket_.writes : send_cbk(i)
    \/ \E i \in DOMAIN socket_.reads : receive_cbk(i)
    \/ flush \/ set_connected \/ connect_timer_expires \/ wait_connect_cbk
    \/ stop_local_waited
Host ==
    \/ \E n \in Sizes, f \in BOOLEAN : send(n, f)
    \/ restart_tcp \/ restart_udp \/ restart_local
    \/ stop \/ stop_local
Network ==
    \/ \E ok \in BOOLEAN : ConnectCompletes(ok)
    \/ WriteCompletes
    \/ \E res \in {"broken_pipe", "other", "pending"} : ConnectionLost(res)

Next == Handlers \/ Host \/ Network
Spec == Init /\ [][Next]_vars

\* The io threads run what is queued; a reachable remote answers.
Fairness ==
    /\ WF_vars(Handlers)
    /\ WF_vars(ConnectCompletes(TRUE)) /\ WF_vars(WriteCompletes)
FairSpec == Spec /\ Fairness

-----------------------------------------------------------------------------
(* Properties *)

TypeOK ==
    /\ proto \in Protocols
    /\ state_ \in {"CLOSED", "CONNECTING", "ESTABLISHED"}
    /\ {sending_blocked_, was_not_connected_, flush_timer_, connect_timer_,
        reconnects, announcing, stopping} \subseteq BOOLEAN
    /\ packetizer_ \in Seq(Message)
    /\ queue_ \in Seq(Buffer)
    /\ queue_size_ \in Nat
    /\ socket_ \in Socket
    /\ accepted \in 0 .. MaxMessages
    /\ wire \in Seq(Seq(Nat \ {0}))
    /\ given_up \subseteq {"send", "connect", "aborted", "other"}
    /\ faults \in 0 .. MaxFaults /\ restarts \in 0 .. MaxFaults

\* queue_size_, which send() compares with the limit, is the size of what is
\* queued.  restart() of a UDP endpoint empties the queue without resetting it.
QueueSizeIsSum ==
    /\ queue_size_ >= QueuedSize(queue_)
    /\ proto # "udp" \/ restarts = 0 => queue_size_ = QueuedSize(queue_)

\* The limit is checked without the packetizer, so the messages queued exceed
\* it by less than one packet; cookies come on top.
Payload(b) ==
    TotalOf([i \in DOMAIN b |-> IF b[i] = Cookie THEN 0 ELSE b[i].size])
QueuedPayload(q) == TotalOf([i \in DOMAIN q |-> Payload(q[i])])
QueueBounded == QueuedPayload(queue_) < queue_limit_ + max_message_size_

\* Nobody will write the front of the queue: send() leaves that to the write
\* in progress, and there is none, nor a connect that would start it.
Stalled ==
    /\ queue_ # <<>> /\ socket_.writes = <<>>
    /\ ~ /\ was_not_connected_
         /\ socket_.connects # <<>> \/ connect_timer_ \/ reconnects

\* A queue stalls only after a handler gave up: an operation that was aborted,
\* an error send_cbk does not know, a socket that could not be opened, or a
\* message refused just after the packetizer moved to the empty queue; or when
\* stop() of a local endpoint cancelled the timer of the next connect.
StallIsGivenUp == Stalled => given_up # {} \/ (proto = "local" /\ sending_blocked_)

\* The queue is counted as it is, bounded, and served, whatever is restarted,
\* stopped or completes late (send, send_cbk, connect_cbk, restart).
QueueInOrder == TypeOK /\ QueueSizeIsSum /\ QueueBounded /\ StallIsGivenUp

\* Until a handler gives up, or the host restarts or stops the endpoint,
\* every message send() accepted reaches the network.
AcceptedIsSent ==
    \A n \in 1 .. MaxMessages :
        accepted >= n ~>
            \/ \E i \in DOMAIN wire : n \in {wire[i][j] : j \in DOMAIN wire[i]}
            \/ given_up # {} \/ restarts > 0

\* The endpoint is a channel that keeps order and does not repeat messages.
KeepsOrder == INSTANCE Channel WITH restarted <- restarts > 0
ImplementsChannel == KeepsOrder!Spec
=============================================================================
