--------------------------- MODULE ServerEndpoint ---------------------------
(***************************************************************************)
(* A server endpoint: the sending side of server_endpoint_impl, with one   *)
(* queue per remote endpoint (target), as the TCP and the UDP endpoint     *)
(* use it, and the connections of the TCP and the local endpoint.  A TCP   *)
(* endpoint writes on the connection accepted from the target, a UDP       *)
(* endpoint on its only socket; a local endpoint only receives.  Handlers  *)
(* of asynchronous operations run on the io threads, in any order; a       *)
(* completion handler of a write holds an iterator to the queue it was     *)
(* started for.                                                            *)
(***************************************************************************)
EXTENDS Buffers, FiniteSets

CONSTANTS
    Protocols,         \* the instantiations: "tcp", "udp", "local"
    Targets,           \* remote endpoints
    Clients,           \* those that send requests
    Observed,          \* the one whose messages are compared with a channel
    HeaderSize,        \* room kept for a header when a cookie is inserted
    max_message_size_,
    queue_limit_,
    MaxMessages,       \* bound: messages queued, over all targets
    MaxRequests,       \* bound: requests received from one target
    MaxConnections,    \* bound: connections accepted
    MaxFaults          \* bound: lost connections, failed writes, stop()

ASSUME ConstantsAssumption ==
    /\ Protocols \subseteq {"tcp", "udp", "local"}
    /\ Observed \in Targets /\ Clients \subseteq Targets
    /\ MaxConnections \in Nat \ {0}
    /\ {HeaderSize, max_message_size_, queue_limit_, MaxMessages, MaxRequests,
        MaxFaults} \subseteq Nat

VARIABLES
    proto,             \* which instantiation this endpoint is
    sending_blocked_,
    packetizer_,       \* per target, the buffer being filled
    queues_,           \* per target, its queue (an absent one is empty)
    flush_timer_,      \* {} or {the target the one flush timer is bound to}
    clients_,          \* per client whether it is known and the sessions to
                       \* answer; a client is identified with its target
    default_targets_,  \* {} or {the target of messages to unknown clients}
    connections_,      \* per target, {} or {its connection}
    sockets,           \* the connections ever accepted: target and state
    accepting,         \* {} or {target}: an accept completed, accept_cbk is queued
    writes,            \* writes under way or completed, send_cbk not yet run
    \* history
    accepted, wire,    \* per target: messages queued, buffers the network took
    requests,          \* per target: requests received
    responses,         \* per target: the sessions answered
    repeated,          \* targets whose front buffer flush() wrote once more
    stuck,             \* targets whose queue send_intern left without a write
    dropped,           \* per target: how often its queue was erased
    undefined,         \* an iterator or a front of nothing was used
    faults

buffers == <<packetizer_, queues_>>
network == <<connections_, sockets, accepting>>
history == <<accepted, wire, requests, responses>>
ghosts == <<repeated, stuck, dropped, undefined>>
vars == <<proto, sending_blocked_, buffers, flush_timer_, clients_,
          default_targets_, network, writes, history, ghosts, faults>>

Socket == [target : Targets, state : {"open", "lost", "closed"}]
Write == [target : Targets, gen : Nat, conn : 0 .. MaxConnections, buffer : Buffer,
          res : {"pending", "ok", "failed", "error"}]
EmptyQueue == [size |-> 0, bufs |-> <<>>]

Total == Cardinality({p \in Targets \X (1 .. MaxMessages) : p[2] <= accepted[p[1]]})

-----------------------------------------------------------------------------
(* Writing: the front of queue q is written to target t; ws are the writes whose
   handlers are still to run. *)

\* The iterator a write holds is told apart from those to the queues of the
\* same target that were erased before by the number of these.
Started(ws, t, c, b, res) ==
    writes' = Append(ws, [target |-> t, gen |-> dropped[t], conn |-> c,
                          buffer |-> b, res |-> res])

Live(t) == {i \in DOMAIN writes : writes[i].target = t /\ writes[i].gen = dropped[t]}

send_magic_cookie(b) ==
    IF max_message_size_ - BufferSize(b) >= HeaderSize + CookieSize
    THEN <<Cookie>> \o b ELSE b

\* connection::send_queued: the front of the queue is written on connection c,
\* possibly with a cookie.
connection_send_queued(t, q, c, ws) ==
    \E b \in {Head(q.bufs), send_magic_cookie(Head(q.bufs))} :
        /\ queues_' = [queues_ EXCEPT ![t] =
               [size |-> q.size + BufferSize(b) - BufferSize(Head(q.bufs)),
                bufs |-> [q.bufs EXCEPT ![1] = b]]]
        /\ Started(ws, t, c, b, IF sockets[c].state = "open" THEN "pending"
                                                         ELSE "failed")
        /\ UNCHANGED dropped

\* Without a connection to the target what is queued for it is dropped.
send_queued_tcp(t, q, ws) ==
    IF connections_[t] = {}
    THEN /\ queues_' = [queues_ EXCEPT ![t] = EmptyQueue]
         /\ dropped' = [dropped EXCEPT ![t] = @ + 1]
         /\ writes' = ws
    ELSE \E c \in connections_[t] : connection_send_queued(t, q, c, ws)

send_queued_udp(t, q, ws) ==
    /\ queues_' = [queues_ EXCEPT ![t] = q]
    /\ Started(ws, t, 0, Head(q.bufs), IF sending_blocked_ THEN "error" ELSE "pending")
    /\ UNCHANGED dropped

send_queued(t, q, ws) ==
    \/ proto = "tcp" /\ send_queued_tcp(t, q, ws)
    \/ proto = "udp" /\ send_queued_udp(t, q, ws)

-----------------------------------------------------------------------------
(* Sending *)

exceeds_limit(_queued, _size) == _queued + _size > queue_limit_

\* Mutant: every buffer moved to the queue starts a write.
must_send_always(old, new) == new # old

\* Mutant: nothing starts the first write.
must_send_never(old, new) == FALSE

queued(q, b) == [size |-> q.size + BufferSize(b), bufs |-> Append(q.bufs, b)]

must_send(old, new) == old.bufs = <<>> /\ new.bufs # <<>>

\* send_intern.  When the limit refuses a message after the packetizer moved
\* to an empty queue nothing starts the write.
send_intern(t, _size, _flush) ==
    LET m == [id |-> accepted[t] + 1, size |-> _size]
        old == queues_[t]
        p == packetizer_[t]
        spill == p # <<>> /\ BufferSize(p) + _size > max_message_size_
        q == IF spill THEN queued(old, p) ELSE old
        b == Append(IF spill THEN <<>> ELSE p, m)
        r == IF _flush THEN queued(q, b) ELSE q
    IN  /\ Total < MaxMessages
        /\ _size <= max_message_size_
        /\ \/ /\ exceeds_limit(q.size, _size)
              /\ packetizer_' = [packetizer_ EXCEPT ![t] = IF spill THEN <<>> ELSE p]
              /\ queues_' = [queues_ EXCEPT ![t] = q]
              /\ stuck' = IF old.bufs = <<>> /\ q.bufs # <<>> THEN stuck \cup {t}
                                                              ELSE stuck
              /\ UNCHANGED <<flush_timer_, writes, accepted, dropped>>
           \/ /\ ~exceeds_limit(q.size, _size)
              /\ packetizer_' = [packetizer_ EXCEPT ![t] = IF _flush THEN <<>> ELSE b]
              /\ flush_timer_' = IF _flush THEN {} ELSE {t}
              /\ accepted' = [accepted EXCEPT ![t] = @ + 1]
              /\ IF must_send(old, r) THEN send_queued(t, r, writes)
                 ELSE queues_' = [queues_ EXCEPT ![t] = r] /\ UNCHANGED <<writes, dropped>>
              /\ UNCHANGED stuck

TakeSession(c, session) ==
    clients_' = [clients_ EXCEPT ![c].sessions = @ \ {session}]

\* send: a response goes to where its request came from, once; a message to a
\* client never heard of goes to the default target, which only UDP has.
send(c, session, _size, _flush) ==
    /\ ~undefined /\ ~sending_blocked_
    /\ \/ /\ clients_[c].known /\ session \in clients_[c].sessions
          /\ TakeSession(c, session)
          /\ responses' = [responses EXCEPT ![c] = @ \cup {session}]
          /\ send_intern(c, _size, _flush)
       \/ /\ ~clients_[c].known
          /\ \E t \in default_targets_ : send_intern(t, _size, _flush)
          /\ UNCHANGED <<clients_, responses>>
    /\ UNCHANGED <<proto, sending_blocked_, default_targets_, network, wire, requests,
                   repeated, undefined, faults>>

\* send_to: a notification; sending_blocked_ is not looked at.
send_to(t, _size, _flush) ==
    /\ ~undefined /\ proto # "local"
    /\ send_intern(t, _size, _flush)
    /\ UNCHANGED <<proto, sending_blocked_, clients_, default_targets_, network, wire,
                   requests, responses, repeated, undefined, faults>>

\* flush writes the front of the target's queue, even when it is being written,
\* and leaves the packetizer as it is.
flush(t) ==
    IF queues_[t].bufs # <<>>
    THEN /\ send_queued(t, queues_[t], writes)
         /\ repeated' = IF Live(t) # {} THEN repeated \cup {t} ELSE repeated
         /\ stuck' = stuck \ {t}
    ELSE UNCHANGED <<queues_, writes, dropped, repeated, stuck>>

flush_cbk ==
    /\ ~undefined
    /\ \E t \in flush_timer_ : flush(t)
    /\ flush_timer_' = {}
    /\ UNCHANGED <<proto, sending_blocked_, packetizer_, clients_, default_targets_,
                   network, history, undefined, faults>>

-----------------------------------------------------------------------------
(* Completion of writes *)

\* The network takes the buffer; writes on one socket are served in order.
WriteDone(i) ==
    LET w == writes[i]
    IN  /\ ~undefined
        /\ w.res = "pending"
        /\ \A j \in 1 .. i - 1 : writes[j].conn = w.conn => writes[j].res # "pending"
        /\ writes' = [writes EXCEPT ![i].res = "ok"]
        /\ wire' = [wire EXCEPT ![w.target] = Append(@, Ids(w.buffer))]
        /\ UNCHANGED <<proto, sending_blocked_, buffers, flush_timer_, clients_,
                       default_targets_, network, accepted, requests, responses, ghosts,
                       faults>>

\* A datagram cannot be sent.
WriteError(i) ==
    /\ ~undefined
    /\ proto = "udp" /\ faults < MaxFaults
    /\ writes[i].res = "pending"
    /\ writes' = [writes EXCEPT ![i].res = "error"]
    /\ faults' = faults + 1
    /\ UNCHANGED <<proto, sending_blocked_, buffers, flush_timer_, clients_,
                   default_targets_, network, history, ghosts>>

\* The writes under way on these connections once they are lost or closed.
Aborted(conns, res) ==
    [i \in DOMAIN writes |->
        IF writes[i].conn \in conns /\ writes[i].res = "pending"
        THEN [writes[i] EXCEPT !.res = res] ELSE writes[i]]

\* Mutant: the connection registered for the remote endpoint is removed.
remove_connection_of_target(c) ==
    connections_' = [connections_ EXCEPT ![sockets[c].target] = {}]

remove_connection(c) ==
    connections_' = [t \in Targets |-> connections_[t] \ {c}]

\* connection::stop
close(c) == sockets' = [sockets EXCEPT ![c].state = "closed"]

stop_and_remove_connection(c) == close(c) /\ remove_connection(c)

\* The condition of a failed TCP write ends the connection before send_cbk runs.
write_completion_condition(i) ==
    LET c == writes[i].conn
    IN  /\ ~undefined
        /\ writes[i].res = "failed"
        /\ stop_and_remove_connection(c)
        /\ writes' = [Aborted({c}, "failed") EXCEPT ![i].res = "error"]
        /\ UNCHANGED <<proto, sending_blocked_, buffers, flush_timer_, clients_,
                       default_targets_, accepting, history, ghosts, faults>>

\* Mutant: the buffer queued last is removed.
popped_back(q) ==
    LET b == q.bufs[Len(q.bufs)]
    IN  [size |-> q.size - BufferSize(b), bufs |-> SubSeq(q.bufs, 1, Len(q.bufs) - 1)]

popped(q) == [size |-> q.size - BufferSize(Head(q.bufs)), bufs |-> Tail(q.bufs)]

\* send_cbk: the written front is removed and the next one is written; after an
\* error the whole queue is erased.  What happens through an iterator to an
\* erased queue, or to the front of an empty one, is undefined.
send_cbk(i) ==
    LET w == writes[i]
        t == w.target
        q == queues_[t]
        valid == w.gen = dropped[t] /\ (w.res = "ok" => q.bufs # <<>>)
        left == RemoveAt(writes, i)
    IN  /\ ~undefined
        /\ w.res \in {"ok", "error"}
        /\ undefined' = ~valid
        /\ \/ /\ ~valid
              /\ writes' = left
              /\ UNCHANGED <<queues_, dropped>>
           \/ /\ valid /\ w.res = "error"
              /\ queues_' = [queues_ EXCEPT ![t] = EmptyQueue]
              /\ dropped' = [dropped EXCEPT ![t] = @ + 1]
              /\ writes' = left
           \/ /\ valid /\ w.res = "ok" /\ Len(q.bufs) = 1
              /\ queues_' = [queues_ EXCEPT ![t] = popped(q)]
              /\ writes' = left
              /\ UNCHANGED dropped
           \/ /\ valid /\ w.res = "ok" /\ Len(q.bufs) > 1
              /\ send_queued(t, popped(q), left)
        /\ UNCHANGED <<proto, sending_blocked_, packetizer_, flush_timer_, clients_,
                       default_targets_, network, history, repeated, stuck, faults>>

-----------------------------------------------------------------------------
(* Connections and requests *)

Open(t) == {c \in DOMAIN sockets : sockets[c] = [target |-> t, state |-> "open"]}

\* A connection is accepted.  Over TCP the earlier one from the same remote
\* endpoint, if any, is lost by then; the sockets of local clients are all
\* unnamed, that is, they are one remote endpoint.
AcceptCompletes(t) ==
    /\ ~undefined
    /\ ~sending_blocked_ /\ accepting = {}
    /\ \/ proto = "tcp" /\ Open(t) = {}
       \/ proto = "local" /\ t = Observed
    /\ Len(sockets) < MaxConnections
    /\ accepting' = {t}
    /\ UNCHANGED <<proto, sending_blocked_, buffers, flush_timer_, clients_,
                   default_targets_, connections_, sockets, writes, history, ghosts, faults>>

\* The connection takes the place of the remote endpoint's earlier one, also
\* when the endpoint was stopped meanwhile.
Registered(t) ==
    connections_' = [connections_ EXCEPT ![t] = {Len(sockets) + 1}]

Accepted(t) ==
    /\ ~undefined
    /\ t \in accepting
    /\ accepting' = {}
    /\ UNCHANGED <<proto, sending_blocked_, buffers, flush_timer_, clients_,
                   default_targets_, writes, history, ghosts, faults>>

accept_cbk_tcp(t) ==
    /\ proto = "tcp"
    /\ Accepted(t)
    /\ sockets' = Append(sockets, [target |-> t, state |-> "open"])
    /\ Registered(t)

\* A local client that may not connect is turned away.
accept_cbk_local(t) ==
    /\ proto = "local"
    /\ Accepted(t)
    /\ \/ /\ sockets' = Append(sockets, [target |-> t, state |-> "open"])
          /\ Registered(t)
       \/ UNCHANGED <<sockets, connections_>>

\* The remote side ends the connection.
ConnectionLost(c) ==
    /\ ~undefined
    /\ sockets[c].state = "open" /\ faults < MaxFaults
    /\ sockets' = [sockets EXCEPT ![c].state = "lost"]
    /\ writes' = Aborted({c}, "failed")
    /\ faults' = faults + 1
    /\ UNCHANGED <<proto, sending_blocked_, buffers, flush_timer_, clients_,
                   default_targets_, connections_, accepting, history, ghosts>>

\* receive_cbk of a connection that was lost.
receive_cbk_error(c) ==
    /\ ~undefined
    /\ sockets[c].state = "lost"
    /\ stop_and_remove_connection(c)
    /\ UNCHANGED <<proto, sending_blocked_, buffers, flush_timer_, clients_,
                   default_targets_, accepting, writes, history, ghosts, faults>>

\* A request is recorded, so that its response finds its way (receive_cbk).
RecordRequest(t) ==
    /\ ~undefined
    /\ t \in Clients /\ requests[t] < MaxRequests
    /\ requests' = [requests EXCEPT ![t] = @ + 1]
    /\ clients_' = [clients_ EXCEPT ![t] =
           [known |-> TRUE, sessions |-> @.sessions \cup {requests[t] + 1}]]
    /\ UNCHANGED <<proto, sending_blocked_, buffers, flush_timer_, default_targets_,
                   network, writes, accepted, wire, responses, ghosts, faults>>

receive_cbk_tcp(t) == proto = "tcp" /\ Open(t) # {} /\ RecordRequest(t)

receive_cbk_udp(t) == proto = "udp" /\ ~sending_blocked_ /\ RecordRequest(t)

add_default_target(t) ==
    /\ proto = "udp" /\ default_targets_ = {}
    /\ default_targets_' = {t}
    /\ UNCHANGED <<proto, sending_blocked_, buffers, flush_timer_, clients_, network,
                   writes, history, ghosts, faults>>

-----------------------------------------------------------------------------
(* Stopping *)

CanStop == ~undefined /\ ~sending_blocked_ /\ faults < MaxFaults

close_all ==
    LET conns == UNION {connections_[t] : t \in Targets}
    IN  /\ CanStop
        /\ sending_blocked_' = TRUE
        /\ sockets' = [c \in DOMAIN sockets |->
               IF c \in conns THEN [sockets[c] EXCEPT !.state = "closed"] ELSE sockets[c]]
        /\ connections_' = [t \in Targets |-> {}]
        /\ writes' = Aborted(conns, "failed")
        /\ faults' = faults + 1
        /\ UNCHANGED <<proto, buffers, flush_timer_, clients_, default_targets_,
                       accepting, history, ghosts>>

stop_tcp == proto = "tcp" /\ close_all

stop_local == proto = "local" /\ close_all

stop_udp ==
    /\ CanStop /\ proto = "udp"
    /\ sending_blocked_' = TRUE
    /\ writes' = Aborted({0}, "error")
    /\ faults' = faults + 1
    /\ UNCHANGED <<proto, buffers, flush_timer_, clients_, default_targets_, network,
                   history, ghosts>>

-----------------------------------------------------------------------------
Init ==
    /\ proto \in Protocols
    /\ sending_blocked_ = FALSE
    /\ packetizer_ = [t \in Targets |-> <<>>]
    /\ queues_ = [t \in Targets |-> EmptyQueue]
    /\ flush_timer_ = {}
    /\ clients_ = [t \in Targets |-> [known |-> FALSE, sessions |-> {}]]
    /\ default_targets_ = {}
    /\ connections_ = [t \in Targets |-> {}]
    /\ sockets = <<>> /\ accepting = {} /\ writes = <<>>
    /\ accepted = [t \in Targets |-> 0]
    /\ wire = [t \in Targets |-> <<>>]
    /\ requests = [t \in Targets |-> 0]
    /\ responses = [t \in Targets |-> {}]
    /\ repeated = {} /\ stuck = {}
    /\ dropped = [t \in Targets |-> 0]
    /\ undefined = FALSE
    /\ faults = 0

Next ==
    \/ \E t \in Targets, _size \in Sizes, _flush \in BOOLEAN :
          \/ send_to(t, _size, _flush)
          \/ t \in Clients /\ \E session \in 1 .. MaxRequests : send(t, session, _size, _flush)
    \/ flush_cbk
    \/ \E i \in DOMAIN writes :
          \/ WriteDone(i) \/ WriteError(i)
          \/ write_completion_condition(i) \/ send_cbk(i)
    \/ \E c \in DOMAIN sockets : ConnectionLost(c) \/ receive_cbk_error(c)
    \/ \E t \in Targets :
          \/ AcceptCompletes(t) \/ accept_cbk_tcp(t) \/ accept_cbk_local(t)
          \/ receive_cbk_tcp(t) \/ receive_cbk_udp(t) \/ add_default_target(t)
    \/ stop_tcp \/ stop_udp \/ stop_local

Spec == Init /\ [][Next]_vars

\* The io threads run every handler, the timer expires and the network takes
\* what is written.
Fairness ==
    /\ WF_vars(flush_cbk)
    /\ WF_vars(\E i \in DOMAIN writes : WriteDone(i))
    /\ WF_vars(\E i \in DOMAIN writes : write_completion_condition(i) \/ send_cbk(i))

FairSpec == Spec /\ Fairness

-----------------------------------------------------------------------------
(* Properties *)

AtMostOne(S) == S = {} \/ \E t \in Targets : S = {t}

TypeOK ==
    /\ proto \in Protocols
    /\ sending_blocked_ \in BOOLEAN /\ undefined \in BOOLEAN
    /\ packetizer_ \in [Targets -> Buffer]
    /\ queues_ \in [Targets -> [size : Nat, bufs : Seq(Buffer)]]
    /\ AtMostOne(flush_timer_)
    /\ clients_ \in [Targets -> [known : BOOLEAN, sessions : SUBSET (1 .. MaxRequests)]]
    /\ AtMostOne(default_targets_)
    /\ sockets \in Seq(Socket)
    /\ connections_ \in [Targets -> SUBSET (DOMAIN sockets)]
    /\ \A t \in Targets : \A c, d \in connections_[t] : c = d
    /\ AtMostOne(accepting)
    /\ writes \in Seq(Write)
    /\ {repeated, stuck} \subseteq SUBSET Targets
    /\ dropped \in [Targets -> Nat] /\ accepted \in [Targets -> Nat]
    /\ wire \in [Targets -> Seq(Seq(Nat \ {0}))]
    /\ requests \in [Targets -> 0 .. MaxRequests]
    /\ responses \in [Targets -> SUBSET (1 .. MaxRequests)]
    /\ faults \in 0 .. MaxFaults

\* A queue has exactly one write under way while it holds a buffer, that of its
\* front, whatever fails, is dropped or comes back later (send_intern starts it
\* for the first buffer, send_cbk for every other one): no two writes of one
\* queue, and no queue that waits for a write nobody started.  Two situations
\* are exempt: flush() wrote the front again, and the limit refused a message
\* after send_intern moved the packetizer to an empty queue.  Only the first can
\* make send_cbk use an iterator of a queue that is gone.
OneWritePerQueue ==
    /\ undefined => repeated # {}
    /\ \A t \in Targets \ repeated :
          IF queues_[t].bufs = <<>> \/ t \in stuck THEN Live(t) = {}
          ELSE \E i \in Live(t) : Live(t) = {i} /\ writes[i].buffer = Head(queues_[t].bufs)

\* The size that the limit is compared with is what the queue holds, cookies put
\* in front of a buffer included (send_intern, connection::send_queued, send_cbk).
QueueSizeIsSum ==
    \A t \in Targets : queues_[t].size = QueuedSize(queues_[t].bufs)

\* A TCP connection that is open is the one messages to its target are written
\* to: the handler of an earlier connection from the same remote endpoint, run
\* late, does not remove its successor (remove_connection).  Of the connections
\* of a local endpoint, which all have the same key, this is so for the last.
OpenIsRegistered ==
    \A c \in DOMAIN sockets :
        sockets[c].state = "open" /\ (proto = "local" => c = Len(sockets))
            => connections_[sockets[c].target] = {c}

\* Every request is answered at most once, only to the endpoint it came from, and
\* can be answered until it is (send takes the session out of clients_).
AnsweredAtMostOnce ==
    \A t \in Targets :
        /\ responses[t] \cap clients_[t].sessions = {}
        /\ responses[t] \cup clients_[t].sessions = 1 .. requests[t]

\* The endpoint's tables are exact whatever fails, is dropped or comes back late:
\* sizes of queues, connections of targets, sessions of requests.
TablesExact == TypeOK /\ QueueSizeIsSum /\ OpenIsRegistered /\ AnsweredAtMostOnce

\* What is written to one target are the messages queued for it, in the order in
\* which they were accepted and without repetition; some may be missing, and
\* only flush() may write a buffer twice.
Sender == INSTANCE Channel WITH
              accepted <- accepted[Observed], wire <- wire[Observed],
              restarted <- Observed \in repeated

ImplementsChannel == Sender!Spec

\* A message moved to the queue of a target is written, unless the endpoint fails
\* or is stopped, there is no connection, or one of the exempt cases of
\* OneWritePerQueue arises (send_intern, send_cbk).
QueuedIsSent ==
    \A t \in Targets :
        accepted[t] > 0 /\ packetizer_[t] = <<>>
            ~> \/ \E n \in DOMAIN wire[t] : \E k \in DOMAIN wire[t][n] : wire[t][n][k] = 1
               \/ dropped[t] > 0 \/ faults > 0 \/ t \in repeated \cup stuck \/ undefined
=============================================================================
