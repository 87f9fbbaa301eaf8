------------------------ MODULE ServerEndpointProofs ------------------------
(***************************************************************************)
(* Proofs about the server endpoint, for any targets, sizes, limits and    *)
(* numbers of messages, connections and failures.                          *)
(***************************************************************************)
EXTENDS ServerEndpoint, BuffersProofs

-----------------------------------------------------------------------------
(* What the lemmas speak of.  tlapm is faster when all definitions precede *)
(* all facts.                                                              *)

\* A queue whose size is that of its buffers.
Queue == {q \in [size : Nat, bufs : Seq(Buffer)] : q.size = QueuedSize(q.bufs)}

Result == {"pending", "ok", "failed", "error"}

\* vs are the writes ws with other results.
Settled(ws, vs) ==
    /\ vs \in Seq(Write) /\ Len(vs) = Len(ws)
    /\ \A i \in 1 .. Len(ws) :
          /\ vs[i].target = ws[i].target /\ vs[i].gen = ws[i].gen
          /\ vs[i].conn = ws[i].conn /\ vs[i].buffer = ws[i].buffer
          /\ vs[i].res = "pending" => ws[i].res = "pending"

\* The buffers and the writes of them.
TypeBuffers ==
    /\ packetizer_ \in [Targets -> Buffer]
    /\ queues_ \in [Targets -> Queue]
    /\ writes \in Seq(Write)
    /\ dropped \in [Targets -> Nat]
    /\ accepted \in [Targets -> Nat]
    /\ wire \in [Targets -> Seq(Seq(Nat \ {0}))]

\* The connections.
TypeNetwork ==
    /\ sockets \in Seq(Socket)
    /\ connections_ \in [Targets -> SUBSET (DOMAIN sockets)]
    /\ \A t \in Targets : connections_[t] = {} \/ \E c \in DOMAIN sockets : connections_[t] = {c}
    /\ AtMostOne(accepting)
    /\ Len(sockets) <= MaxConnections
    /\ accepting # {} => Len(sockets) < MaxConnections

\* The requests.
TypeRequests ==
    /\ clients_ \in [Targets -> [known : BOOLEAN, sessions : SUBSET (1 .. MaxRequests)]]
    /\ requests \in [Targets -> 0 .. MaxRequests]
    /\ responses \in [Targets -> SUBSET (1 .. MaxRequests)]

\* The rest.
TypeControl ==
    /\ proto \in Protocols
    /\ sending_blocked_ \in BOOLEAN /\ undefined \in BOOLEAN
    /\ AtMostOne(flush_timer_) /\ AtMostOne(default_targets_)
    /\ repeated \subseteq Targets /\ stuck \subseteq Targets
    /\ faults \in 0 .. MaxFaults

TypeInv == TypeBuffers /\ TypeNetwork /\ TypeRequests /\ TypeControl

\* What send_intern leaves of the packetizer and the queue of target t, with a
\* message of the given size: before the message is taken, and after.
SpillsOver(t, _size) ==
    packetizer_[t] # <<>> /\ BufferSize(packetizer_[t]) + _size > max_message_size_
Rest(t, _size) == IF SpillsOver(t, _size) THEN <<>> ELSE packetizer_[t]
Spilled(t, _size) ==
    IF SpillsOver(t, _size) THEN queued(queues_[t], packetizer_[t]) ELSE queues_[t]
Filled(t, _size) ==
    Append(Rest(t, _size), [id |-> accepted[t] + 1, size |-> _size])
Flushed(t, _size, _flush) ==
    IF _flush THEN queued(Spilled(t, _size), Filled(t, _size)) ELSE Spilled(t, _size)

\* The limit refuses the message, or the message is taken.
Refused(t, _size) ==
    /\ packetizer_' = [packetizer_ EXCEPT ![t] = Rest(t, _size)]
    /\ queues_' = [queues_ EXCEPT ![t] = Spilled(t, _size)]
    /\ stuck' = IF queues_[t].bufs = <<>> /\ Spilled(t, _size).bufs # <<>>
                THEN stuck \cup {t} ELSE stuck
    /\ UNCHANGED <<flush_timer_, writes, accepted, dropped>>
Taken(t, _size, _flush) ==
    /\ packetizer_' = [packetizer_ EXCEPT ![t] = IF _flush THEN <<>> ELSE Filled(t, _size)]
    /\ flush_timer_' = IF _flush THEN {} ELSE {t}
    /\ accepted' = [accepted EXCEPT ![t] = @ + 1]
    /\ UNCHANGED stuck
TakenAndSent(t, _size, _flush) ==
    /\ Taken(t, _size, _flush)
    /\ queues_[t].bufs = <<>> /\ Flushed(t, _size, _flush).bufs # <<>>
    /\ send_queued(t, Flushed(t, _size, _flush), writes)
TakenAndKept(t, _size, _flush) ==
    /\ Taken(t, _size, _flush)
    /\ ~(queues_[t].bufs = <<>> /\ Flushed(t, _size, _flush).bufs # <<>>)
    /\ queues_' = [queues_ EXCEPT ![t] = Flushed(t, _size, _flush)]
    /\ UNCHANGED <<writes, dropped>>

\* What keeps OpenIsRegistered: while an accept waits for its handler there is no
\* other open connection to the target.
ConnectionsInv ==
    /\ OpenIsRegistered
    /\ proto = "tcp" => \A t \in accepting : Open(t) = {}
    /\ \A t \in Targets : \A c \in connections_[t] : sockets[c].target = t

\* No step but accept_cbk opens a connection or registers one.
StaysOrCloses(c) ==
    /\ sockets[c] \in Socket /\ sockets'[c] \in Socket
    /\ sockets'[c].target = sockets[c].target
    /\ sockets'[c].state = "open" =>
          /\ sockets[c].state = "open"
          /\ \A t \in Targets : connections_[t] = {c} => connections_'[t] = {c}
NothingOpens ==
    /\ DOMAIN sockets' = DOMAIN sockets /\ Len(sockets') = Len(sockets)
    /\ \A c \in DOMAIN sockets : StaysOrCloses(c)
    /\ \A t \in Targets : connections_'[t] \subseteq connections_[t]
    /\ UNCHANGED proto

\* The invariant behind TablesExact.
TablesInv == TypeInv /\ ConnectionsInv /\ AnsweredAtMostOnce

\* What send_queued does to queue q of target t: it is dropped, or buffer b, its
\* front with or without a cookie, is written on connection c.
QueueDropped(t, ws) ==
    /\ queues_' = [queues_ EXCEPT ![t] = EmptyQueue]
    /\ dropped' = [dropped EXCEPT ![t] = @ + 1]
    /\ writes' = ws
SameButFront(q, r, b) ==
    /\ r \in Queue /\ r.bufs # <<>> /\ Head(r.bufs) = b /\ Ids(b) = Ids(Head(q.bufs))
    /\ Len(r.bufs) = Len(q.bufs)
    /\ \A k \in 2 .. Len(q.bufs) : r.bufs[k] = q.bufs[k]
FrontWritten(t, q, ws, r, b, c, res) ==
    /\ SameButFront(q, r, b)
    /\ queues_' = [queues_ EXCEPT ![t] = r]
    /\ Started(ws, t, c, b, res)
    /\ UNCHANGED dropped
    /\ \/ proto = "udp" /\ c = 0
       \/ proto = "tcp" /\ c \in connections_[t] /\ (res = "pending" => sockets[c].state = "open")
AFrontWritten(t, q, ws) ==
    \E r \in Queue, b \in Buffer, c \in 0 .. MaxConnections, res \in Result :
        FrontWritten(t, q, ws, r, b, c, res)

\* Writes of target t among ws: none, or just one, of the front buffer b of its
\* queue, which was erased g times before.
NoneOf(ws, t) == \A i \in DOMAIN ws : ws[i].target # t
JustOne(ws, t, b, g) ==
    \E i \in DOMAIN ws :
        /\ ws[i].target = t /\ ws[i].gen = g /\ ws[i].buffer = b
        /\ \A j \in DOMAIN ws : ws[j].target = t => j = i

\* What keeps OneWritePerQueue: there is not even a write of an erased queue.
FrontHasWrite(t) ==
    IF queues_[t].bufs = <<>> \/ t \in stuck THEN NoneOf(writes, t)
    ELSE JustOne(writes, t, Head(queues_[t].bufs), dropped[t])
WritesInv ==
    /\ undefined => repeated # {}
    /\ \A t \in Targets \ repeated :
          FrontHasWrite(t) /\ (t \in stuck => queues_[t].bufs # <<>>)

\* What a step does to the buffers of the targets: writes get their results, a
\* message is sent, a queue is flushed, or a handler of a write runs.
Results ==
    /\ Settled(writes, writes')
    /\ \A i \in DOMAIN writes : writes[i].res = "ok" => writes'[i].res = "ok"
    /\ UNCHANGED <<packetizer_, queues_, dropped, accepted, wire, stuck, repeated, undefined>>
Sending(t, _size, _flush) ==
    /\ send_intern(t, _size, _flush)
    /\ UNCHANGED <<wire, repeated, undefined>>
Flushing(t) ==
    /\ flush(t)
    /\ UNCHANGED <<packetizer_, accepted, wire, undefined>>
BufferStep ==
    \/ Results
    \/ \E t \in Targets, _size \in Sizes, _flush \in BOOLEAN : Sending(t, _size, _flush)
    \/ \E t \in Targets : Flushing(t)
    \/ \E i \in DOMAIN writes : WriteDone(i) \/ send_cbk(i)

\* What send_cbk does through an iterator to a queue that is there, and through one
\* to a queue that is gone.
ValidCbk(i) ==
    LET t == writes[i].target
        left == RemoveAt(writes, i)
    IN  \/ writes[i].res = "error" /\ QueueDropped(t, left)
        \/ /\ writes[i].res = "ok" /\ Len(queues_[t].bufs) = 1
           /\ queues_' = [queues_ EXCEPT ![t] = popped(queues_[t])]
           /\ writes' = left
           /\ UNCHANGED dropped
        \/ /\ writes[i].res = "ok" /\ Len(queues_[t].bufs) > 1
           /\ send_queued(t, popped(queues_[t]), left)
InvalidCbk(i) ==
    /\ ~(writes[i].gen = dropped[writes[i].target]
         /\ (writes[i].res = "ok" => queues_[writes[i].target].bufs # <<>>))
    /\ undefined'
    /\ writes' = RemoveAt(writes, i)
    /\ UNCHANGED <<queues_, dropped>>

\* What is on its way to target t is in order: wr, the buffers the network took,
\* the pending ones of ws, the queue bufs, the packetizer p; n messages were
\* accepted so far.
Pending(t, ws) == {i \in DOMAIN ws : ws[i].target = t /\ ws[i].res = "pending"}
SentInOrder(t, wr, ws, bufs, p, n) == Ordered(Pending(t, ws), wr, ws, bufs, p, n)

\* What keeps the order over the steps: it holds for every target, and a front that
\* was not written yet comes after what the network took.
NoneDone(ws, t) == \A i \in DOMAIN ws : ws[i].target = t => ws[i].res # "ok"
FrontUnsent(t) ==
    t \notin repeated /\ queues_[t].bufs # <<>> /\ wire[t] # <<>> /\ NoneDone(writes, t)
        => After(LastOf(wire[t]), Ids(Head(queues_[t].bufs)))
OrderedAt(t) == SentInOrder(t, wire[t], writes, queues_[t].bufs, packetizer_[t], accepted[t])
OrderInv == \A t \in Targets : OrderedAt(t) /\ FrontUnsent(t)

\* A pending write is on the UDP socket, or on an open connection of its target.
OnSocket(w) ==
    \/ proto = "udp" /\ w.conn = 0
    \/ proto = "tcp" /\ w.conn \in DOMAIN sockets /\ sockets[w.conn] \in Socket
       /\ sockets[w.conn].target = w.target /\ sockets[w.conn].state = "open"
SocketsInv == \A i \in DOMAIN writes : writes[i].res = "pending" => OnSocket(writes[i])

\* The invariant behind ImplementsChannel.
ChannelInv == TablesInv /\ WritesInv /\ SocketsInv /\ OrderInv

-----------------------------------------------------------------------------

\* What is assumed of the constants, one by one.
LEMMA Bounds == MaxConnections \in Nat /\ MaxConnections > 0 /\ MaxRequests \in Nat
                /\ MaxFaults \in Nat /\ Observed \in Targets
BY ConstantsAssumption

-----------------------------------------------------------------------------
(* Queues *)

\* A queue is its counted size and its buffers.
LEMMA QueueParts ==
    ASSUME NEW q \in Queue
    PROVE  /\ q.bufs \in Seq(Buffer) /\ q.size \in Nat
           /\ q.size = QueuedSize(q.bufs)
BY Zenon DEF Queue

\* The converse.
LEMMA QueueWhole ==
    ASSUME NEW n \in Nat, NEW s \in Seq(Buffer), n = QueuedSize(s)
    PROVE  [size |-> n, bufs |-> s] \in Queue
BY Zenon DEF Queue

\* The queue a new target gets.
LEMMA EmptyQueueOK == EmptyQueue \in Queue
<1>1. 0 \in Nat /\ <<>> \in Seq(Buffer) /\ 0 = QueuedSize(<<>>)
  BY QueuedSizeEmpty
<1>2. [size |-> 0, bufs |-> <<>>] \in Queue
  BY <1>1, QueueWhole, Zenon
<1> QED BY <1>2, Zenon DEF EmptyQueue

\* send_intern puts the packetizer into the queue and counts it.
LEMMA QueueAppend ==
    ASSUME NEW q \in Queue, NEW b \in Buffer
    PROVE  queued(q, b) \in Queue
<1>1. q.size + BufferSize(b) \in Nat
  BY BufferSizeNat, QueueParts
<1>2. q.size + BufferSize(b) = QueuedSize(Append(q.bufs, b))
  BY QueueParts, QueuedSizeAppend, Zenon
<1>3. Append(q.bufs, b) \in Seq(Buffer)
  BY QueueParts
<1> QED BY <1>1, <1>2, <1>3, QueueWhole, Zenon DEF queued

\* send_cbk takes the front out and counts it out.
LEMMA QueuePopped ==
    ASSUME NEW q \in Queue, q.bufs # <<>>
    PROVE  popped(q) \in Queue
<1>1. Head(q.bufs) \in Buffer /\ Tail(q.bufs) \in Seq(Buffer)
  BY QueueParts
<1>2. q.size = BufferSize(Head(q.bufs)) + QueuedSize(Tail(q.bufs))
  BY QueueParts, QueuedSizeTail, Zenon
<1>3. BufferSize(Head(q.bufs)) \in Nat /\ QueuedSize(Tail(q.bufs)) \in Nat
  BY <1>1, BufferSizeNat, QueuedSizeNat, Zenon
<1>4. q.size - BufferSize(Head(q.bufs)) = QueuedSize(Tail(q.bufs))
  BY <1>2, <1>3
<1> QED BY <1>1, <1>3, <1>4, QueueWhole, Zenon DEF popped

\* A cookie put into the front is counted.
LEMMA QueueFront ==
    ASSUME NEW q \in Queue, q.bufs # <<>>, NEW b \in Buffer
    PROVE  [size |-> q.size + BufferSize(b) - BufferSize(Head(q.bufs)),
            bufs |-> [q.bufs EXCEPT ![1] = b]] \in Queue
<1> DEFINE r == [q.bufs EXCEPT ![1] = b]
<1>1. q.bufs \in Seq(Buffer)
  BY QueueParts, Zenon
<1>2. r \in Seq(Buffer) /\ r # <<>> /\ Head(r) = b /\ Tail(r) \in Seq(Buffer)
      /\ Tail(r) = Tail(q.bufs) /\ Head(q.bufs) \in Buffer
  <2>1. r \in Seq(Buffer) /\ Len(r) = Len(q.bufs) /\ r[1] = b
        /\ \A i \in 2 .. Len(q.bufs) : r[i] = q.bufs[i]
    BY <1>1
  <2> HIDE DEF r
  <2>2. r # <<>> /\ Head(r) = b /\ Tail(r) \in Seq(Buffer)
    BY <1>1, <2>1
  <2>3. Tail(q.bufs) \in Seq(Buffer) /\ Len(Tail(q.bufs)) = Len(q.bufs) - 1
        /\ Len(Tail(r)) = Len(q.bufs) - 1 /\ Len(q.bufs) \in Nat
    BY <1>1, <2>1, <2>2
  <2>4. \A i \in 1 .. Len(q.bufs) - 1 : Tail(r)[i] = Tail(q.bufs)[i]
    BY <1>1, <2>1, <2>2, <2>3
  <2>5. Tail(r) = Tail(q.bufs)
    BY <2>2, <2>3, <2>4
  <2> QED BY <1>1, <2>1, <2>2, <2>5
<1>3. BufferSize(Head(q.bufs)) \in Nat /\ BufferSize(b) \in Nat
      /\ QueuedSize(Tail(r)) \in Nat
  BY <1>2, BufferSizeNat, QueuedSizeNat, Zenon
<1> HIDE DEF r
<1>4. QueuedSize(q.bufs) = BufferSize(Head(q.bufs)) + QueuedSize(Tail(r))
  BY <1>1, <1>2, QueuedSizeTail, Zenon
<1>5. QueuedSize(r) = BufferSize(b) + QueuedSize(Tail(r))
  BY <1>2, QueuedSizeTail, Zenon
<1>6. q.size + BufferSize(b) - BufferSize(Head(q.bufs)) = QueuedSize(r)
      /\ QueuedSize(r) \in Nat
  BY <1>3, <1>4, <1>5, QueueParts
<1> QED BY <1>2, <1>6, QueueWhole, Zenon DEF r

\* send_queued puts a cookie before the front.
LEMMA CookieBuffer ==
    ASSUME NEW b \in Buffer
    PROVE  send_magic_cookie(b) \in Buffer /\ Ids(send_magic_cookie(b)) = Ids(b)
BY IdsCookie, Zenon DEF send_magic_cookie

-----------------------------------------------------------------------------
(* Writes *)

\* A write gets its result and stays a write.
LEMMA WriteResult ==
    ASSUME NEW w \in Write, NEW res \in Result
    PROVE  /\ [w EXCEPT !.res = res] \in Write
           /\ [w EXCEPT !.res = res].res = res
           /\ [w EXCEPT !.res = res].target = w.target
           /\ [w EXCEPT !.res = res].gen = w.gen
           /\ [w EXCEPT !.res = res].conn = w.conn
           /\ [w EXCEPT !.res = res].buffer = w.buffer
BY Zenon DEF Write, Result

\* One write gets its result.
LEMMA SetResult ==
    ASSUME NEW ws \in Seq(Write), NEW i \in DOMAIN ws, NEW res \in Result \ {"pending"}
    PROVE  /\ Settled(ws, [ws EXCEPT ![i].res = res])
           /\ [ws EXCEPT ![i].res = res][i].res = res
           /\ \A j \in DOMAIN ws : j # i => [ws EXCEPT ![i].res = res][j] = ws[j]
<1> DEFINE vs == [ws EXCEPT ![i] = [ws[i] EXCEPT !.res = res]]
<1>1. ws[i] \in Write /\ res \in Result
  OBVIOUS
<1>2. [ws[i] EXCEPT !.res = res] \in Write
  BY <1>1, WriteResult, Zenon
<1>3. vs \in Seq(Write) /\ Len(vs) = Len(ws) /\ vs[i] = [ws[i] EXCEPT !.res = res]
      /\ \A j \in DOMAIN ws : j # i => vs[j] = ws[j]
  BY <1>2
<1> HIDE DEF vs
<1>4. Settled(ws, vs) /\ vs[i].res = res
  <2>1. /\ vs[i].res = res /\ res # "pending"
        /\ vs[i].target = ws[i].target /\ vs[i].gen = ws[i].gen
        /\ vs[i].conn = ws[i].conn /\ vs[i].buffer = ws[i].buffer
    BY <1>1, <1>3, WriteResult
  <2>2. DOMAIN ws = 1 .. Len(ws)
    OBVIOUS
  <2> QED BY <1>3, <2>1, <2>2, Zenon DEF Settled
<1>5. [ws EXCEPT ![i].res = res] = vs
  BY Zenon DEF vs
<1> QED BY <1>3, <1>4, <1>5, Zenon

\* Closing a connection aborts what it has under way.
LEMMA AbortedSettles ==
    ASSUME writes \in Seq(Write), NEW conns, NEW res \in Result \ {"pending"}
    PROVE  /\ Settled(writes, Aborted(conns, res))
           /\ \A i \in DOMAIN writes :
                 /\ Aborted(conns, res)[i].res = "pending" => writes[i].conn \notin conns
                 /\ writes[i].res # "pending" => Aborted(conns, res)[i].res = writes[i].res
<1> DEFINE vs == Aborted(conns, res)
<1>1. ASSUME NEW i \in DOMAIN writes
      PROVE  /\ vs[i] \in Write
             /\ vs[i].target = writes[i].target /\ vs[i].gen = writes[i].gen
             /\ vs[i].conn = writes[i].conn /\ vs[i].buffer = writes[i].buffer
             /\ vs[i].res = "pending" => writes[i].res = "pending" /\ writes[i].conn \notin conns
             /\ writes[i].res # "pending" => vs[i].res = writes[i].res
  <2>1. writes[i] \in Write /\ res \in Result /\ res # "pending"
    OBVIOUS
  <2>2. \/ vs[i] = writes[i] /\ (writes[i].conn \notin conns \/ writes[i].res # "pending")
        \/ vs[i] = [writes[i] EXCEPT !.res = res] /\ writes[i].res = "pending"
    BY Zenon DEF Aborted
  <2> HIDE DEF vs
  <2>3. CASE vs[i] = writes[i] /\ (writes[i].conn \notin conns \/ writes[i].res # "pending")
    BY <2>1, <2>3, Zenon
  <2>4. CASE vs[i] = [writes[i] EXCEPT !.res = res] /\ writes[i].res = "pending"
    <3>1. /\ vs[i] \in Write /\ vs[i].res = res
          /\ vs[i].target = writes[i].target /\ vs[i].gen = writes[i].gen
          /\ vs[i].conn = writes[i].conn /\ vs[i].buffer = writes[i].buffer
      BY <2>1, <2>4, WriteResult
    <3> QED BY <2>1, <2>4, <3>1, Zenon
  <2> QED BY <2>2, <2>3, <2>4, Zenon
<1>2. DOMAIN vs = 1 .. Len(writes) /\ Len(writes) \in Nat /\ DOMAIN writes = 1 .. Len(writes)
  BY DEF Aborted
<1>3. vs = [i \in 1 .. Len(writes) |-> vs[i]]
  BY <1>2, Zenon DEF Aborted
<1> HIDE DEF vs
<1>4. vs \in Seq(Write) /\ Len(vs) = Len(writes)
  BY <1>1, <1>2, <1>3
<1> QED BY <1>1, <1>2, <1>4, Zenon DEF Settled, vs

-----------------------------------------------------------------------------
(* Types and sizes *)

\* The inductive type invariant gives the checked one.
LEMMA TypeInvImplies == TypeInv => TypeOK /\ QueueSizeIsSum
<1> SUFFICES ASSUME TypeInv PROVE TypeOK /\ QueueSizeIsSum
  BY Zenon
<1>3. \A q \in Queue : q \in [size : Nat, bufs : Seq(Buffer)] /\ q.size = QueuedSize(q.bufs)
  BY Zenon DEF Queue
<1>4. queues_ \in [Targets -> [size : Nat, bufs : Seq(Buffer)]] /\ QueueSizeIsSum
  BY <1>3, Zenon DEF TypeInv, TypeBuffers, QueueSizeIsSum
<1>5. \A t \in Targets : \A c, d \in connections_[t] : c = d
  BY Zenon DEF TypeInv, TypeNetwork
<1>6. {repeated, stuck} \subseteq SUBSET Targets
  BY Zenon DEF TypeInv, TypeControl
<1> QED BY <1>4, <1>5, <1>6, Zenon
        DEF TypeInv, TypeBuffers, TypeNetwork, TypeRequests, TypeControl, TypeOK

\* A write that is started.
LEMMA StartedType ==
    ASSUME NEW ws \in Seq(Write), NEW t \in Targets, NEW c \in 0 .. MaxConnections,
           NEW b \in Buffer, NEW res \in {"pending", "ok", "failed", "error"},
           dropped \in [Targets -> Nat], Started(ws, t, c, b, res)
    PROVE  writes' \in Seq(Write)
<1>1. [target |-> t, gen |-> dropped[t], conn |-> c, buffer |-> b, res |-> res] \in Write
  BY Zenon DEF Write
<1> QED BY <1>1 DEF Started

\* send_queued keeps the types of queues and writes.
LEMMA SendQueuedType ==
    ASSUME TypeInv, NEW t \in Targets, NEW q \in Queue, q.bufs # <<>>,
           NEW ws \in Seq(Write), send_queued(t, q, ws)
    PROVE  /\ queues_' \in [Targets -> Queue]
           /\ writes' \in Seq(Write)
           /\ dropped' \in [Targets -> Nat]
<1>1. dropped \in [Targets -> Nat] /\ queues_ \in [Targets -> Queue]
      /\ connections_[t] \subseteq 1 .. MaxConnections
  <2>1. connections_[t] \subseteq DOMAIN sockets
    BY Zenon DEF TypeInv, TypeBuffers, TypeNetwork
  <2>2. DOMAIN sockets = 1 .. Len(sockets) /\ Len(sockets) \in Nat
    BY DEF TypeInv, TypeBuffers, TypeNetwork
  <2>3. Len(sockets) <= MaxConnections /\ MaxConnections \in Nat
    BY Bounds, Zenon DEF TypeInv, TypeNetwork
  <2> QED BY <2>1, <2>2, <2>3 DEF TypeInv, TypeBuffers
<1>2. Head(q.bufs) \in Buffer
  BY QueueParts
<1>3. CASE send_queued_udp(t, q, ws)
  <2>1. 0 \in 0 .. MaxConnections
    BY ConstantsAssumption
  <2> QED BY <1>1, <1>2, <1>3, <2>1, StartedType, Zenon DEF send_queued_udp
<1>4. CASE send_queued_tcp(t, q, ws) /\ connections_[t] = {}
  BY <1>1, <1>4, EmptyQueueOK DEF send_queued_tcp
<1>5. ASSUME NEW c \in connections_[t], connection_send_queued(t, q, c, ws)
      PROVE  /\ queues_' \in [Targets -> Queue]
             /\ writes' \in Seq(Write)
             /\ dropped' \in [Targets -> Nat]
  <2>1. PICK b \in {Head(q.bufs), send_magic_cookie(Head(q.bufs))} :
           /\ queues_' = [queues_ EXCEPT ![t] =
                  [size |-> q.size + BufferSize(b) - BufferSize(Head(q.bufs)),
                   bufs |-> [q.bufs EXCEPT ![1] = b]]]
           /\ Started(ws, t, c, b, IF sockets[c].state = "open" THEN "pending" ELSE "failed")
           /\ UNCHANGED dropped
    BY <1>5, Zenon DEF connection_send_queued
  <2>2. b \in Buffer /\ c \in 0 .. MaxConnections
    BY <1>1, <1>2, CookieBuffer
  <2>3. queues_' \in [Targets -> Queue]
    BY <1>1, <2>1, <2>2, QueueFront, Zenon
  <2>4. writes' \in Seq(Write)
    BY <1>1, <2>1, <2>2, StartedType, Zenon
  <2> QED BY <1>1, <2>1, <2>3, <2>4, Zenon
<1> QED BY <1>3, <1>4, <1>5, Zenon DEF send_queued, send_queued_tcp

\* send_intern refuses the message, keeps it, or starts a write.
LEMMA SendInternCases ==
    ASSUME NEW t, NEW _size, NEW _flush, send_intern(t, _size, _flush)
    PROVE  \/ Refused(t, _size)
           \/ TakenAndSent(t, _size, _flush)
           \/ TakenAndKept(t, _size, _flush)
BY Zenon DEF send_intern, SpillsOver, Rest, Spilled, Filled, Flushed, must_send, Refused, Taken,
       TakenAndSent, TakenAndKept

\* What send_intern puts together on the way.
LEMMA SendInternParts ==
    ASSUME TypeInv, NEW t \in Targets, NEW _size \in Sizes, NEW _flush \in BOOLEAN
    PROVE  /\ Rest(t, _size) \in Buffer
           /\ Filled(t, _size) \in Buffer
           /\ Spilled(t, _size) \in Queue
           /\ Flushed(t, _size, _flush) \in Queue
<1>1. packetizer_[t] \in Buffer /\ queues_[t] \in Queue /\ accepted[t] \in Nat
  BY Zenon DEF TypeInv, TypeBuffers, TypeNetwork
<1>2. Rest(t, _size) \in Buffer
  BY <1>1, EmptyBuffer, Zenon DEF Rest
<1>3. [id |-> accepted[t] + 1, size |-> _size] \in Message
  BY <1>1 DEF Message
<1>4. Filled(t, _size) \in Buffer
  BY <1>2, <1>3, IdsAppend, Zenon DEF Filled
<1>5. Spilled(t, _size) \in Queue
  BY <1>1, QueueAppend, Zenon DEF Spilled
<1>6. Flushed(t, _size, _flush) \in Queue
  BY <1>4, <1>5, QueueAppend, Zenon DEF Flushed
<1> QED BY <1>2, <1>4, <1>5, <1>6, Zenon

\* send_intern keeps the types of the buffers.
LEMMA SendInternType ==
    ASSUME TypeInv, NEW t \in Targets, NEW _size \in Sizes, NEW _flush \in BOOLEAN,
           send_intern(t, _size, _flush), UNCHANGED wire
    PROVE  TypeBuffers' /\ stuck' \subseteq Targets /\ AtMostOne(flush_timer_')
<1>1. TypeBuffers /\ stuck \subseteq Targets /\ AtMostOne(flush_timer_)
  BY Zenon DEF TypeInv, TypeControl
<1>2. /\ Rest(t, _size) \in Buffer /\ Filled(t, _size) \in Buffer /\ <<>> \in Buffer
      /\ Spilled(t, _size) \in Queue /\ Flushed(t, _size, _flush) \in Queue
  BY SendInternParts, EmptyBuffer, Zenon
<1>3. CASE Refused(t, _size)
  BY <1>1, <1>2, <1>3, Zenon DEF Refused, TypeBuffers
<1>4. ASSUME Taken(t, _size, _flush)
      PROVE  /\ packetizer_' \in [Targets -> Buffer]
             /\ accepted' \in [Targets -> Nat]
             /\ stuck' \subseteq Targets
             /\ AtMostOne(flush_timer_')
  BY <1>1, <1>2, <1>4 DEF Taken, TypeBuffers, AtMostOne
<1>5. CASE TakenAndSent(t, _size, _flush)
  <2>1. /\ queues_' \in [Targets -> Queue]
        /\ writes' \in Seq(Write)
        /\ dropped' \in [Targets -> Nat]
    BY <1>1, <1>2, <1>5, SendQueuedType, Zenon DEF TakenAndSent, TypeBuffers
  <2> QED BY <1>1, <1>4, <1>5, <2>1, Zenon DEF TakenAndSent, TypeBuffers
<1>6. CASE TakenAndKept(t, _size, _flush)
  <2>1. /\ queues_' \in [Targets -> Queue]
        /\ writes' \in Seq(Write)
        /\ dropped' \in [Targets -> Nat]
    BY <1>1, <1>2, <1>6, Zenon DEF TakenAndKept, TypeBuffers
  <2> QED BY <1>1, <1>4, <1>6, <2>1, Zenon DEF TakenAndKept, TypeBuffers
<1> QED BY <1>3, <1>5, <1>6, SendInternCases, Zenon

\* The types hold initially.
LEMMA TypeInit == Init => TypeInv
<1> SUFFICES ASSUME Init PROVE TypeInv
  BY Zenon
<1>1. TypeBuffers
  BY EmptyQueueOK, EmptyBuffer DEF Init, TypeBuffers
<1>2. TypeNetwork
  BY Bounds DEF Init, TypeNetwork, AtMostOne
<1>3. TypeRequests
  BY Bounds DEF Init, TypeRequests
<1>4. TypeControl
  <2>1. faults \in 0 .. MaxFaults /\ AtMostOne(flush_timer_) /\ AtMostOne(default_targets_)
    BY Bounds DEF Init, AtMostOne
  <2> QED BY <2>1, Zenon DEF Init, TypeControl
<1> QED BY <1>1, <1>2, <1>3, <1>4, Zenon DEF TypeInv

USE DEF buffers, network, history, ghosts

\* Steps that leave everything typed alone keep the types.
LEMMA TypeUnchanged ==
    /\ TypeBuffers /\ UNCHANGED <<buffers, writes, dropped, accepted, wire>> => TypeBuffers'
    /\ TypeNetwork /\ UNCHANGED network => TypeNetwork'
    /\ TypeRequests /\ UNCHANGED <<clients_, requests, responses>> => TypeRequests'
    /\ TypeControl /\ UNCHANGED <<proto, sending_blocked_, undefined, flush_timer_,
                                  default_targets_, repeated, stuck, faults>> => TypeControl'
BY Zenon DEF TypeBuffers, TypeNetwork, TypeRequests, TypeControl

\* send keeps the types.
LEMMA TypeSend ==
    ASSUME TypeInv, NEW t \in Targets, NEW session, NEW _size \in Sizes, NEW _flush \in BOOLEAN,
           send_to(t, _size, _flush) \/ send(t, session, _size, _flush)
    PROVE  TypeInv'
<1>1. \E d \in Targets : send_intern(d, _size, _flush)
  BY Zenon DEF send_to, send, TypeInv, TypeControl, AtMostOne
<1>2. UNCHANGED <<wire, proto, sending_blocked_, undefined, default_targets_, repeated, faults,
                  network, requests>>
  BY Zenon DEF send_to, send
<1>3. TypeBuffers' /\ stuck' \subseteq Targets /\ AtMostOne(flush_timer_')
  BY <1>1, <1>2, SendInternType, Zenon
<1>4. TypeRequests'
  <2>1. \/ UNCHANGED <<clients_, requests, responses>>
        \/ /\ clients_' = [clients_ EXCEPT ![t].sessions = @ \ {session}]
           /\ responses' = [responses EXCEPT ![t] = @ \cup {session}]
           /\ UNCHANGED requests /\ session \in 1 .. MaxRequests
    BY Zenon DEF send_to, send, TakeSession, TypeInv, TypeRequests
  <2>2. CASE UNCHANGED <<clients_, requests, responses>>
    BY <2>2, Zenon DEF TypeInv, TypeRequests
  <2>3. CASE /\ clients_' = [clients_ EXCEPT ![t].sessions = @ \ {session}]
             /\ responses' = [responses EXCEPT ![t] = @ \cup {session}]
             /\ UNCHANGED requests /\ session \in 1 .. MaxRequests
    BY <2>3, Zenon DEF TypeInv, TypeRequests
  <2> QED BY <2>1, <2>2, <2>3, Zenon
<1> QED BY <1>2, <1>3, <1>4, TypeUnchanged, Zenon DEF TypeInv, TypeControl

\* flush_cbk keeps the types.
LEMMA TypeFlush == ASSUME TypeInv, flush_cbk PROVE TypeInv'
<1>1. PICK t \in Targets : flush(t) /\ t \in flush_timer_
  BY Zenon DEF flush_cbk, TypeInv, TypeControl, AtMostOne
<1>2. queues_[t] \in Queue /\ writes \in Seq(Write) /\ TypeBuffers
  BY Zenon DEF TypeInv, TypeBuffers
<1>3. \/ UNCHANGED <<queues_, writes, dropped>>
      \/ queues_[t].bufs # <<>> /\ send_queued(t, queues_[t], writes)
  BY <1>1, Zenon DEF flush
<1>4. /\ queues_' \in [Targets -> Queue]
      /\ writes' \in Seq(Write)
      /\ dropped' \in [Targets -> Nat]
  BY <1>2, <1>3, SendQueuedType, Zenon DEF TypeBuffers
<1>5. TypeBuffers'
  BY <1>2, <1>4, Zenon DEF flush_cbk, TypeBuffers
<1>6. repeated' \subseteq Targets /\ stuck' \subseteq Targets
  BY <1>1 DEF flush, TypeInv, TypeControl
<1>7. TypeControl'
  BY <1>6, Zenon DEF flush_cbk, TypeInv, TypeControl, AtMostOne
<1> QED BY <1>5, <1>7, TypeUnchanged, Zenon DEF flush_cbk, TypeInv

\* A write that completes or fails keeps the types.
LEMMA TypeWriteDone ==
    ASSUME TypeInv, NEW i \in DOMAIN writes, WriteDone(i) \/ WriteError(i)
    PROVE  TypeInv'
<1>1. writes \in Seq(Write) /\ writes[i] \in Write
  BY DEF TypeInv, TypeBuffers
<1>2. writes' \in Seq(Write)
  <2>1. \E res \in Result \ {"pending"} : writes' = [writes EXCEPT ![i].res = res]
    BY Zenon DEF WriteDone, WriteError, Result
  <2> QED BY <1>1, <2>1, SetResult DEF Settled
<1>3. wire' \in [Targets -> Seq(Seq(Nat \ {0}))]
  <2>1. Ids(writes[i].buffer) \in Seq(Nat \ {0})
    BY <1>1, IdsType, Zenon DEF Write
  <2>2. \/ UNCHANGED wire
        \/ wire' = [wire EXCEPT ![writes[i].target] = Append(@, Ids(writes[i].buffer))]
    BY Zenon DEF WriteDone, WriteError
  <2> DEFINE Ns == Seq(Nat \ {0})
  <2>3. wire \in [Targets -> Seq(Ns)] /\ writes[i].target \in Targets
    BY <1>1, Zenon DEF TypeInv, TypeBuffers, Write
  <2>4. Ids(writes[i].buffer) \in Ns
    BY <2>1, Zenon
  <2> HIDE DEF Ns
  <2>5. Append(wire[writes[i].target], Ids(writes[i].buffer)) \in Seq(Ns)
    BY <2>3, <2>4
  <2>6. wire' \in [Targets -> Seq(Ns)]
    BY <2>2, <2>3, <2>5, Zenon
  <2> QED BY <2>6, Zenon DEF Ns
<1>4. faults' \in 0 .. MaxFaults
  BY Bounds DEF WriteDone, WriteError, TypeInv, TypeControl
<1>5. TypeBuffers'
  BY <1>2, <1>3, Zenon DEF WriteDone, WriteError, TypeInv, TypeBuffers
<1>6. TypeControl'
  BY <1>4, Zenon DEF WriteDone, WriteError, TypeInv, TypeControl
<1> QED BY <1>5, <1>6, TypeUnchanged, Zenon DEF WriteDone, WriteError, TypeInv

\* Closing connections, without the writes on them.
LEMMA TypeRemoveConnection ==
    ASSUME TypeInv, NEW c, stop_and_remove_connection(c), UNCHANGED accepting
    PROVE  TypeNetwork' /\ Len(sockets') = Len(sockets)
<1>1. TypeNetwork
  BY Zenon DEF TypeInv
<1>2. /\ sockets' \in Seq(Socket)
      /\ Len(sockets') = Len(sockets) /\ DOMAIN sockets' = DOMAIN sockets
  <2>1. sockets \in Seq(Socket) /\ sockets' = [sockets EXCEPT ![c].state = "closed"]
    BY <1>1, Zenon DEF TypeNetwork, stop_and_remove_connection, close
  <2>2. ASSUME NEW s \in Socket PROVE [s EXCEPT !.state = "closed"] \in Socket
    BY Zenon DEF Socket
  <2>3. sockets' \in Seq(Socket) /\ Len(sockets') = Len(sockets)
        /\ DOMAIN sockets' = DOMAIN sockets
    <3>1. CASE c \in DOMAIN sockets
      <4>1. [sockets[c] EXCEPT !.state = "closed"] \in Socket
        BY <2>1, <2>2, <3>1
      <4> QED BY <2>1, <3>1, <4>1
    <3>2. CASE c \notin DOMAIN sockets
      <4>1. sockets' = sockets
        BY <2>1, <3>2
      <4> QED BY <2>1, <4>1, Zenon
    <3> QED BY <3>1, <3>2, Zenon
  <2> QED BY <2>3, Zenon DEF Socket
<1>3. /\ connections_' \in [Targets -> SUBSET (DOMAIN sockets)]
      /\ \A t \in Targets : connections_'[t] = connections_[t] \ {c}
  BY <1>1, Zenon DEF TypeNetwork, stop_and_remove_connection, remove_connection
<1>4. \A t \in Targets : connections_'[t] = {} \/ \E d \in DOMAIN sockets : connections_'[t] = {d}
  BY <1>1, <1>3 DEF TypeNetwork
<1> QED BY <1>1, <1>2, <1>3, <1>4, Zenon DEF TypeNetwork

\* A completion condition that stops a write keeps the types.
LEMMA TypeCompletion ==
    ASSUME TypeInv, NEW i \in DOMAIN writes, write_completion_condition(i)
    PROVE  TypeInv'
<1> DEFINE c == writes[i].conn
           vs == Aborted({c}, "failed")
<1>1. writes \in Seq(Write) /\ "failed" \in Result \ {"pending"} /\ "error" \in Result \ {"pending"}
  BY Zenon DEF TypeInv, TypeBuffers, Result
<1>2. vs \in Seq(Write) /\ Len(vs) = Len(writes)
  BY <1>1, AbortedSettles, Zenon DEF Settled
<1>3. writes' = [vs EXCEPT ![i].res = "error"] /\ stop_and_remove_connection(c)
  BY Zenon DEF write_completion_condition
<1> HIDE DEF vs, c
<1>4. writes' \in Seq(Write)
  <2>1. i \in DOMAIN vs
    BY <1>1, <1>2
  <2> QED BY <1>1, <1>2, <1>3, <2>1, SetResult, Zenon DEF Settled
<1>5. TypeBuffers'
  BY <1>4, Zenon DEF write_completion_condition, TypeInv, TypeBuffers
<1>6. TypeNetwork'
  BY <1>3, TypeRemoveConnection, Zenon DEF write_completion_condition
<1> QED BY <1>5, <1>6, TypeUnchanged, Zenon DEF write_completion_condition, TypeInv

\* send_cbk keeps the types.
LEMMA TypeSendCbk ==
    ASSUME TypeInv, NEW i \in DOMAIN writes, send_cbk(i)
    PROVE  TypeInv'
<1> DEFINE t == writes[i].target
           left == RemoveAt(writes, i)
<1>1. TypeBuffers /\ t \in Targets /\ queues_[t] \in Queue /\ left \in Seq(Write)
  <2>1. TypeBuffers /\ writes \in Seq(Write) /\ writes[i] \in Write
    BY DEF TypeInv, TypeBuffers
  <2>2. t \in Targets
    BY <2>1, Zenon DEF Write
  <2>3. left \in Seq(Write)
    BY <2>1, WritesRemove, Zenon
  <2> QED BY <2>1, <2>2, <2>3, Zenon DEF TypeBuffers
<1>2. \/ writes' = left /\ UNCHANGED <<queues_, dropped>>
      \/ /\ queues_' = [queues_ EXCEPT ![t] = EmptyQueue]
         /\ dropped' = [dropped EXCEPT ![t] = @ + 1]
         /\ writes' = left
      \/ /\ queues_[t].bufs # <<>>
         /\ queues_' = [queues_ EXCEPT ![t] = popped(queues_[t])]
         /\ writes' = left
         /\ UNCHANGED dropped
      \/ /\ Len(queues_[t].bufs) > 1
         /\ send_queued(t, popped(queues_[t]), left)
  BY Zenon DEF send_cbk
<1> HIDE DEF t, left
<1>3. ASSUME queues_[t].bufs # <<>> PROVE popped(queues_[t]) \in Queue
  BY <1>1, <1>3, QueuePopped, Zenon
<1>4. ASSUME Len(queues_[t].bufs) > 1
      PROVE  queues_[t].bufs # <<>> /\ popped(queues_[t]).bufs # <<>>
  <2>1. queues_[t].bufs \in Seq(Buffer)
    BY <1>1, QueueParts, Zenon
  <2>2. queues_[t].bufs # <<>> /\ Tail(queues_[t].bufs) # <<>>
    BY <1>4, <2>1
  <2> QED BY <2>2, Zenon DEF popped
<1>5. /\ queues_' \in [Targets -> Queue]
      /\ writes' \in Seq(Write)
      /\ dropped' \in [Targets -> Nat]
  <2>1. CASE Len(queues_[t].bufs) > 1 /\ send_queued(t, popped(queues_[t]), left)
    BY <1>1, <1>3, <1>4, <2>1, SendQueuedType, Zenon
  <2>2. CASE writes' = left /\ UNCHANGED <<queues_, dropped>>
    BY <1>1, <2>2, Zenon DEF TypeBuffers
  <2>3. CASE /\ queues_' = [queues_ EXCEPT ![t] = EmptyQueue]
             /\ dropped' = [dropped EXCEPT ![t] = @ + 1]
             /\ writes' = left
    BY <1>1, <2>3, EmptyQueueOK DEF TypeBuffers
  <2>4. CASE /\ queues_[t].bufs # <<>>
             /\ queues_' = [queues_ EXCEPT ![t] = popped(queues_[t])]
             /\ writes' = left
             /\ UNCHANGED dropped
    BY <1>1, <1>3, <2>4, Zenon DEF TypeBuffers
  <2> QED BY <1>2, <2>1, <2>2, <2>3, <2>4, Zenon
<1>6. TypeBuffers'
  BY <1>1, <1>5, Zenon DEF send_cbk, TypeBuffers
<1>7. undefined' \in BOOLEAN
  BY Zenon DEF send_cbk
<1>8. TypeControl'
  BY <1>7, Zenon DEF send_cbk, TypeInv, TypeControl
<1> QED BY <1>6, <1>8, TypeUnchanged, Zenon DEF send_cbk, TypeInv

\* accepted keeps the types.
LEMMA TypeAccept ==
    ASSUME TypeInv, NEW t \in Targets,
           AcceptCompletes(t) \/ accept_cbk_tcp(t) \/ accept_cbk_local(t)
    PROVE  TypeInv'
<1>1. TypeNetwork /\ Len(sockets) \in Nat
  BY DEF TypeInv, TypeNetwork
<1>2. CASE AcceptCompletes(t)
  <2>1. TypeNetwork'
    BY <1>1, <1>2, Zenon DEF AcceptCompletes, TypeNetwork, AtMostOne
  <2> QED BY <1>2, <2>1, TypeUnchanged, Zenon DEF AcceptCompletes, TypeInv
<1>3. ASSUME Accepted(t), sockets' = Append(sockets, [target |-> t, state |-> "open"]),
             Registered(t)
      PROVE  TypeNetwork'
  <2>1. Len(sockets) < MaxConnections
    BY <1>1, <1>3, Zenon DEF Accepted, TypeNetwork
  <2>2. [target |-> t, state |-> "open"] \in Socket
    BY Zenon DEF Socket
  <2>3. /\ sockets' \in Seq(Socket)
        /\ Len(sockets') = Len(sockets) + 1 /\ Len(sockets) + 1 \in DOMAIN sockets'
        /\ DOMAIN sockets \subseteq DOMAIN sockets'
    BY <1>1, <1>3, <2>2 DEF TypeNetwork
  <2>4. /\ connections_' \in [Targets -> SUBSET (DOMAIN sockets')]
        /\ \A d \in Targets : connections_'[d] = IF d = t THEN {Len(sockets) + 1}
                                                        ELSE connections_[d]
    BY <1>1, <1>3, <2>3, Zenon DEF Registered, TypeNetwork
  <2>5. \A d \in Targets : connections_'[d] = {} \/ \E c \in DOMAIN sockets' : connections_'[d] = {c}
    BY <1>1, <2>3, <2>4, Zenon DEF TypeNetwork
  <2>6. accepting' = {} /\ Len(sockets') <= MaxConnections
    BY <1>1, <1>3, <2>1, <2>3, Bounds DEF Accepted
  <2> QED BY <2>3, <2>4, <2>5, <2>6, Zenon DEF TypeNetwork, AtMostOne
<1>4. ASSUME Accepted(t), UNCHANGED <<sockets, connections_>> PROVE TypeNetwork'
  BY <1>1, <1>4, Zenon DEF Accepted, TypeNetwork, AtMostOne
<1>5. CASE accept_cbk_tcp(t) \/ accept_cbk_local(t)
  <2>1. TypeNetwork' /\ Accepted(t)
    BY <1>3, <1>4, <1>5, Zenon DEF accept_cbk_tcp, accept_cbk_local
  <2> QED BY <2>1, TypeUnchanged, Zenon DEF Accepted, TypeInv
<1> QED BY <1>2, <1>5, Zenon

\* Writes are aborted and nothing else of the buffers changes.
LEMMA TypeAborted ==
    ASSUME TypeInv, NEW conns, NEW res \in Result \ {"pending"}, writes' = Aborted(conns, res),
           UNCHANGED <<buffers, dropped, accepted, wire>>
    PROVE  TypeBuffers'
<1>1. writes \in Seq(Write) /\ TypeBuffers
  BY Zenon DEF TypeInv, TypeBuffers
<1>2. writes' \in Seq(Write)
  BY <1>1, AbortedSettles, Zenon DEF Settled
<1> QED BY <1>1, <1>2, Zenon DEF TypeBuffers

\* A connection that is lost keeps the types.
LEMMA TypeLost ==
    ASSUME TypeInv, NEW c \in DOMAIN sockets, ConnectionLost(c) \/ receive_cbk_error(c)
    PROVE  TypeInv'
<1>1. CASE ConnectionLost(c)
  <2>1. TypeNetwork /\ sockets[c] \in Socket
    BY DEF TypeInv, TypeNetwork
  <2>2. [sockets[c] EXCEPT !.state = "lost"] \in Socket
    BY <2>1, Zenon DEF Socket
  <2>3. /\ sockets' \in Seq(Socket)
        /\ Len(sockets') = Len(sockets) /\ DOMAIN sockets' = DOMAIN sockets
    <3>1. sockets \in Seq(Socket) /\ [sockets[c] EXCEPT !.state = "lost"] \in Socket
          /\ sockets' = [sockets EXCEPT ![c].state = "lost"]
      BY <1>1, <2>1, <2>2, Zenon DEF ConnectionLost, TypeNetwork
    <3>2. sockets' \in Seq(Socket) /\ Len(sockets') = Len(sockets)
          /\ DOMAIN sockets' = DOMAIN sockets
      BY <3>1
    <3> QED BY <3>2, Zenon DEF Socket
  <2>4. TypeNetwork'
    BY <1>1, <2>1, <2>3, Zenon DEF ConnectionLost, TypeNetwork
  <2>5. TypeBuffers'
    BY <1>1, TypeAborted, Zenon DEF ConnectionLost, Result
  <2>6. faults' \in 0 .. MaxFaults
    BY <1>1, Bounds DEF ConnectionLost, TypeInv, TypeControl
  <2>7. TypeControl'
    BY <1>1, <2>6, Zenon DEF ConnectionLost, TypeInv, TypeControl
  <2> QED BY <1>1, <2>4, <2>5, <2>7, TypeUnchanged, Zenon DEF ConnectionLost, TypeInv
<1>2. CASE receive_cbk_error(c)
  <2>1. TypeNetwork'
    BY <1>2, TypeRemoveConnection, Zenon DEF receive_cbk_error
  <2> QED BY <1>2, <2>1, TypeUnchanged, Zenon DEF receive_cbk_error, TypeInv
<1> QED BY <1>1, <1>2, Zenon

\* A request that is received keeps the types.
LEMMA TypeRequest ==
    ASSUME TypeInv, NEW t \in Targets,
           receive_cbk_tcp(t) \/ receive_cbk_udp(t)
    PROVE  TypeInv'
<1>1. RecordRequest(t)
  BY Zenon DEF receive_cbk_tcp, receive_cbk_udp
<1>2. TypeRequests /\ clients_[t] \in [known : BOOLEAN, sessions : SUBSET (1 .. MaxRequests)]
      /\ requests[t] \in 0 .. MaxRequests /\ requests[t] < MaxRequests
  BY <1>1, Zenon DEF TypeInv, TypeRequests, RecordRequest
<1>3. requests[t] + 1 \in 1 .. MaxRequests
  BY <1>2, Bounds
<1>4. requests' \in [Targets -> 0 .. MaxRequests]
  BY <1>1, <1>2, <1>3 DEF TypeRequests, RecordRequest
<1>5. clients_[t].sessions \cup {requests[t] + 1} \in SUBSET (1 .. MaxRequests)
  BY <1>2, <1>3, Zenon
<1>6. [known |-> TRUE, sessions |-> clients_[t].sessions \cup {requests[t] + 1}]
        \in [known : BOOLEAN, sessions : SUBSET (1 .. MaxRequests)]
  BY <1>5, Zenon
<1>7. TypeRequests'
  BY <1>1, <1>2, <1>4, <1>6, Zenon DEF TypeRequests, RecordRequest
<1> QED BY <1>1, <1>7, TypeUnchanged, Zenon DEF RecordRequest, TypeInv

\* add_default_target keeps the types.
LEMMA TypeDefaultTarget ==
    ASSUME TypeInv, NEW t \in Targets, add_default_target(t)
    PROVE  TypeInv'
<1>1. TypeControl'
  BY Zenon DEF add_default_target, TypeInv, TypeControl, AtMostOne
<1> QED BY <1>1, TypeUnchanged, Zenon DEF add_default_target, TypeInv

\* stop keeps the types.
LEMMA TypeStop ==
    ASSUME TypeInv, stop_tcp \/ stop_local \/ stop_udp
    PROVE  TypeInv'
<1>1. sending_blocked_' = TRUE /\ faults < MaxFaults /\ faults' = faults + 1
  BY Zenon DEF stop_tcp, stop_local, stop_udp, close_all, CanStop
<1>2. TypeControl'
  <2>1. faults' \in 0 .. MaxFaults
    BY <1>1, Bounds DEF TypeInv, TypeControl
  <2> QED BY <1>1, <2>1, Zenon DEF TypeInv, TypeControl, stop_tcp, stop_local, stop_udp, close_all, CanStop
<1>3. CASE close_all
  <2> DEFINE conns == UNION {connections_[t] : t \in Targets}
  <2>1. TypeNetwork /\ sockets \in Seq(Socket)
    BY Zenon DEF TypeInv, TypeNetwork
  <2>2. ASSUME NEW s \in Socket PROVE [s EXCEPT !.state = "closed"] \in Socket
    BY Zenon DEF Socket
  <2>3. sockets' = [c \in DOMAIN sockets |->
               IF c \in conns THEN [sockets[c] EXCEPT !.state = "closed"] ELSE sockets[c]]
        /\ connections_' = [t \in Targets |-> {}] /\ UNCHANGED accepting
    BY <1>3, Zenon DEF close_all
  <2> HIDE DEF conns
  <2>4. sockets' \in Seq(Socket) /\ Len(sockets') = Len(sockets)
    BY <2>1, <2>2, <2>3
  <2>5. TypeNetwork'
    BY <2>1, <2>3, <2>4, Zenon DEF TypeNetwork, Socket
  <2>6. TypeBuffers'
    BY <1>3, TypeAborted, Zenon DEF close_all, Result
  <2> QED BY <1>2, <1>3, <2>5, <2>6, TypeUnchanged DEF close_all, TypeInv
<1>4. CASE stop_udp
  <2>1. TypeBuffers'
    BY <1>4, TypeAborted, Zenon DEF stop_udp, Result
  <2> QED BY <1>2, <1>4, <2>1, TypeUnchanged, Zenon DEF stop_udp, TypeInv
<1> QED BY <1>3, <1>4, Zenon DEF stop_tcp, stop_local

\* Every step keeps the types.
LEMMA TypeNext == TypeInv /\ [Next]_vars => TypeInv'
<1> SUFFICES ASSUME TypeInv, [Next]_vars PROVE TypeInv'
  BY Zenon
<1>1. CASE UNCHANGED vars
  BY <1>1, TypeUnchanged, Zenon DEF vars, TypeInv
<1>2. CASE Next
  BY <1>2, TypeSend, TypeFlush, TypeWriteDone, TypeCompletion, TypeSendCbk, TypeAccept,
     TypeLost, TypeRequest, TypeDefaultTarget, TypeStop DEF Next
<1> QED BY <1>1, <1>2, Zenon

-----------------------------------------------------------------------------
(* Connections *)

\* No connection is open initially.
LEMMA ConnectionsInit == Init => ConnectionsInv
BY DEF Init, ConnectionsInv, OpenIsRegistered

\* Steps that open no connection keep the table of connections exact.
LEMMA NothingOpensKeeps ==
    ASSUME TypeInv, ConnectionsInv, NothingOpens, UNCHANGED accepting
    PROVE  ConnectionsInv'
<1>1. ASSUME NEW c \in DOMAIN sockets
      PROVE  /\ sockets'[c].target = sockets[c].target
             /\ sockets'[c].state = "open" => sockets[c].state = "open"
             /\ sockets[c] \in Socket /\ sockets'[c] \in Socket
             /\ sockets'[c].state = "open" =>
                   \A t \in Targets : connections_[t] = {c} => connections_'[t] = {c}
  <2>1. StaysOrCloses(c)
    BY Zenon DEF NothingOpens
  <2> QED BY <2>1, Zenon DEF StaysOrCloses
<1>2. DOMAIN sockets' = DOMAIN sockets /\ Len(sockets') = Len(sockets) /\ proto' = proto
      /\ \A t \in Targets : connections_'[t] \subseteq connections_[t]
  BY Zenon DEF NothingOpens
<1>3. OpenIsRegistered'
  <2> SUFFICES ASSUME NEW c \in DOMAIN sockets, sockets'[c].state = "open",
                      proto = "local" => c = Len(sockets)
               PROVE  connections_'[sockets'[c].target] = {c}
    BY <1>2, Zenon DEF OpenIsRegistered
  <2>1. sockets[c].target \in Targets
    BY <1>1, Zenon DEF Socket
  <2>2. connections_[sockets[c].target] = {c}
    BY <1>1, Zenon DEF ConnectionsInv, OpenIsRegistered
  <2> QED BY <1>1, <2>1, <2>2
<1>4. ASSUME proto' = "tcp", NEW t \in accepting' PROVE Open(t)' = {}
  <2>1. Open(t) = {}
    BY <1>2, <1>4, Zenon DEF ConnectionsInv
  <2> SUFFICES ASSUME NEW c \in DOMAIN sockets, sockets'[c] = [target |-> t, state |-> "open"]
               PROVE  FALSE
    BY <1>2, Zenon DEF Open
  <2>2. sockets[c].target = t /\ sockets[c].state = "open" /\ sockets[c] \in Socket
    BY <1>1
  <2>3. sockets[c] = [target |-> t, state |-> "open"]
    BY <2>2, Zenon DEF Socket
  <2> QED BY <2>1, <2>3, Zenon DEF Open
<1>5. ASSUME NEW t \in Targets, NEW c \in connections_'[t] PROVE sockets'[c].target = t
  <2>1. c \in connections_[t] /\ c \in DOMAIN sockets
    BY <1>2, Zenon DEF TypeInv, TypeNetwork
  <2> QED BY <1>1, <2>1, Zenon DEF ConnectionsInv
<1> QED BY <1>3, <1>4, <1>5, Zenon DEF ConnectionsInv

\* Leaving the sockets alone opens none.
LEMMA UnchangedOpens ==
    ASSUME TypeInv, UNCHANGED <<sockets, connections_, proto>>
    PROVE  NothingOpens
BY DEF NothingOpens, StaysOrCloses, TypeInv, TypeNetwork

\* remove_connection opens none.
LEMMA RemoveOpens ==
    ASSUME TypeInv, TypeInv', NEW c, stop_and_remove_connection(c), UNCHANGED proto
    PROVE  NothingOpens
<1>1. sockets \in Seq(Socket) /\ sockets' \in Seq(Socket)
      /\ sockets' = [sockets EXCEPT ![c].state = "closed"]
      /\ connections_' = [t \in Targets |-> connections_[t] \ {c}]
  BY Zenon DEF TypeInv, TypeNetwork, stop_and_remove_connection, close, remove_connection
<1>2. DOMAIN sockets' = DOMAIN sockets /\ Len(sockets') = Len(sockets)
  BY <1>1
<1>3. ASSUME NEW d \in DOMAIN sockets
      PROVE  /\ sockets'[d].target = sockets[d].target
             /\ sockets'[d].state = "open" => sockets[d].state = "open" /\ d # c
             /\ sockets[d] \in Socket /\ sockets'[d] \in Socket
  <2>1. sockets[d] \in Socket /\ sockets'[d] \in Socket
    BY <1>1, <1>2
  <2>2. CASE d = c
    <3>1. sockets'[d] = [sockets[d] EXCEPT !.state = "closed"]
      BY <1>1, <2>2, Zenon
    <3> QED BY <2>1, <3>1, Zenon DEF Socket
  <2>3. CASE d # c
    BY <1>1, <2>1, <2>3, Zenon
  <2> QED BY <2>2, <2>3, Zenon
<1>4. \A d \in DOMAIN sockets : StaysOrCloses(d)
  BY <1>1, <1>3, Zenon DEF StaysOrCloses
<1> QED BY <1>1, <1>2, <1>4, Zenon DEF NothingOpens

\* Losing a connection opens none.
LEMMA LostOpens ==
    ASSUME TypeInv, TypeInv', NEW c \in DOMAIN sockets, ConnectionLost(c)
    PROVE  NothingOpens
<1>1. sockets \in Seq(Socket) /\ sockets' \in Seq(Socket)
      /\ sockets' = [sockets EXCEPT ![c].state = "lost"]
      /\ UNCHANGED <<proto, connections_>>
  BY Zenon DEF TypeInv, TypeNetwork, ConnectionLost
<1>2. DOMAIN sockets' = DOMAIN sockets /\ Len(sockets') = Len(sockets)
  BY <1>1
<1>3. ASSUME NEW d \in DOMAIN sockets
      PROVE  /\ sockets'[d].target = sockets[d].target
             /\ sockets'[d].state = "open" => sockets[d].state = "open"
             /\ sockets[d] \in Socket /\ sockets'[d] \in Socket
  <2>1. sockets[d] \in Socket /\ sockets'[d] \in Socket
    BY <1>1, <1>2
  <2>2. CASE d = c
    <3>1. sockets'[d] = [sockets[d] EXCEPT !.state = "lost"]
      BY <1>1, <2>2, Zenon
    <3> QED BY <2>1, <3>1, Zenon DEF Socket
  <2>3. CASE d # c
    BY <1>1, <2>1, <2>3, Zenon
  <2> QED BY <2>2, <2>3, Zenon
<1>4. \A d \in DOMAIN sockets : StaysOrCloses(d)
  BY <1>1, <1>3, Zenon DEF StaysOrCloses
<1> QED BY <1>1, <1>2, <1>4, Zenon DEF NothingOpens

\* A connection is registered when it is accepted.
LEMMA ConnectionsAccept ==
    ASSUME TypeInv, TypeInv', ConnectionsInv, NEW t \in Targets,
           AcceptCompletes(t) \/ accept_cbk_tcp(t) \/ accept_cbk_local(t)
    PROVE  ConnectionsInv'
<1>1. CASE AcceptCompletes(t)
  BY <1>1, Zenon DEF AcceptCompletes, ConnectionsInv, OpenIsRegistered, Open
<1>2. CASE UNCHANGED <<proto, sockets, connections_>> /\ accepting' = {}
  BY <1>2, Zenon DEF ConnectionsInv, OpenIsRegistered, Open
<1>3. CASE /\ sockets' = Append(sockets, [target |-> t, state |-> "open"])
           /\ Registered(t) /\ accepting' = {} /\ t \in accepting /\ UNCHANGED proto
           /\ proto \in {"tcp", "local"}
  <2> DEFINE n == Len(sockets) + 1
  <2>1. sockets \in Seq(Socket) /\ sockets' \in Seq(Socket) /\ Len(sockets) \in Nat
        /\ connections_ \in [Targets -> SUBSET (1 .. Len(sockets))]
    BY DEF TypeInv, TypeNetwork
  <2>2. /\ DOMAIN sockets' = 1 .. n /\ Len(sockets') = n /\ sockets'[n].target = t
        /\ DOMAIN sockets = 1 .. Len(sockets)
        /\ \A c \in 1 .. Len(sockets) : sockets'[c] = sockets[c] /\ sockets[c] \in Socket
    BY <1>3, <2>1
  <2>3. \A d \in Targets : connections_'[d] = IF d = t THEN {n} ELSE connections_[d]
    BY <1>3, <2>1, Zenon DEF Registered
  <2>4. OpenIsRegistered'
    <3> SUFFICES ASSUME NEW c \in 1 .. n, sockets'[c].state = "open",
                        proto = "local" => c = n
                 PROVE  connections_'[sockets'[c].target] = {c}
      BY <1>3, <2>2, Zenon DEF OpenIsRegistered
    <3>1. CASE c = n
      BY <2>2, <2>3, <3>1
    <3>2. CASE c # n
      <4>1. c \in 1 .. Len(sockets) /\ proto = "tcp"
        BY <1>3, <2>1, <3>2
      <4>2. sockets'[c] = sockets[c] /\ sockets[c].state = "open" /\ sockets[c] \in Socket
            /\ sockets[c].target \in Targets
        BY <2>2, <4>1, Zenon DEF Socket
      <4>3. connections_[sockets[c].target] = {c}
        BY <2>2, <4>1, <4>2, Zenon DEF ConnectionsInv, OpenIsRegistered
      <4>4. sockets[c].target # t
        <5>1. Open(t) = {}
          BY <1>3, <4>1, Zenon DEF ConnectionsInv
        <5>2. sockets[c].target = t => sockets[c] = [target |-> t, state |-> "open"]
          BY <4>2, Zenon DEF Socket
        <5> QED BY <2>2, <4>1, <5>1, <5>2, Zenon DEF Open
      <4> QED BY <2>3, <4>2, <4>3, <4>4
    <3> QED BY <3>1, <3>2
  <2>5. ASSUME NEW d \in Targets, NEW c \in connections_'[d] PROVE sockets'[c].target = d
    <3>1. CASE d = t
      BY <2>2, <2>3, <3>1
    <3>2. CASE d # t
      <4>1. c \in connections_[d] /\ c \in 1 .. Len(sockets)
        BY <2>1, <2>3, <3>2, Zenon
      <4> QED BY <2>2, <4>1, Zenon DEF ConnectionsInv
    <3> QED BY <3>1, <3>2, Zenon
  <2> QED BY <1>3, <2>4, <2>5, Zenon DEF ConnectionsInv
<1> QED BY <1>1, <1>2, <1>3, Zenon DEF accept_cbk_tcp, accept_cbk_local, Accepted

\* stop closes all that are registered.
LEMMA CloseAllOpens ==
    ASSUME TypeInv, TypeInv', close_all
    PROVE  NothingOpens
<1> DEFINE conns == UNION {connections_[t] : t \in Targets}
<1>1. sockets \in Seq(Socket) /\ sockets' \in Seq(Socket)
      /\ sockets' = [c \in DOMAIN sockets |->
               IF c \in conns THEN [sockets[c] EXCEPT !.state = "closed"] ELSE sockets[c]]
      /\ connections_' = [t \in Targets |-> {}] /\ UNCHANGED proto
  BY Zenon DEF TypeInv, TypeNetwork, close_all
<1>2. \A t \in Targets : connections_[t] \subseteq conns
  BY Zenon
<1> HIDE DEF conns
<1>3. DOMAIN sockets' = DOMAIN sockets /\ Len(sockets') = Len(sockets)
  BY <1>1
<1>4. ASSUME NEW d \in DOMAIN sockets
      PROVE  /\ sockets'[d].target = sockets[d].target
             /\ sockets'[d].state = "open" => sockets[d].state = "open" /\ d \notin conns
             /\ sockets[d] \in Socket /\ sockets'[d] \in Socket
  <2>1. sockets[d] \in Socket /\ sockets'[d] \in Socket
    <3>1. sockets \in Seq(Socket) /\ sockets' \in Seq(Socket)
      BY <1>1, Zenon
    <3>2. d \in DOMAIN sockets'
      BY <1>3, Zenon
    <3> QED BY ONLY <3>1, <3>2
  <2>2. CASE d \in conns
    <3>1. sockets'[d] = [sockets[d] EXCEPT !.state = "closed"]
      BY <1>1, <2>2, Zenon
    <3> QED BY <2>1, <3>1, Zenon DEF Socket
  <2>3. CASE d \notin conns
    BY <1>1, <2>1, <2>3, Zenon
  <2> QED BY <2>2, <2>3, Zenon
<1>5. \A d \in DOMAIN sockets : StaysOrCloses(d)
  BY <1>2, <1>4, Zenon DEF StaysOrCloses
<1> QED BY <1>1, <1>3, <1>5, Zenon DEF NothingOpens

\* Every step keeps the table of connections exact.
LEMMA ConnectionsNext ==
    ASSUME TypeInv, TypeInv', ConnectionsInv, [Next]_vars
    PROVE  ConnectionsInv'
<1>1. CASE UNCHANGED <<sockets, connections_, proto, accepting>>
  BY <1>1, UnchangedOpens, NothingOpensKeeps, Zenon
<1>2. ASSUME NEW i \in DOMAIN writes, write_completion_condition(i)
      PROVE  ConnectionsInv'
  BY <1>2, RemoveOpens, NothingOpensKeeps DEF write_completion_condition
<1>3. ASSUME NEW c \in DOMAIN sockets, ConnectionLost(c) \/ receive_cbk_error(c)
      PROVE  ConnectionsInv'
  BY <1>3, LostOpens, RemoveOpens, NothingOpensKeeps DEF ConnectionLost, receive_cbk_error
<1>4. CASE stop_tcp \/ stop_local
  BY <1>4, CloseAllOpens, NothingOpensKeeps, Zenon DEF stop_tcp, stop_local, close_all
<1>5. CASE UNCHANGED vars
  BY <1>1, <1>5, Zenon DEF vars
<1>6. ASSUME NEW t \in Targets, NEW session, NEW _size, NEW _flush,
             send_to(t, _size, _flush) \/ send(t, session, _size, _flush)
      PROVE  ConnectionsInv'
  BY <1>1, <1>6, Zenon DEF send_to, send
<1>7. CASE flush_cbk \/ stop_udp
  BY <1>1, <1>7, Zenon DEF flush_cbk, stop_udp
<1>8. ASSUME NEW i \in DOMAIN writes, WriteDone(i) \/ WriteError(i) \/ send_cbk(i)
      PROVE  ConnectionsInv'
  BY <1>1, <1>8, Zenon DEF WriteDone, WriteError, send_cbk
<1>9. ASSUME NEW t \in Targets,
             receive_cbk_tcp(t) \/ receive_cbk_udp(t) \/ add_default_target(t)
      PROVE  ConnectionsInv'
  BY <1>1, <1>9, Zenon DEF receive_cbk_tcp, receive_cbk_udp, RecordRequest, add_default_target
<1> QED BY <1>2, <1>3, <1>4, <1>5, <1>6, <1>7, <1>8, <1>9, ConnectionsAccept DEF Next

-----------------------------------------------------------------------------
(* Requests *)

\* No request is answered initially.
LEMMA RequestsInit == Init => AnsweredAtMostOnce
BY DEF Init, AnsweredAtMostOnce

\* Every step keeps the requests and the responses apart.
LEMMA RequestsNext ==
    ASSUME TypeInv, AnsweredAtMostOnce, [Next]_vars
    PROVE  AnsweredAtMostOnce'
<1>1. TypeRequests
  BY Zenon DEF TypeInv
<1>3. CASE UNCHANGED <<clients_, requests, responses>>
  BY <1>3, Zenon DEF AnsweredAtMostOnce
<1>4. ASSUME NEW t \in Targets, RecordRequest(t) PROVE AnsweredAtMostOnce'
  <2> DEFINE old == clients_[t].sessions
             n == requests[t] + 1
             new == old \cup {n}
  <2>1. /\ requests[t] \in Nat
        /\ responses[t] \cap old = {} /\ responses[t] \cup old = 1 .. requests[t]
    BY <1>1 DEF TypeRequests, AnsweredAtMostOnce
  <2>2. /\ requests' = [requests EXCEPT ![t] = n] /\ UNCHANGED responses
        /\ clients_' = [clients_ EXCEPT ![t] = [known |-> TRUE, sessions |-> new]]
    BY <1>4, Zenon DEF RecordRequest
  <2>3. clients_'[t].sessions = new /\ requests'[t] = n
        /\ \A d \in Targets : d # t => clients_'[d] = clients_[d] /\ requests'[d] = requests[d]
    BY <1>1, <2>2, Zenon DEF TypeRequests
  <2>4. responses[t] \cap new = {} /\ responses[t] \cup new = 1 .. n
    BY <2>1
  <2> QED BY <2>2, <2>3, <2>4, Zenon DEF AnsweredAtMostOnce
<1>5. ASSUME NEW t \in Targets, NEW session \in clients_[t].sessions, TakeSession(t, session),
             responses' = [responses EXCEPT ![t] = @ \cup {session}], UNCHANGED requests
      PROVE  AnsweredAtMostOnce'
  <2> DEFINE old == clients_[t].sessions
             new == old \ {session}
  <2>1. responses[t] \cap old = {} /\ responses[t] \cup old = 1 .. requests[t]
    BY Zenon DEF AnsweredAtMostOnce
  <2>2. clients_' = [clients_ EXCEPT ![t].sessions = new]
    BY <1>5, Zenon DEF TakeSession
  <2>3. clients_'[t].sessions = new /\ responses'[t] = responses[t] \cup {session}
        /\ \A d \in Targets : d # t => clients_'[d] = clients_[d] /\ responses'[d] = responses[d]
    BY <1>1, <1>5, <2>2, Zenon DEF TypeRequests
  <2>4. /\ (responses[t] \cup {session}) \cap new = {}
        /\ (responses[t] \cup {session}) \cup new = 1 .. requests[t]
    BY <1>5, <2>1, Zenon
  <2> QED BY <1>5, <2>3, <2>4, Zenon DEF AnsweredAtMostOnce
<1>6. CASE UNCHANGED vars
  BY <1>3, <1>6, Zenon DEF vars
<1>7. ASSUME NEW t \in Targets, NEW session, NEW _size, NEW _flush,
             send_to(t, _size, _flush) \/ send(t, session, _size, _flush)
      PROVE  AnsweredAtMostOnce'
  BY <1>3, <1>5, <1>7, Zenon DEF send_to, send
<1>8. CASE flush_cbk \/ stop_udp \/ stop_tcp \/ stop_local
  BY <1>3, <1>8, Zenon DEF flush_cbk, stop_udp, stop_tcp, stop_local, close_all
<1>9. ASSUME NEW i \in DOMAIN writes, \/ WriteDone(i) \/ WriteError(i)
                                      \/ write_completion_condition(i) \/ send_cbk(i)
      PROVE  AnsweredAtMostOnce'
  BY <1>3, <1>9, Zenon DEF WriteDone, WriteError, write_completion_condition, send_cbk
<1>10. ASSUME NEW c \in DOMAIN sockets, ConnectionLost(c) \/ receive_cbk_error(c)
       PROVE  AnsweredAtMostOnce'
  BY <1>3, <1>10, Zenon DEF ConnectionLost, receive_cbk_error
<1>11. ASSUME NEW t \in Targets,
              \/ AcceptCompletes(t) \/ accept_cbk_tcp(t) \/ accept_cbk_local(t)
              \/ add_default_target(t)
       PROVE  AnsweredAtMostOnce'
  BY <1>3, <1>11, Zenon DEF AcceptCompletes, accept_cbk_tcp, accept_cbk_local, Accepted,
                     add_default_target
<1> QED BY <1>4, <1>6, <1>7, <1>8, <1>9, <1>10, <1>11, Zenon
        DEF Next, receive_cbk_tcp, receive_cbk_udp

\* The tables' inductive invariant holds always.
LEMMA TablesInvariant == Spec => []TablesInv
<1>1. Init => TablesInv
  BY TypeInit, ConnectionsInit, RequestsInit, Zenon DEF TablesInv
<1>2. TablesInv /\ [Next]_vars => TablesInv'
  BY TypeNext, ConnectionsNext, RequestsNext, Zenon DEF TablesInv
<1> QED BY <1>1, <1>2, PTL DEF Spec

\* Whatever fails, is dropped or comes back late: the size kept with a queue is
\* what the queue holds, an open connection is the one registered for its
\* target, every request is answered at most once (send_intern, send_cbk,
\* connection::send_queued, remove_connection, accept_cbk, send).
THEOREM TablesAreExact == Spec => []TablesExact
<1>1. TablesInv => TablesExact
  BY TypeInvImplies, Zenon DEF TablesInv, TablesExact, ConnectionsInv
<1> QED BY <1>1, TablesInvariant, PTL
-----------------------------------------------------------------------------
(* One write per queue *)

\* send_queued drops the queue or writes its front.
LEMMA SendQueuedCases ==
    ASSUME TypeInv, NEW t \in Targets, NEW q \in Queue, q.bufs # <<>>,
           NEW ws \in Seq(Write), send_queued(t, q, ws)
    PROVE  QueueDropped(t, ws) \/ AFrontWritten(t, q, ws)
<1>1. connections_[t] \subseteq 1 .. MaxConnections /\ 0 \in 0 .. MaxConnections
  <2>1. connections_[t] \subseteq DOMAIN sockets
    BY DEF TypeInv, TypeBuffers, TypeNetwork
  <2>2. DOMAIN sockets = 1 .. Len(sockets) /\ Len(sockets) \in Nat
    BY DEF TypeInv, TypeBuffers, TypeNetwork
  <2>3. Len(sockets) <= MaxConnections /\ MaxConnections \in Nat
    BY Bounds DEF TypeInv, TypeNetwork
  <2> QED BY <2>1, <2>2, <2>3
<1>2. Head(q.bufs) \in Buffer /\ q.bufs \in Seq(Buffer)
  BY QueueParts
<1>3. CASE proto = "udp" /\ send_queued_udp(t, q, ws)
  <2> DEFINE res == IF sending_blocked_ THEN "error" ELSE "pending"
  <2>1. res \in Result
    BY Zenon DEF Result
  <2>2. SameButFront(q, q, Head(q.bufs))
    BY <1>2, Zenon DEF SameButFront
  <2>3. FrontWritten(t, q, ws, q, Head(q.bufs), 0, res)
    BY <1>3, <2>2, Zenon DEF send_queued_udp, FrontWritten
  <2> QED BY <1>1, <1>2, <2>1, <2>3, Zenon DEF AFrontWritten
<1>4. CASE send_queued_tcp(t, q, ws) /\ connections_[t] = {}
  BY <1>4, Zenon DEF send_queued_tcp, QueueDropped
<1>5. ASSUME proto = "tcp", NEW c \in connections_[t], connection_send_queued(t, q, c, ws)
      PROVE  AFrontWritten(t, q, ws)
  <2> DEFINE res == IF sockets[c].state = "open" THEN "pending" ELSE "failed"
             r(b) == [size |-> q.size + BufferSize(b) - BufferSize(Head(q.bufs)),
                      bufs |-> [q.bufs EXCEPT ![1] = b]]
  <2>1. PICK b \in {Head(q.bufs), send_magic_cookie(Head(q.bufs))} :
           /\ queues_' = [queues_ EXCEPT ![t] = r(b)]
           /\ Started(ws, t, c, b, res)
           /\ UNCHANGED dropped
    BY <1>5, Zenon DEF connection_send_queued
  <2>2. b \in Buffer /\ c \in 0 .. MaxConnections /\ Ids(b) = Ids(Head(q.bufs))
    BY <1>1, <1>2, CookieBuffer
  <2>3. res \in Result /\ (res = "pending" => sockets[c].state = "open")
    BY Zenon DEF Result
  <2>4. r(b) \in Queue
    BY <2>2, QueueFront, Zenon
  <2>5. SameButFront(q, r(b), b)
    <3>1. [q.bufs EXCEPT ![1] = b] \in Seq(Buffer) /\ [q.bufs EXCEPT ![1] = b] # <<>>
          /\ Head([q.bufs EXCEPT ![1] = b]) = b /\ Len([q.bufs EXCEPT ![1] = b]) = Len(q.bufs)
          /\ \A k \in 2 .. Len(q.bufs) : [q.bufs EXCEPT ![1] = b][k] = q.bufs[k]
      <4>1. [q.bufs EXCEPT ![1] = b] \in Seq(Buffer) /\ Len([q.bufs EXCEPT ![1] = b]) = Len(q.bufs)
            /\ [q.bufs EXCEPT ![1] = b][1] = b
            /\ \A k \in 2 .. Len(q.bufs) : [q.bufs EXCEPT ![1] = b][k] = q.bufs[k]
        BY <1>2, <2>2
      <4> QED BY <1>2, <4>1
    <3> QED BY <2>2, <2>4, <3>1, Zenon DEF SameButFront
  <2> HIDE DEF res, r
  <2>6. FrontWritten(t, q, ws, r(b), b, c, res)
    BY <1>5, <2>1, <2>3, <2>5, Zenon DEF FrontWritten
  <2> QED BY <2>2, <2>3, <2>4, <2>6, Zenon DEF AFrontWritten
<1> QED BY <1>3, <1>4, <1>5, Zenon DEF send_queued, send_queued_tcp

\* Taking the only live write out leaves none.
LEMMA NoneOfRemove ==
    ASSUME NEW ws \in Seq(Write), NEW i \in DOMAIN ws, NEW t
    PROVE  /\ NoneOf(ws, t) => NoneOf(RemoveAt(ws, i), t)
           /\ \A b, g : JustOne(ws, t, b, g) /\ ws[i].target = t => NoneOf(RemoveAt(ws, i), t)
<1>1. \A j \in DOMAIN RemoveAt(ws, i) : \E k \in DOMAIN ws : k # i /\ RemoveAt(ws, i)[j] = ws[k]
  <2> TAKE j \in DOMAIN RemoveAt(ws, i)
  <2>1. j \in 1 .. Len(ws) - 1 /\ RemoveAt(ws, i)[j] = IF j < i THEN ws[j] ELSE ws[j + 1]
    BY WritesRemove, Zenon
  <2>2. CASE j < i
    <3>1. j \in DOMAIN ws /\ j # i
      BY <2>1, <2>2
    <3> QED BY <2>1, <2>2, <3>1, Zenon
  <2>3. CASE ~(j < i)
    <3>1. j + 1 \in DOMAIN ws /\ j + 1 # i
      BY <2>1, <2>3
    <3> QED BY <2>1, <2>3, <3>1, Zenon
  <2> QED BY <2>2, <2>3, Zenon
<1> QED BY <1>1, Zenon DEF NoneOf, JustOne

\* Taking another target's write out leaves the live one.
LEMMA JustOneRemove ==
    ASSUME NEW ws \in Seq(Write), NEW i \in DOMAIN ws, NEW t, ws[i].target # t,
           NEW b, NEW g, JustOne(ws, t, b, g)
    PROVE  JustOne(RemoveAt(ws, i), t, b, g)
<1> DEFINE vs == RemoveAt(ws, i)
<1>1. PICK k \in DOMAIN ws :
         /\ ws[k].target = t /\ ws[k].gen = g /\ ws[k].buffer = b
         /\ \A j \in DOMAIN ws : ws[j].target = t => j = k
  BY Zenon DEF JustOne
<1>2. DOMAIN vs = 1 .. Len(ws) - 1 /\ Len(ws) \in Nat /\ DOMAIN ws = 1 .. Len(ws)
      /\ \A j \in 1 .. Len(ws) - 1 : vs[j] = IF j < i THEN ws[j] ELSE ws[j + 1]
  BY WritesRemove
<1> HIDE DEF vs
<1> DEFINE m == IF k < i THEN k ELSE k - 1
<1>3. k # i
  BY <1>1, Zenon
<1>4. m \in DOMAIN vs /\ vs[m] = ws[k]
  BY <1>2, <1>3
<1>5. ASSUME NEW j \in DOMAIN vs, vs[j].target = t PROVE j = m
  <2>1. CASE j < i
    <3>1. vs[j] = ws[j] /\ j \in DOMAIN ws
      BY <1>2, <2>1
    <3>2. j = k
      BY <1>1, <1>5, <3>1, Zenon
    <3> QED BY <2>1, <3>2, Zenon
  <2>2. CASE ~(j < i)
    <3>1. vs[j] = ws[j + 1] /\ j + 1 \in DOMAIN ws
      BY <1>2, <2>2
    <3>2. j + 1 = k
      BY <1>1, <1>5, <3>1, Zenon
    <3> QED BY <1>2, <2>2, <3>2
  <2> QED BY <2>1, <2>2, Zenon
<1> QED BY <1>1, <1>4, <1>5, Zenon DEF JustOne, vs

\* A write started for target d, seen from target t.
LEMMA StartedOne ==
    ASSUME NEW ws \in Seq(Write), NEW d \in Targets, NEW c, NEW b, NEW res, NEW t,
           Started(ws, d, c, b, res)
    PROVE  /\ d # t /\ NoneOf(ws, t) => NoneOf(writes', t)
           /\ \A e, g : d # t /\ JustOne(ws, t, e, g) => JustOne(writes', t, e, g)
           /\ d = t /\ NoneOf(ws, t) => JustOne(writes', t, b, dropped[t])
<1> DEFINE w == [target |-> d, gen |-> dropped[d], conn |-> c, buffer |-> b, res |-> res]
<1>1. writes' = Append(ws, w) /\ w.target = d /\ w.gen = dropped[d] /\ w.buffer = b
  BY Zenon DEF Started
<1> HIDE DEF w
<1>2. DOMAIN writes' = 1 .. Len(ws) + 1 /\ DOMAIN ws = 1 .. Len(ws) /\ Len(ws) \in Nat
      /\ writes'[Len(ws) + 1] = w /\ \A j \in 1 .. Len(ws) : writes'[j] = ws[j]
  BY <1>1
<1>3. \A j \in DOMAIN writes' : j = Len(ws) + 1 \/ j \in DOMAIN ws
  BY <1>2
<1>4. d # t /\ NoneOf(ws, t) => NoneOf(writes', t)
  BY <1>1, <1>2, <1>3, Zenon DEF NoneOf
<1>5. ASSUME NEW e, NEW g, d # t, JustOne(ws, t, e, g) PROVE JustOne(writes', t, e, g)
  <2>1. PICK k \in DOMAIN ws :
           /\ ws[k].target = t /\ ws[k].gen = g /\ ws[k].buffer = e
           /\ \A j \in DOMAIN ws : ws[j].target = t => j = k
    BY <1>5, Zenon DEF JustOne
  <2>2. k \in DOMAIN writes' /\ writes'[k] = ws[k]
    BY <1>2
  <2>3. \A j \in DOMAIN writes' : writes'[j].target = t => j = k
    BY <1>1, <1>2, <1>3, <1>5, <2>1, Zenon
  <2> QED BY <2>1, <2>2, <2>3, Zenon DEF JustOne
<1>6. ASSUME d = t, NoneOf(ws, t) PROVE JustOne(writes', t, b, dropped[t])
  <2>1. Len(ws) + 1 \in DOMAIN writes'
    BY <1>2
  <2>2. \A j \in DOMAIN writes' : writes'[j].target = t => j = Len(ws) + 1
    BY <1>2, <1>3, <1>6, Zenon DEF NoneOf
  <2> QED BY <1>1, <1>2, <1>6, <2>1, <2>2, Zenon DEF JustOne
<1> QED BY <1>4, <1>5, <1>6, Zenon

\* A result keeps the live writes.
LEMMA SettledOne ==
    ASSUME NEW ws \in Seq(Write), NEW vs, Settled(ws, vs), NEW t
    PROVE  /\ NoneOf(ws, t) => NoneOf(vs, t)
           /\ \A b, g : JustOne(ws, t, b, g) => JustOne(vs, t, b, g)
<1>1. DOMAIN vs = DOMAIN ws /\ DOMAIN ws = 1 .. Len(ws)
  BY DEF Settled
<1>2. \A i \in DOMAIN ws : vs[i].target = ws[i].target /\ vs[i].gen = ws[i].gen
                           /\ vs[i].buffer = ws[i].buffer
  BY <1>1, Zenon DEF Settled
<1>3. NoneOf(ws, t) => NoneOf(vs, t)
  BY <1>1, <1>2, Zenon DEF NoneOf
<1>4. ASSUME NEW b, NEW g, JustOne(ws, t, b, g) PROVE JustOne(vs, t, b, g)
  <2>1. PICK k \in DOMAIN ws :
           /\ ws[k].target = t /\ ws[k].gen = g /\ ws[k].buffer = b
           /\ \A j \in DOMAIN ws : ws[j].target = t => j = k
    BY <1>4, Zenon DEF JustOne
  <2>2. k \in DOMAIN vs /\ vs[k].target = t /\ vs[k].gen = g /\ vs[k].buffer = b
    BY <1>1, <1>2, <2>1, Zenon
  <2>3. \A j \in DOMAIN vs : vs[j].target = t => j = k
    BY <1>1, <1>2, <2>1, Zenon
  <2> QED BY <2>2, <2>3, Zenon DEF JustOne
<1> QED BY <1>3, <1>4, Zenon

\* Aborting the writes of a connection only gives results.
LEMMA AbortedResults ==
    ASSUME TypeInv, NEW conns, NEW res \in Result \ {"pending"}, writes' = Aborted(conns, res),
           UNCHANGED <<packetizer_, queues_, dropped, accepted, wire, stuck, repeated, undefined>>
    PROVE  Results
<1>1. writes \in Seq(Write)
  BY Zenon DEF TypeInv, TypeBuffers
<1>2. Settled(writes, writes') /\ \A i \in DOMAIN writes : writes[i].res = "ok" => writes'[i].res = "ok"
  BY <1>1, AbortedSettles
<1> QED BY <1>2, Zenon DEF Results

\* So does a completion condition.
LEMMA CompletionResults ==
    ASSUME TypeInv, NEW i \in DOMAIN writes, write_completion_condition(i)
    PROVE  Results
<1> DEFINE vs == Aborted({writes[i].conn}, "failed")
<1>1. writes \in Seq(Write) /\ "failed" \in Result \ {"pending"} /\ "error" \in Result \ {"pending"}
  BY DEF TypeInv, TypeBuffers, Result
<1>2. Settled(writes, vs) /\ \A j \in DOMAIN writes : writes[j].res # "pending" => vs[j].res = writes[j].res
  BY <1>1, AbortedSettles
<1>3. writes' = [vs EXCEPT ![i].res = "error"] /\ writes[i].res = "failed"
  BY Zenon DEF write_completion_condition
<1> HIDE DEF vs
<1>4. vs \in Seq(Write) /\ DOMAIN vs = DOMAIN writes /\ Len(vs) = Len(writes)
      /\ DOMAIN writes = 1 .. Len(writes)
  BY <1>1, <1>2 DEF Settled
<1>5. Settled(vs, writes') /\ \A j \in DOMAIN vs : j # i => writes'[j] = vs[j]
  BY <1>1, <1>3, <1>4, SetResult, Zenon
<1>6. Settled(writes, writes')
  BY <1>2, <1>4, <1>5 DEF Settled
<1>7. \A j \in DOMAIN writes : writes[j].res = "ok" => writes'[j].res = "ok"
  BY <1>2, <1>3, <1>4, <1>5, Zenon
<1> QED BY <1>6, <1>7, Zenon DEF Results, write_completion_condition

\* What a step does to queues, writes and wire is one of a few things.
LEMMA BufferSteps == ASSUME TypeInv, [Next]_vars PROVE BufferStep
<1>1. ASSUME UNCHANGED <<packetizer_, queues_, writes, dropped, accepted, wire, stuck, repeated,
                         undefined>>
      PROVE  Results
  <2>1. writes \in Seq(Write)
    BY Zenon DEF TypeInv, TypeBuffers
  <2>2. Settled(writes, writes')
    BY <1>1, <2>1, Zenon DEF Settled
  <2> QED BY <1>1, <2>2, Zenon DEF Results
<1>2. CASE UNCHANGED vars
  BY <1>1, <1>2, Zenon DEF vars, BufferStep
<1>3. ASSUME NEW t \in Targets, NEW session, NEW _size \in Sizes, NEW _flush \in BOOLEAN,
             send_to(t, _size, _flush) \/ send(t, session, _size, _flush)
      PROVE  BufferStep
  <2>1. \E d \in Targets : send_intern(d, _size, _flush)
    BY <1>3, Zenon DEF send_to, send, TypeInv, TypeControl, AtMostOne
  <2>2. UNCHANGED <<wire, repeated, undefined>>
    BY <1>3, Zenon DEF send_to, send
  <2> QED BY <2>1, <2>2, Zenon DEF BufferStep, Sending
<1>4. CASE flush_cbk
  <2>1. PICK t \in Targets : flush(t)
    BY <1>4, Zenon DEF flush_cbk, TypeInv, TypeControl, AtMostOne
  <2> QED BY <1>4, <2>1, Zenon DEF flush_cbk, Flushing, BufferStep
<1>5. ASSUME NEW i \in DOMAIN writes, WriteError(i) PROVE Results
  <2>1. writes \in Seq(Write) /\ "error" \in Result \ {"pending"}
    BY Zenon DEF TypeInv, TypeBuffers, Result
  <2>2. writes' = [writes EXCEPT ![i].res = "error"] /\ writes[i].res = "pending"
    BY <1>5, Zenon DEF WriteError
  <2>3. Settled(writes, writes') /\ \A j \in DOMAIN writes : j # i => writes'[j] = writes[j]
    BY <2>1, <2>2, SetResult, Zenon
  <2> QED BY <1>5, <2>2, <2>3, Zenon DEF Results, WriteError
<1>6. ASSUME NEW c \in DOMAIN sockets, ConnectionLost(c) \/ receive_cbk_error(c)
      PROVE  Results
  BY <1>1, <1>6, AbortedResults, Zenon DEF ConnectionLost, receive_cbk_error, Result
<1>7. CASE stop_tcp \/ stop_local \/ stop_udp
  <2>1. CASE close_all
    BY <2>1, AbortedResults, Zenon DEF close_all, BufferStep, Result
  <2>2. CASE stop_udp
    BY <2>2, AbortedResults, Zenon DEF stop_udp, BufferStep, Result
  <2> QED BY <1>7, <2>1, <2>2, Zenon DEF stop_tcp, stop_local
<1>8. ASSUME NEW t \in Targets,
             \/ AcceptCompletes(t) \/ accept_cbk_tcp(t) \/ accept_cbk_local(t)
             \/ receive_cbk_tcp(t) \/ receive_cbk_udp(t) \/ add_default_target(t)
      PROVE  Results
  BY <1>1, <1>8, Zenon DEF AcceptCompletes, accept_cbk_tcp, accept_cbk_local, Accepted,
                    receive_cbk_tcp, receive_cbk_udp, RecordRequest, add_default_target
<1>9. ASSUME NEW i \in DOMAIN writes, WriteDone(i) \/ send_cbk(i) PROVE BufferStep
  BY <1>9, Zenon DEF BufferStep
<1>10. CASE Next
  <2>1. CASE \E t \in Targets, _size \in Sizes, _flush \in BOOLEAN :
          \/ send_to(t, _size, _flush)
          \/ t \in Clients /\ \E session \in 1 .. MaxRequests : send(t, session, _size, _flush)
    BY <2>1, <1>3, Zenon
  <2>2. CASE \E i \in DOMAIN writes :
          \/ WriteDone(i) \/ WriteError(i)
          \/ write_completion_condition(i) \/ send_cbk(i)
    BY <2>2, <1>5, <1>9, CompletionResults DEF BufferStep
  <2>3. CASE \E c \in DOMAIN sockets : ConnectionLost(c) \/ receive_cbk_error(c)
    BY <2>3, <1>6, Zenon DEF BufferStep
  <2>4. CASE \E t \in Targets :
          \/ AcceptCompletes(t) \/ accept_cbk_tcp(t) \/ accept_cbk_local(t)
          \/ receive_cbk_tcp(t) \/ receive_cbk_udp(t) \/ add_default_target(t)
    BY <2>4, <1>8, Zenon DEF BufferStep
  <2> QED BY <1>10, <1>4, <1>7, <2>1, <2>2, <2>3, <2>4 DEF Next
<1> QED BY <1>2, <1>10, Zenon

\* send_queued for target t, seen from target d: another target's queue and
\* writes stay; a target without a write has the one of its front.
LEMMA SendQueuedOne ==
    ASSUME TypeInv, NEW t \in Targets, NEW q \in Queue, q.bufs # <<>>,
           NEW ws \in Seq(Write), send_queued(t, q, ws), NEW d \in Targets
    PROVE  /\ d # t => /\ queues_'[d] = queues_[d] /\ dropped'[d] = dropped[d]
                       /\ NoneOf(ws, d) => NoneOf(writes', d)
                       /\ \A b, g : JustOne(ws, d, b, g) => JustOne(writes', d, b, g)
           /\ d = t /\ NoneOf(ws, d) =>
                  IF queues_'[d].bufs = <<>> THEN NoneOf(writes', d)
                  ELSE JustOne(writes', d, Head(queues_'[d].bufs), dropped'[d])
<1>1. queues_ \in [Targets -> Queue] /\ dropped \in [Targets -> Nat]
  BY Zenon DEF TypeInv, TypeBuffers
<1>2. CASE QueueDropped(t, ws)
  BY <1>1, <1>2, Zenon DEF QueueDropped, EmptyQueue
<1>3. ASSUME NEW r \in Queue, NEW b \in Buffer, NEW c, NEW res, FrontWritten(t, q, ws, r, b, c, res)
      PROVE  /\ d # t => /\ queues_'[d] = queues_[d] /\ dropped'[d] = dropped[d]
                         /\ NoneOf(ws, d) => NoneOf(writes', d)
                         /\ \A e, g : JustOne(ws, d, e, g) => JustOne(writes', d, e, g)
             /\ d = t /\ NoneOf(ws, d) =>
                  IF queues_'[d].bufs = <<>> THEN NoneOf(writes', d)
                  ELSE JustOne(writes', d, Head(queues_'[d].bufs), dropped'[d])
  <2>1. /\ queues_'[d] = IF d = t THEN r ELSE queues_[d]
        /\ dropped' = dropped /\ Started(ws, t, c, b, res)
        /\ Head(r.bufs) = b
    BY <1>1, <1>3, Zenon DEF FrontWritten, SameButFront
  <2>2. /\ t # d /\ NoneOf(ws, d) => NoneOf(writes', d)
        /\ \A e, g : t # d /\ JustOne(ws, d, e, g) => JustOne(writes', d, e, g)
        /\ t = d /\ NoneOf(ws, d) => JustOne(writes', d, b, dropped[d])
    BY <2>1, StartedOne, Zenon
  <2>3. r.bufs # <<>>
    BY <1>3, Zenon DEF FrontWritten, SameButFront
  <2> QED BY <2>1, <2>2, <2>3, Zenon
<1> QED BY <1>2, <1>3, SendQueuedCases, Zenon DEF AFrontWritten

\* No write is under way initially.
LEMMA WritesInit == Init => WritesInv
BY DEF Init, WritesInv, FrontHasWrite, NoneOf, EmptyQueue

\* Results keep the one write of each queue.
LEMMA WritesResults == ASSUME TypeInv, WritesInv, Results PROVE WritesInv'
<1>1. writes \in Seq(Write) /\ Settled(writes, writes')
      /\ UNCHANGED <<queues_, dropped, stuck, repeated, undefined>>
  BY Zenon DEF TypeInv, TypeBuffers, Results
<1>2. ASSUME NEW t \in Targets \ repeated
      PROVE  /\ NoneOf(writes, t) => NoneOf(writes', t)
             /\ \A b, g : JustOne(writes, t, b, g) => JustOne(writes', t, b, g)
  BY <1>1, SettledOne, Zenon
<1> QED BY <1>1, <1>2, Zenon DEF WritesInv, FrontHasWrite

\* What send_intern appends to a queue leaves its front in place.
LEMMA SendInternFront ==
    ASSUME TypeInv, NEW t \in Targets, NEW _size \in Sizes, NEW _flush \in BOOLEAN,
           queues_[t].bufs # <<>>
    PROVE  /\ Spilled(t, _size).bufs # <<>>
           /\ Head(Spilled(t, _size).bufs) = Head(queues_[t].bufs)
           /\ Flushed(t, _size, _flush).bufs # <<>>
           /\ Head(Flushed(t, _size, _flush).bufs) = Head(queues_[t].bufs)
<1>1. ASSUME NEW q \in Queue, NEW b \in Buffer, q.bufs # <<>>
      PROVE  queued(q, b).bufs # <<>> /\ Head(queued(q, b).bufs) = Head(q.bufs)
  <2>1. q.bufs \in Seq(Buffer)
    BY QueueParts, Zenon
  <2>2. Append(q.bufs, b) # <<>> /\ Head(Append(q.bufs, b)) = Head(q.bufs)
    BY <1>1, <2>1
  <2> QED BY <2>2, Zenon DEF queued
<1>2. packetizer_[t] \in Buffer /\ queues_[t] \in Queue
  BY Zenon DEF TypeInv, TypeBuffers
<1>3. Filled(t, _size) \in Buffer /\ Spilled(t, _size) \in Queue
  BY SendInternParts, Zenon
<1>4. /\ Spilled(t, _size).bufs # <<>>
      /\ Head(Spilled(t, _size).bufs) = Head(queues_[t].bufs)
  BY <1>1, <1>2, Zenon DEF Spilled
<1> QED BY <1>1, <1>3, <1>4, Zenon DEF Flushed

\* send starts a write only for a queue that was empty.
LEMMA WritesSending ==
    ASSUME TypeInv, WritesInv, NEW t \in Targets, NEW _size \in Sizes, NEW _flush \in BOOLEAN,
           Sending(t, _size, _flush)
    PROVE  WritesInv'
<1>1. /\ queues_ \in [Targets -> Queue] /\ writes \in Seq(Write) /\ queues_[t] \in Queue
      /\ UNCHANGED <<repeated, undefined>>
  BY Zenon DEF TypeInv, TypeBuffers, Sending
<1> SUFFICES ASSUME NEW d \in Targets \ repeated
             PROVE  (FrontHasWrite(d) /\ (d \in stuck => queues_[d].bufs # <<>>))'
  BY <1>1, Zenon DEF WritesInv
<1>2. FrontHasWrite(d) /\ (d \in stuck => queues_[d].bufs # <<>>)
  BY Zenon DEF WritesInv
<1>3. CASE Refused(t, _size)
  <2>1. /\ queues_'[d] = IF d = t THEN Spilled(t, _size) ELSE queues_[d]
        /\ stuck' = IF queues_[t].bufs = <<>> /\ Spilled(t, _size).bufs # <<>>
                    THEN stuck \cup {t} ELSE stuck
        /\ UNCHANGED <<writes, dropped>>
    BY <1>1, <1>3, Zenon DEF Refused
  <2>2. CASE d # t
    BY <1>2, <2>1, <2>2, Zenon DEF FrontHasWrite
  <2>3. CASE d = t /\ queues_[t].bufs = <<>>
    BY <1>2, <2>1, <2>3, Zenon DEF FrontHasWrite
  <2>4. CASE d = t /\ queues_[t].bufs # <<>>
    BY <1>2, <2>1, <2>4, SendInternFront, Zenon DEF FrontHasWrite
  <2> QED BY <2>2, <2>3, <2>4, Zenon
<1>4. CASE TakenAndKept(t, _size, _flush)
  <2>1. /\ queues_'[d] = IF d = t THEN Flushed(t, _size, _flush) ELSE queues_[d]
        /\ ~(queues_[t].bufs = <<>> /\ Flushed(t, _size, _flush).bufs # <<>>)
        /\ UNCHANGED <<stuck, writes, dropped>>
    BY <1>1, <1>4, Zenon DEF TakenAndKept, Taken
  <2>2. CASE d # t
    BY <1>2, <2>1, <2>2, Zenon DEF FrontHasWrite
  <2>3. CASE d = t /\ queues_[t].bufs = <<>>
    BY <1>2, <2>1, <2>3, Zenon DEF FrontHasWrite
  <2>4. CASE d = t /\ queues_[t].bufs # <<>>
    BY <1>2, <2>1, <2>4, SendInternFront, Zenon DEF FrontHasWrite
  <2> QED BY <2>2, <2>3, <2>4
<1>5. CASE TakenAndSent(t, _size, _flush)
  <2>1. /\ Flushed(t, _size, _flush) \in Queue /\ Flushed(t, _size, _flush).bufs # <<>>
        /\ send_queued(t, Flushed(t, _size, _flush), writes)
        /\ queues_[t].bufs = <<>> /\ UNCHANGED stuck
    BY <1>5, SendInternParts, Zenon DEF TakenAndSent, Taken
  <2>2. /\ d # t => /\ queues_'[d] = queues_[d] /\ dropped'[d] = dropped[d]
                    /\ NoneOf(writes, d) => NoneOf(writes', d)
                    /\ \A b, g : JustOne(writes, d, b, g) => JustOne(writes', d, b, g)
        /\ d = t /\ NoneOf(writes, d) =>
               IF queues_'[d].bufs = <<>> THEN NoneOf(writes', d)
               ELSE JustOne(writes', d, Head(queues_'[d].bufs), dropped'[d])
    BY <1>1, <2>1, SendQueuedOne, Zenon
  <2>3. CASE d # t
    BY <1>2, <2>1, <2>2, <2>3, Zenon DEF FrontHasWrite
  <2>4. CASE d = t
    <3>1. NoneOf(writes, d) /\ d \notin stuck
      BY <1>2, <2>1, <2>4, Zenon DEF FrontHasWrite
    <3> QED BY <2>1, <2>2, <2>4, <3>1, Zenon DEF FrontHasWrite
  <2> QED BY <2>3, <2>4, Zenon
<1> QED BY <1>3, <1>4, <1>5, SendInternCases, Zenon DEF Sending

\* flush starts one more write, and records that it did.
LEMMA WritesFlushing ==
    ASSUME TypeInv, WritesInv, NEW t \in Targets, Flushing(t)
    PROVE  WritesInv'
<1>1. CASE UNCHANGED <<queues_, writes, dropped, repeated, stuck>>
  BY <1>1, Zenon DEF Flushing, WritesInv, FrontHasWrite
<1>2. CASE queues_[t].bufs # <<>>
  <2>1. /\ queues_[t] \in Queue /\ writes \in Seq(Write)
        /\ send_queued(t, queues_[t], writes)
        /\ repeated' = (IF Live(t) # {} THEN repeated \cup {t} ELSE repeated)
        /\ stuck' = stuck \ {t} /\ undefined' = undefined
    BY <1>2, Zenon DEF TypeInv, TypeBuffers, Flushing, flush
  <2> SUFFICES ASSUME NEW d \in Targets \ repeated'
               PROVE  (FrontHasWrite(d) /\ (d \in stuck => queues_[d].bufs # <<>>))'
    BY <2>1, Zenon DEF WritesInv
  <2>2. FrontHasWrite(d) /\ (d \in stuck => queues_[d].bufs # <<>>)
    BY <2>1, Zenon DEF WritesInv
  <2>3. /\ d # t => /\ queues_'[d] = queues_[d] /\ dropped'[d] = dropped[d]
                    /\ NoneOf(writes, d) => NoneOf(writes', d)
                    /\ \A b, g : JustOne(writes, d, b, g) => JustOne(writes', d, b, g)
        /\ d = t /\ NoneOf(writes, d) =>
               IF queues_'[d].bufs = <<>> THEN NoneOf(writes', d)
               ELSE JustOne(writes', d, Head(queues_'[d].bufs), dropped'[d])
    BY <1>2, <2>1, SendQueuedOne, Zenon
  <2>4. CASE d # t
    BY <2>1, <2>2, <2>3, <2>4, Zenon DEF FrontHasWrite
  <2>5. CASE d = t
    <3>1. Live(t) = {}
      BY <2>1, <2>5, Zenon
    <3>2. ~JustOne(writes, t, Head(queues_[t].bufs), dropped[t])
      BY <3>1, Zenon DEF JustOne, Live
    <3>3. NoneOf(writes, d)
      BY <2>2, <2>5, <3>2, Zenon DEF FrontHasWrite
    <3> QED BY <2>1, <2>3, <2>5, <3>3, Zenon DEF FrontHasWrite
  <2> QED BY <2>4, <2>5, Zenon
<1> QED BY <1>1, <1>2, Zenon DEF Flushing, flush

\* A completed write stays the one of its queue until send_cbk.
LEMMA WritesDone ==
    ASSUME TypeInv, WritesInv, NEW i \in DOMAIN writes, WriteDone(i)
    PROVE  WritesInv'
<1>1. writes \in Seq(Write) /\ "ok" \in Result \ {"pending"}
      /\ UNCHANGED <<queues_, dropped, stuck, repeated, undefined>>
  BY Zenon DEF TypeInv, TypeBuffers, WriteDone, Result
<1>2. Settled(writes, writes')
  BY <1>1, SetResult, Zenon DEF WriteDone
<1>3. ASSUME NEW t \in Targets \ repeated
      PROVE  /\ NoneOf(writes, t) => NoneOf(writes', t)
             /\ \A b, g : JustOne(writes, t, b, g) => JustOne(writes', t, b, g)
  BY <1>1, <1>2, SettledOne, Zenon
<1> QED BY <1>1, <1>3, Zenon DEF WritesInv, FrontHasWrite

\* send_cbk finds its queue or it does not.
LEMMA SendCbkCases ==
    ASSUME NEW i, send_cbk(i)
    PROVE  /\ InvalidCbk(i) \/ (ValidCbk(i) /\ ~undefined')
           /\ UNCHANGED <<packetizer_, accepted, wire, repeated, stuck>>
BY Zenon DEF send_cbk, ValidCbk, InvalidCbk, QueueDropped

\* The queue without its front.
LEMMA PoppedParts ==
    ASSUME NEW q \in Queue, q.bufs # <<>>
    PROVE  /\ popped(q) \in Queue /\ popped(q).bufs = Tail(q.bufs)
           /\ Len(q.bufs) = 1 => popped(q).bufs = <<>>
           /\ Len(q.bufs) > 1 => popped(q).bufs # <<>>
           /\ Len(popped(q).bufs) = Len(q.bufs) - 1
           /\ \A k \in 1 .. Len(q.bufs) - 1 : popped(q).bufs[k] = q.bufs[k + 1]
<1>1. q.bufs \in Seq(Buffer)
  BY QueueParts, Zenon
<1>2. popped(q).bufs = Tail(q.bufs)
  BY Zenon DEF popped
<1>3. /\ Len(q.bufs) = 1 => Tail(q.bufs) = <<>>
      /\ Len(q.bufs) > 1 => Tail(q.bufs) # <<>>
      /\ Len(Tail(q.bufs)) = Len(q.bufs) - 1
      /\ \A k \in 1 .. Len(q.bufs) - 1 : Tail(q.bufs)[k] = q.bufs[k + 1]
  BY <1>1, TailParts, Zenon
<1> QED BY <1>2, <1>3, QueuePopped, Zenon

\* send_cbk takes its write out and starts the next.
LEMMA WritesSendCbk ==
    ASSUME TypeInv, WritesInv, NEW i \in DOMAIN writes, send_cbk(i)
    PROVE  WritesInv'
<1> DEFINE t == writes[i].target
           left == RemoveAt(writes, i)
<1>1. /\ t \in Targets /\ queues_ \in [Targets -> Queue] /\ queues_[t] \in Queue
      /\ left \in Seq(Write) /\ writes \in Seq(Write) /\ dropped \in [Targets -> Nat]
  <2>1. TypeBuffers /\ writes \in Seq(Write) /\ writes[i] \in Write
    BY DEF TypeInv, TypeBuffers
  <2>2. t \in Targets
    BY <2>1, Zenon DEF Write
  <2>3. left \in Seq(Write)
    BY <2>1, WritesRemove, Zenon
  <2> QED BY <2>1, <2>2, <2>3, Zenon DEF TypeBuffers
<1>2. UNCHANGED <<repeated, stuck>> /\ (InvalidCbk(i) \/ (ValidCbk(i) /\ ~undefined'))
  BY SendCbkCases, Zenon
<1>3. ASSUME t \notin repeated
      PROVE  /\ t \notin stuck /\ queues_[t].bufs # <<>>
             /\ JustOne(writes, t, Head(queues_[t].bufs), dropped[t])
             /\ writes[i].gen = dropped[t] /\ NoneOf(left, t)
  <2>1. FrontHasWrite(t) /\ ~NoneOf(writes, t)
    BY <1>1, <1>3, Zenon DEF WritesInv, NoneOf
  <2>2. /\ t \notin stuck /\ queues_[t].bufs # <<>>
        /\ JustOne(writes, t, Head(queues_[t].bufs), dropped[t])
    BY <2>1, Zenon DEF FrontHasWrite
  <2>3. writes[i].gen = dropped[t]
    BY <2>2, Zenon DEF JustOne
  <2>4. NoneOf(left, t)
    BY <1>1, <2>2, NoneOfRemove, Zenon
  <2> QED BY <2>2, <2>3, <2>4, Zenon
<1>4. ASSUME NEW d \in Targets, d # t
      PROVE  /\ NoneOf(writes, d) => NoneOf(left, d)
             /\ \A b, g : JustOne(writes, d, b, g) => JustOne(left, d, b, g)
  BY <1>1, <1>4, NoneOfRemove, JustOneRemove, Zenon
<1>5. undefined' => repeated' # {}
  <2>1. CASE InvalidCbk(i)
    BY <1>2, <1>3, <2>1, Zenon DEF InvalidCbk
  <2>2. CASE ValidCbk(i) /\ ~undefined'
    BY <2>2, Zenon
  <2> QED BY <1>2, <2>1, <2>2, Zenon
<1> SUFFICES ASSUME NEW d \in Targets \ repeated
             PROVE  (FrontHasWrite(d) /\ (d \in stuck => queues_[d].bufs # <<>>))'
  BY <1>2, <1>5, Zenon DEF WritesInv
<1>6. FrontHasWrite(d) /\ (d \in stuck => queues_[d].bufs # <<>>)
  BY Zenon DEF WritesInv
<1>7. CASE InvalidCbk(i)
  <2>1. t \in repeated
    BY <1>3, <1>7, Zenon DEF InvalidCbk
  <2>2. d # t /\ writes' = left /\ UNCHANGED <<queues_, dropped>>
    BY <1>7, <2>1, Zenon DEF InvalidCbk
  <2> QED BY <1>2, <1>4, <1>6, <2>2, Zenon DEF FrontHasWrite
<1>8. CASE QueueDropped(t, left)
  <2>1. /\ queues_'[d] = IF d = t THEN EmptyQueue ELSE queues_[d]
        /\ dropped'[d] = IF d = t THEN dropped[d] + 1 ELSE dropped[d]
        /\ writes' = left
    BY <1>1, <1>8, Zenon DEF QueueDropped
  <2>2. CASE d # t
    BY <1>2, <1>4, <1>6, <2>1, <2>2, Zenon DEF FrontHasWrite
  <2>3. CASE d = t
    <3>1. NoneOf(left, d) /\ d \notin stuck
      BY <1>3, <2>3, Zenon
    <3>2. EmptyQueue.bufs = <<>>
      BY Zenon DEF EmptyQueue
    <3>3. queues_'[d] = EmptyQueue /\ writes' = left
      BY <2>1, <2>3, Zenon
    <3> QED BY <1>2, <3>1, <3>2, <3>3, Zenon DEF FrontHasWrite
  <2> QED BY <2>2, <2>3, Zenon
<1>9. CASE /\ Len(queues_[t].bufs) = 1
           /\ queues_' = [queues_ EXCEPT ![t] = popped(queues_[t])]
           /\ writes' = left
           /\ UNCHANGED dropped
  <2>1. queues_'[d] = IF d = t THEN popped(queues_[t]) ELSE queues_[d]
    BY <1>1, <1>9, Zenon
  <2>2. CASE d # t
    BY <1>2, <1>4, <1>6, <1>9, <2>1, <2>2, Zenon DEF FrontHasWrite
  <2>3. CASE d = t
    <3>1. NoneOf(left, d) /\ d \notin stuck /\ queues_[t].bufs # <<>>
      BY <1>3, <2>3, Zenon
    <3>2. popped(queues_[t]).bufs = <<>>
      BY <1>1, <1>9, <3>1, PoppedParts, Zenon
    <3> QED BY <1>2, <1>9, <2>1, <2>3, <3>1, <3>2, Zenon DEF FrontHasWrite
  <2> QED BY <2>2, <2>3
<1>10. CASE Len(queues_[t].bufs) > 1 /\ send_queued(t, popped(queues_[t]), left)
  <2>1. queues_[t].bufs # <<>>
    <3>1. queues_[t].bufs \in Seq(Buffer)
      BY <1>1, QueueParts, Zenon
    <3>2. Len(queues_[t].bufs) > 0
      BY <1>10, <3>1
    <3> QED BY <3>1, <3>2, NotEmpty, Zenon
  <2>2. popped(queues_[t]) \in Queue /\ popped(queues_[t]).bufs # <<>>
    BY <1>1, <1>10, <2>1, PoppedParts
  <2> HIDE DEF t, left
  <2>3. /\ d # t => /\ queues_'[d] = queues_[d] /\ dropped'[d] = dropped[d]
                    /\ NoneOf(left, d) => NoneOf(writes', d)
                    /\ \A b, g : JustOne(left, d, b, g) => JustOne(writes', d, b, g)
        /\ d = t /\ NoneOf(left, d) =>
               IF queues_'[d].bufs = <<>> THEN NoneOf(writes', d)
               ELSE JustOne(writes', d, Head(queues_'[d].bufs), dropped'[d])
    BY <1>1, <1>10, <2>2, SendQueuedOne, Zenon
  <2>4. CASE d # t
    <3>1. /\ NoneOf(writes, d) => NoneOf(writes', d)
          /\ \A b, g : JustOne(writes, d, b, g) => JustOne(writes', d, b, g)
      BY <1>4, <2>3, <2>4, Zenon
    <3> QED BY <1>2, <1>6, <2>3, <2>4, <3>1, Zenon DEF FrontHasWrite
  <2>5. CASE d = t
    <3>1. NoneOf(left, d) /\ d \notin stuck
      BY <1>3, <2>5, Zenon
    <3> QED BY <1>2, <2>3, <2>5, <3>1, Zenon DEF FrontHasWrite
  <2> QED BY <2>4, <2>5, Zenon
<1> QED BY <1>2, <1>7, <1>8, <1>9, <1>10, Zenon DEF ValidCbk

\* Every step keeps the one write of each queue.
LEMMA WritesNext == ASSUME TypeInv, WritesInv, [Next]_vars PROVE WritesInv'
BY BufferSteps, WritesResults, WritesSending, WritesFlushing, WritesDone, WritesSendCbk
   DEF BufferStep

\* While a queue holds a buffer exactly one write of it is under way, of its front,
\* and only a queue that flush() wrote once more makes send_cbk use an iterator
\* that is not valid any more (send_intern, send_cbk, connection::send_queued).
THEOREM OneWritePerQueueHolds == Spec => []OneWritePerQueue
<1>1. Init => TypeInv /\ WritesInv
  BY TypeInit, WritesInit, Zenon
<1>2. TypeInv /\ WritesInv /\ [Next]_vars => TypeInv' /\ WritesInv'
  BY TypeNext, WritesNext, Zenon
<1>3. WritesInv => OneWritePerQueue
  <2> SUFFICES ASSUME WritesInv, NEW t \in Targets \ repeated
               PROVE  IF queues_[t].bufs = <<>> \/ t \in stuck THEN Live(t) = {}
                      ELSE \E i \in Live(t) : /\ Live(t) = {i}
                                              /\ writes[i].buffer = Head(queues_[t].bufs)
    BY Zenon DEF WritesInv, OneWritePerQueue
  <2>1. FrontHasWrite(t)
    BY Zenon DEF WritesInv
  <2>2. NoneOf(writes, t) => Live(t) = {}
    BY Zenon DEF NoneOf, Live
  <2>3. ASSUME NEW b, JustOne(writes, t, b, dropped[t])
        PROVE  \E i \in Live(t) : Live(t) = {i} /\ writes[i].buffer = b
    <3>1. PICK i \in DOMAIN writes :
             /\ writes[i].target = t /\ writes[i].gen = dropped[t] /\ writes[i].buffer = b
             /\ \A j \in DOMAIN writes : writes[j].target = t => j = i
      BY <2>3, Zenon DEF JustOne
    <3>2. i \in Live(t) /\ Live(t) = {i}
      BY <3>1, Zenon DEF Live
    <3> QED BY <3>1, <3>2, Zenon
  <2> QED BY <2>1, <2>2, <2>3 DEF FrontHasWrite
<1> QED BY <1>1, <1>2, <1>3, PTL DEF Spec

(***************************************************************************)
(* The server endpoint implements the channel: what is written to a target *)
(* are the messages accepted for it, in order and each at most once.       *)
(***************************************************************************)

-----------------------------------------------------------------------------

\* Writes that get a result do not disturb the order.
LEMMA SettledInOrder ==
    ASSUME NEW t, NEW wr, NEW ws \in Seq(Write), NEW vs, NEW bufs, NEW p, NEW n,
           Settled(ws, vs), SentInOrder(t, wr, ws, bufs, p, n)
    PROVE  SentInOrder(t, wr, vs, bufs, p, n)
<1>1. DOMAIN vs = DOMAIN ws /\ DOMAIN ws = 1 .. Len(ws) /\ Len(ws) \in Nat
  BY DEF Settled
<1>2. /\ Pending(t, ws) \in SUBSET Nat /\ Pending(t, vs) \in SUBSET Pending(t, ws)
      /\ \A j \in Pending(t, vs) : vs[j].buffer = ws[j].buffer
  BY <1>1 DEF Settled, Pending
<1>3. SomeOf(Pending(t, ws), ws, Pending(t, vs), vs)
  BY <1>2, SomeOfSame, Zenon
<1> QED BY <1>3, OrderedSome, Zenon DEF SentInOrder

\* Nor does a write whose handler was called.
LEMMA RemovedInOrder ==
    ASSUME NEW t, NEW wr, NEW ws \in Seq(Write), NEW i \in DOMAIN ws, NEW bufs, NEW p, NEW n,
           SentInOrder(t, wr, ws, bufs, p, n)
    PROVE  SentInOrder(t, wr, RemoveAt(ws, i), bufs, p, n)
<1> DEFINE vs == RemoveAt(ws, i)
<1>1. DOMAIN vs = 1 .. Len(ws) - 1 /\ Len(ws) \in Nat /\ DOMAIN ws = 1 .. Len(ws)
      /\ \A j \in 1 .. Len(ws) - 1 : vs[j] = IF j < i THEN ws[j] ELSE ws[j + 1]
  BY WritesRemove
<1>2. /\ Pending(t, vs) \in SUBSET DOMAIN vs
      /\ \A j \in Pending(t, vs) : (IF j < i THEN j ELSE j + 1) \in Pending(t, ws)
  <2> HIDE DEF vs
  <2> QED BY <1>1 DEF Pending
<1>3. SomeOf(Pending(t, ws), ws, Pending(t, vs), vs)
  BY <1>2, SomeOfRemove, Zenon
<1> QED BY <1>3, OrderedSome, Zenon DEF SentInOrder

\* The front of the queue is written: buffer b, which takes its place.
LEMMA WrittenInOrder ==
    ASSUME NEW t, NEW wr, NEW ws \in Seq(Write), NEW q \in Queue, NEW r, NEW b, NEW p, NEW n,
           NEW w \in Write, w.target = t, w.buffer = b, q.bufs # <<>>, SameButFront(q, r, b),
           SentInOrder(t, wr, ws, q.bufs, p, n)
    PROVE  SentInOrder(t, wr, Append(ws, w), r.bufs, p, n)
<1> DEFINE bufs == q.bufs
           P == Pending(t, ws)
           Q == Pending(t, Append(ws, w))
<1>1. /\ bufs \in Seq(Buffer) /\ r.bufs \in Seq(Buffer) /\ Len(r.bufs) = Len(bufs)
      /\ 1 \in DOMAIN bufs /\ Head(bufs) = bufs[1] /\ Head(r.bufs) = r.bufs[1]
  <2>1. bufs \in Seq(Buffer) /\ r.bufs \in Seq(Buffer) /\ Len(r.bufs) = Len(bufs)
    BY QueueParts, Zenon DEF SameButFront
  <2> QED BY <2>1
<1>2. \A k \in 1 .. Len(bufs) : Ids(r.bufs[k]) = Ids(bufs[k])
  <2> TAKE k \in 1 .. Len(bufs)
  <2>1. CASE k = 1
    BY <1>1, <2>1, Zenon DEF SameButFront
  <2>2. CASE k # 1
    <3>1. k \in 2 .. Len(bufs)
      BY <1>1, <2>2
    <3> QED BY <3>1, Zenon DEF SameButFront
  <2> QED BY <2>1, <2>2, Zenon
<1>3. Ids(w.buffer) = Ids(bufs[1])
  BY <1>1, Zenon DEF SameButFront
<1>4. P \in SUBSET DOMAIN ws /\ Q \in SUBSET (P \cup {Len(ws) + 1})
  BY DEF Pending
<1>5. Ordered(P, wr, ws, bufs, p, n)
  BY Zenon DEF SentInOrder
<1> HIDE DEF P, Q, bufs
<1>6. bufs # <<>>
  BY Zenon DEF bufs
<1>7. Ordered(Q, wr, Append(ws, w), r.bufs, p, n)
  BY <1>1, <1>2, <1>3, <1>4, <1>5, <1>6, OrderedWritten, Zenon
<1> QED BY <1>7, Zenon DEF SentInOrder, Q

\* Another target's write is started: nothing changes for target t.
LEMMA OtherInOrder ==
    ASSUME NEW t, NEW wr, NEW ws \in Seq(Write), NEW bufs, NEW p, NEW n,
           NEW w \in Write, w.target # t, SentInOrder(t, wr, ws, bufs, p, n)
    PROVE  SentInOrder(t, wr, Append(ws, w), bufs, p, n)
<1> DEFINE vs == Append(ws, w)
<1>1. Len(ws) \in Nat /\ DOMAIN ws = 1 .. Len(ws) /\ DOMAIN vs = 1 .. Len(ws) + 1
      /\ vs[Len(ws) + 1] = w /\ \A j \in 1 .. Len(ws) : vs[j] = ws[j]
  OBVIOUS
<1> HIDE DEF vs
<1>2. /\ Pending(t, ws) \in SUBSET Nat /\ Pending(t, vs) \in SUBSET Pending(t, ws)
      /\ \A i \in Pending(t, vs) : vs[i].buffer = ws[i].buffer
  BY <1>1 DEF Pending
<1>3. SomeOf(Pending(t, ws), ws, Pending(t, vs), vs)
  BY <1>2, SomeOfSame, Zenon
<1> QED BY <1>3, OrderedSome, Zenon DEF SentInOrder, vs

\* The network takes the oldest pending buffer.
LEMMA TakenInOrder ==
    ASSUME NEW t, NEW wr \in Seq(Seq(Nat \ {0})), NEW ws \in Seq(Write), NEW vs, Settled(ws, vs),
           NEW bufs, NEW p, NEW n, NEW i \in Pending(t, ws),
           vs[i].res # "pending", \A j \in 1 .. i - 1 : j \notin Pending(t, ws),
           SentInOrder(t, wr, ws, bufs, p, n)
    PROVE  SentInOrder(t, Append(wr, Ids(ws[i].buffer)), vs, bufs, p, n)
<1> DEFINE P == Pending(t, ws)
           Q == Pending(t, vs)
<1>1. DOMAIN vs = DOMAIN ws /\ DOMAIN ws = 1 .. Len(ws) /\ Len(ws) \in Nat
  BY DEF Settled
<1>2. P \in SUBSET Nat /\ Q \in SUBSET P /\ i \in P /\ i \notin Q /\ 0 \notin P
      /\ \A j \in Q : vs[j].buffer = ws[j].buffer
  BY <1>1 DEF Settled, Pending
<1>3. Ordered(P, wr, ws, bufs, p, n) /\ \A j \in 1 .. i - 1 : j \notin P
  BY Zenon DEF SentInOrder
<1> HIDE DEF P, Q
<1>4. ASSUME NEW j \in P PROVE i <= j
  <2>1. i \in Nat /\ j \in Nat /\ j # 0 /\ j \notin 1 .. i - 1
    BY <1>2, <1>3, Zenon
  <2> QED BY <2>1
<1>5. Ordered(Q, Append(wr, Ids(ws[i].buffer)), vs, bufs, p, n)
  BY <1>2, <1>3, <1>4, OrderedDone, Zenon
<1> QED BY <1>5, Zenon DEF SentInOrder, Q

-----------------------------------------------------------------------------

\* Nothing is under way initially.
LEMMA OrderInit == Init => OrderInv
<1> SUFFICES ASSUME Init, NEW t \in Targets PROVE OrderedAt(t) /\ FrontUnsent(t)
  BY Zenon DEF OrderInv
<1>1. /\ wire[t] = <<>> /\ writes = <<>> /\ queues_[t].bufs = <<>> /\ packetizer_[t] = <<>>
  BY Zenon DEF Init, EmptyQueue
<1>2. Pending(t, <<>>) = {} /\ DOMAIN <<>> = {}
  BY DEF Pending
<1> QED BY <1>1, <1>2, Zenon DEF OrderedAt, FrontUnsent, SentInOrder, Ordered, WireOrdered, WritesOrdered,
                          QueueOrdered, PacketizerOrdered

\* Results keep the order.
LEMMA OrderResults == ASSUME TypeInv, OrderInv, Results PROVE OrderInv'
<1> SUFFICES ASSUME NEW t \in Targets PROVE (OrderedAt(t) /\ FrontUnsent(t))'
  BY Zenon DEF OrderInv
<1>1. /\ writes \in Seq(Write) /\ Settled(writes, writes')
      /\ \A i \in DOMAIN writes : writes[i].res = "ok" => writes'[i].res = "ok"
      /\ UNCHANGED <<packetizer_, queues_, accepted, wire, repeated>>
      /\ OrderedAt(t) /\ FrontUnsent(t)
  BY Zenon DEF TypeInv, TypeBuffers, Results, OrderInv
<1>2. OrderedAt(t)'
  BY <1>1, SettledInOrder, Zenon DEF OrderedAt
<1>3. NoneDone(writes', t) => NoneDone(writes, t)
  BY <1>1 DEF NoneDone, Settled
<1>4. FrontUnsent(t)'
  BY <1>1, <1>3, Zenon DEF FrontUnsent
<1> QED BY <1>2, <1>4, Zenon

\* A completed write puts its buffer on the wire.
LEMMA OrderDone ==
    ASSUME TypeInv, OrderInv, NEW i \in DOMAIN writes, WriteDone(i),
           \A j \in 1 .. i - 1 : j \notin Pending(writes[i].target, writes)
    PROVE  OrderInv'
<1> SUFFICES ASSUME NEW t \in Targets PROVE (OrderedAt(t) /\ FrontUnsent(t))'
  BY Zenon DEF OrderInv
<1>1. /\ writes \in Seq(Write) /\ "ok" \in Result \ {"pending"} /\ writes[i] \in Write
      /\ wire \in [Targets -> Seq(Seq(Nat \ {0}))]
      /\ writes' = [writes EXCEPT ![i].res = "ok"]
      /\ wire' = [wire EXCEPT ![writes[i].target] = Append(@, Ids(writes[i].buffer))]
      /\ UNCHANGED <<packetizer_, queues_, accepted, repeated>>
      /\ OrderedAt(t) /\ FrontUnsent(t)
  BY DEF TypeInv, TypeBuffers, WriteDone, OrderInv, Result
<1>2. Settled(writes, writes') /\ writes'[i].res = "ok"
      /\ \A j \in DOMAIN writes : j # i => writes'[j] = writes[j]
  BY <1>1, SetResult, Zenon
<1>3. DOMAIN writes' = DOMAIN writes /\ writes'[i].target = writes[i].target
  <2>1. DOMAIN writes = 1 .. Len(writes) /\ DOMAIN writes' = 1 .. Len(writes)
    BY <1>1, <1>2 DEF Settled
  <2> QED BY <1>2, <2>1, Zenon DEF Settled
<1>4. CASE t # writes[i].target
  <2>1. wire'[t] = wire[t]
    BY <1>1, <1>4, Zenon
  <2>2. OrderedAt(t)'
    BY <1>1, <1>2, <2>1, SettledInOrder, Zenon DEF OrderedAt
  <2>3. NoneDone(writes', t) => NoneDone(writes, t)
    BY <1>2, <1>3, <1>4, Zenon DEF NoneDone
  <2> QED BY <1>1, <2>1, <2>2, <2>3, Zenon DEF FrontUnsent
<1>5. CASE t = writes[i].target
  <2>1. i \in Pending(t, writes) /\ writes'[i].res # "pending"
    BY <1>2, <1>5, Zenon DEF WriteDone, Pending
  <2> DEFINE Ns == Seq(Nat \ {0})
  <2>2. wire \in [Targets -> Seq(Ns)]
    BY <1>1, Zenon
  <2> HIDE DEF Ns
  <2>3. wire'[t] = Append(wire[t], Ids(writes[i].buffer)) /\ wire[t] \in Seq(Ns)
    BY <1>1, <1>5, <2>2
  <2>4. wire[t] \in Seq(Seq(Nat \ {0}))
    BY <2>3, Zenon DEF Ns
  <2>5. OrderedAt(t)'
    BY <1>1, <1>2, <1>5, <2>1, <2>3, <2>4, TakenInOrder, Zenon DEF OrderedAt
  <2>6. ~NoneDone(writes', t)
    BY <1>2, <1>3, <1>5 DEF NoneDone
  <2> QED BY <2>5, <2>6, Zenon DEF FrontUnsent
<1> QED BY <1>4, <1>5, Zenon

\* send_queued for target t keeps what is on its way to target d in order.
LEMMA OrderQueued ==
    ASSUME TypeInv, NEW t \in Targets, NEW q \in Queue, q.bufs # <<>>,
           NEW ws \in Seq(Write), send_queued(t, q, ws), NEW d \in Targets, NEW p, NEW n,
           SentInOrder(d, wire[d], ws, IF d = t THEN q.bufs ELSE queues_[d].bufs, p, n)
    PROVE  /\ SentInOrder(d, wire[d], writes', queues_'[d].bufs, p, n)
           /\ d # t => queues_'[d] = queues_[d]
           /\ d = t /\ queues_'[d].bufs # <<>> =>
                  Ids(Head(queues_'[d].bufs)) = Ids(Head(q.bufs))
           /\ NoneDone(writes', d) => NoneDone(ws, d)
<1>1. queues_ \in [Targets -> Queue] /\ dropped \in [Targets -> Nat]
  BY Zenon DEF TypeInv, TypeBuffers
<1>2. CASE QueueDropped(t, ws)
  <2>1. queues_'[d] = (IF d = t THEN EmptyQueue ELSE queues_[d]) /\ writes' = ws
    BY <1>1, <1>2 DEF QueueDropped
  <2>2. SentInOrder(d, wire[d], ws, <<>>, p, n)
    BY OrderedDropped, Zenon DEF SentInOrder
  <2>3. EmptyQueue.bufs = <<>>
    BY DEF EmptyQueue
  <2>4. CASE d = t
    BY <2>1, <2>2, <2>3, <2>4, Zenon
  <2>5. CASE d # t
    BY <2>1, <2>5, Zenon
  <2> QED BY <2>4, <2>5, Zenon
<1>3. ASSUME NEW r \in Queue, NEW b \in Buffer, NEW c \in 0 .. MaxConnections, NEW res \in Result,
             FrontWritten(t, q, ws, r, b, c, res)
      PROVE  /\ SentInOrder(d, wire[d], writes', queues_'[d].bufs, p, n)
             /\ d # t => queues_'[d] = queues_[d]
             /\ d = t /\ queues_'[d].bufs # <<>> =>
                    Ids(Head(queues_'[d].bufs)) = Ids(Head(q.bufs))
             /\ NoneDone(writes', d) => NoneDone(ws, d)
  <2> DEFINE w == [target |-> t, gen |-> dropped[t], conn |-> c, buffer |-> b, res |-> res]
  <2>1. /\ queues_'[d] = IF d = t THEN r ELSE queues_[d]
        /\ writes' = Append(ws, w) /\ SameButFront(q, r, b)
    BY <1>1, <1>3 DEF FrontWritten, Started
  <2>2. w \in Write /\ w.target = t /\ w.buffer = b
    BY <1>1, Zenon DEF Write, Result
  <2> HIDE DEF w
  <2>3. SentInOrder(d, wire[d], writes', queues_'[d].bufs, p, n)
    <3>1. CASE d = t
      BY <2>1, <2>2, <3>1, WrittenInOrder, Zenon
    <3>2. CASE d # t
      BY <2>1, <2>2, <3>2, OtherInOrder
    <3> QED BY <3>1, <3>2
  <2>4. NoneDone(writes', d) => NoneDone(ws, d)
    <3>1. \A i \in DOMAIN ws : i \in DOMAIN writes' /\ writes'[i] = ws[i]
      BY <2>1, <2>2
    <3> QED BY <3>1, Zenon DEF NoneDone
  <2> QED BY <2>1, <2>3, <2>4 DEF SameButFront
<1> QED BY <1>2, <1>3, SendQueuedCases, Zenon DEF AFrontWritten

\* flush keeps the order; the front may go out again.
LEMMA OrderFlushing ==
    ASSUME TypeInv, OrderInv, NEW t \in Targets, Flushing(t)
    PROVE  OrderInv'
<1> SUFFICES ASSUME NEW d \in Targets PROVE (OrderedAt(d) /\ FrontUnsent(d))'
  BY Zenon DEF OrderInv
<1>1. OrderedAt(d) /\ FrontUnsent(d) /\ UNCHANGED <<packetizer_, accepted, wire>>
  BY Zenon DEF OrderInv, Flushing
<1>2. CASE UNCHANGED <<queues_, writes, repeated>>
  BY <1>1, <1>2 DEF OrderedAt, FrontUnsent
<1>3. CASE queues_[t].bufs # <<>>
  <2>1. /\ queues_[t] \in Queue /\ writes \in Seq(Write)
        /\ send_queued(t, queues_[t], writes)
        /\ repeated \subseteq repeated'
    BY <1>3, Zenon DEF TypeInv, TypeBuffers, Flushing, flush
  <2>2. SentInOrder(d, wire[d], writes, IF d = t THEN queues_[t].bufs ELSE queues_[d].bufs,
                packetizer_[d], accepted[d])
    BY <1>1, Zenon DEF OrderedAt
  <2>3. /\ SentInOrder(d, wire[d], writes', queues_'[d].bufs, packetizer_[d], accepted[d])
        /\ d # t => queues_'[d] = queues_[d]
        /\ d = t /\ queues_'[d].bufs # <<>> =>
               Ids(Head(queues_'[d].bufs)) = Ids(Head(queues_[t].bufs))
        /\ NoneDone(writes', d) => NoneDone(writes, d)
    BY <1>3, <2>1, <2>2, OrderQueued, Zenon
  <2>4. OrderedAt(d)'
    BY <1>1, <2>3 DEF OrderedAt
  <2>5. FrontUnsent(d)'
    BY <1>1, <1>3, <2>1, <2>3 DEF FrontUnsent
  <2> QED BY <2>4, <2>5
<1> QED BY <1>2, <1>3 DEF Flushing, flush

\* send_cbk keeps the order and the next front is newer.
LEMMA OrderSendCbk ==
    ASSUME TypeInv, WritesInv, OrderInv, NEW i \in DOMAIN writes, send_cbk(i)
    PROVE  OrderInv'
<1> SUFFICES ASSUME NEW d \in Targets PROVE (OrderedAt(d) /\ FrontUnsent(d))'
  BY Zenon DEF OrderInv
<1> DEFINE t == writes[i].target
           left == RemoveAt(writes, i)
<1>1. /\ t \in Targets /\ queues_ \in [Targets -> Queue] /\ queues_[t] \in Queue
      /\ left \in Seq(Write) /\ writes \in Seq(Write) /\ queues_[d] \in Queue
  <2>1. TypeBuffers /\ writes \in Seq(Write) /\ writes[i] \in Write
    BY DEF TypeInv, TypeBuffers
  <2>2. t \in Targets
    BY <2>1, Zenon DEF Write
  <2>3. left \in Seq(Write)
    BY <2>1, WritesRemove, Zenon
  <2> QED BY <2>1, <2>2, <2>3 DEF TypeBuffers
<1>2. /\ UNCHANGED <<packetizer_, accepted, wire, repeated>>
      /\ InvalidCbk(i) \/ (ValidCbk(i) /\ ~undefined')
  BY SendCbkCases, Zenon
<1>3. OrderedAt(d) /\ FrontUnsent(d)
  BY Zenon DEF OrderInv
<1>4. SentInOrder(d, wire[d], left, queues_[d].bufs, packetizer_[d], accepted[d])
  BY <1>1, <1>3, RemovedInOrder DEF OrderedAt
<1>5. d # t => (NoneDone(left, d) => NoneDone(writes, d))
  <2> SUFFICES ASSUME NEW k \in DOMAIN writes, k # i
               PROVE  \E j \in DOMAIN left : left[j] = writes[k]
    BY Zenon DEF NoneDone
  <2>1. DOMAIN left = 1 .. Len(writes) - 1 /\ Len(writes) \in Nat
        /\ DOMAIN writes = 1 .. Len(writes)
        /\ \A j \in 1 .. Len(writes) - 1 :
              left[j] = IF j < i THEN writes[j] ELSE writes[j + 1]
    BY <1>1, WritesRemove
  <2> HIDE DEF left
  <2>2. CASE k < i
    <3>1. k \in DOMAIN left
      BY <2>1, <2>2
    <3> QED BY <2>1, <2>2, <3>1
  <2>3. CASE ~(k < i)
    <3>1. k - 1 \in DOMAIN left /\ ~(k - 1 < i) /\ (k - 1) + 1 = k
      BY <2>1, <2>3
    <3> QED BY <2>1, <3>1
  <2> QED BY <2>2, <2>3, Zenon
<1>6. InvalidCbk(i) => t \in repeated
  <2> SUFFICES ASSUME InvalidCbk(i), t \notin repeated PROVE FALSE
    BY Zenon
  <2>1. FrontHasWrite(t) /\ ~NoneOf(writes, t)
    BY <1>1, Zenon DEF WritesInv, NoneOf
  <2>2. queues_[t].bufs # <<>> /\ writes[i].gen = dropped[t]
    BY <2>1, Zenon DEF FrontHasWrite, JustOne
  <2> QED BY <2>2, Zenon DEF InvalidCbk
<1> HIDE DEF t, left
<1>7. CASE InvalidCbk(i)
  <2>1. writes' = left /\ UNCHANGED queues_
    BY <1>7, Zenon DEF InvalidCbk, t, left
  <2>2. FrontUnsent(d)'
    <3>1. CASE d = t
      BY <1>2, <1>6, <1>7, <3>1 DEF FrontUnsent
    <3>2. CASE d # t
      BY <1>2, <1>3, <1>5, <2>1, <3>2 DEF FrontUnsent
    <3> QED BY <3>1, <3>2
  <2> QED BY <1>2, <1>4, <2>1, <2>2 DEF OrderedAt
<1>8. CASE QueueDropped(t, left)
  <2>1. queues_'[d] = (IF d = t THEN EmptyQueue ELSE queues_[d]) /\ writes' = left
    BY <1>1, <1>8, Zenon DEF QueueDropped
  <2>2. SentInOrder(d, wire[d], left, <<>>, packetizer_[d], accepted[d])
    BY <1>4, OrderedDropped, Zenon DEF SentInOrder
  <2>3. OrderedAt(d)'
    BY <1>2, <1>4, <2>1, <2>2 DEF OrderedAt, EmptyQueue
  <2> QED BY <1>2, <1>3, <1>5, <2>1, <2>3 DEF FrontUnsent, EmptyQueue
<1>9. ASSUME queues_[t].bufs # <<>>
      PROVE  /\ popped(queues_[t]) \in Queue
             /\ SentInOrder(t, wire[t], left, popped(queues_[t]).bufs, packetizer_[t], accepted[t])
             /\ popped(queues_[t]).bufs # <<>> /\ wire[t] # <<>> =>
                   After(LastOf(wire[t]), Ids(Head(popped(queues_[t]).bufs)))
  <2> DEFINE bufs == queues_[t].bufs
             rest == popped(queues_[t]).bufs
  <2>1. /\ bufs \in Seq(Buffer) /\ rest = Tail(bufs) /\ popped(queues_[t]) \in Queue
        /\ rest \in Seq(Buffer) /\ Len(rest) = Len(bufs) - 1
        /\ \A k \in 1 .. Len(bufs) - 1 : rest[k] = bufs[k + 1]
    BY <1>1, <1>9, PoppedParts, QueueParts, Zenon
  <2>2. SentInOrder(t, wire[t], left, bufs, packetizer_[t], accepted[t])
    BY <1>1, RemovedInOrder DEF OrderInv, OrderedAt, left
  <2>3. SentInOrder(t, wire[t], left, rest, packetizer_[t], accepted[t])
    BY <1>9, <2>1, <2>2, OrderedPopped DEF SentInOrder
  <2> HIDE DEF bufs, rest
  <2>4. ASSUME rest # <<>>, wire[t] # <<>> PROVE After(LastOf(wire[t]), Ids(Head(rest)))
    <3>1. Head(rest) = bufs[2] /\ 1 \in DOMAIN bufs /\ 2 \in DOMAIN bufs /\ 1 < 2
      BY <2>1, <2>4
    <3>2. /\ Follows(LastOf(wire[t]), Ids(bufs[1])) /\ After(Ids(bufs[1]), Ids(bufs[2]))
          /\ Consecutive(LastOf(wire[t])) /\ Consecutive(Ids(bufs[1]))
          /\ Consecutive(Ids(bufs[2]))
      BY <2>2, <2>4, <3>1, Zenon DEF SentInOrder, Ordered, QueueOrdered, WireOrdered, Within
    <3> QED BY <3>1, <3>2, AfterTrans
  <2> QED BY <2>1, <2>3, <2>4 DEF rest
<1>10. CASE /\ Len(queues_[t].bufs) = 1
            /\ queues_' = [queues_ EXCEPT ![t] = popped(queues_[t])]
            /\ writes' = left
  <2>1. queues_'[d] = IF d = t THEN popped(queues_[t]) ELSE queues_[d]
    BY <1>1, <1>10
  <2>2. queues_[t].bufs # <<>>
    <3>1. queues_[t].bufs \in Seq(Buffer)
      BY <1>1, QueueParts
    <3>2. Len(queues_[t].bufs) > 0
      BY <1>10
    <3> QED BY <3>1, <3>2, NotEmpty
  <2>3. OrderedAt(d)'
    BY <1>2, <1>4, <1>9, <1>10, <2>1, <2>2, Zenon DEF OrderedAt
  <2> QED BY <1>2, <1>3, <1>5, <1>9, <1>10, <2>1, <2>2, <2>3, Zenon DEF FrontUnsent
<1>11. CASE Len(queues_[t].bufs) > 1 /\ send_queued(t, popped(queues_[t]), left)
  <2> DEFINE q == popped(queues_[t])
  <2>1. queues_[t].bufs # <<>>
    <3>1. queues_[t].bufs \in Seq(Buffer)
      BY <1>1, QueueParts
    <3>2. Len(queues_[t].bufs) > 0
      BY <1>11, <3>1
    <3> QED BY <3>1, <3>2, NotEmpty
  <2>2. q \in Queue /\ q.bufs # <<>>
    BY <1>1, <1>11, <2>1, PoppedParts
  <2>3. SentInOrder(d, wire[d], left, IF d = t THEN q.bufs ELSE queues_[d].bufs,
                packetizer_[d], accepted[d])
    BY <1>4, <1>9, <2>1
  <2>4. d = t /\ wire[d] # <<>> => After(LastOf(wire[t]), Ids(Head(q.bufs)))
    BY <1>9, <2>1, <2>2, Zenon
  <2>5. send_queued(t, q, left)
    BY <1>11, Zenon
  <2> HIDE DEF q
  <2>6. /\ SentInOrder(d, wire[d], writes', queues_'[d].bufs, packetizer_[d], accepted[d])
        /\ d # t => queues_'[d] = queues_[d]
        /\ d = t /\ queues_'[d].bufs # <<>> =>
               Ids(Head(queues_'[d].bufs)) = Ids(Head(q.bufs))
        /\ NoneDone(writes', d) => NoneDone(left, d)
    BY <1>1, <2>2, <2>3, <2>5, OrderQueued, Zenon
  <2>7. OrderedAt(d)'
    BY <1>2, <2>6 DEF OrderedAt
  <2>8. FrontUnsent(d)'
    <3>1. CASE d = t
      BY <1>2, <2>4, <2>6, <3>1, Zenon DEF FrontUnsent
    <3>2. CASE d # t
      BY <1>2, <1>3, <1>5, <2>6, <3>2 DEF FrontUnsent
    <3> QED BY <3>1, <3>2
  <2> QED BY <2>7, <2>8
<1> QED BY <1>2, <1>7, <1>8, <1>10, <1>11 DEF ValidCbk, t, left

\* What send_intern makes of the queue and the packetizer of its target is in order.
LEMMA OrderParts ==
    ASSUME TypeInv, NEW t \in Targets, NEW _size \in Sizes, NEW _flush \in BOOLEAN, OrderedAt(t)
    PROVE  /\ SentInOrder(t, wire[t], writes, Spilled(t, _size).bufs, Rest(t, _size), accepted[t])
           /\ SentInOrder(t, wire[t], writes, Flushed(t, _size, _flush).bufs,
                      IF _flush THEN <<>> ELSE Filled(t, _size), accepted[t] + 1)
           /\ queues_[t].bufs = <<>> /\ Spilled(t, _size).bufs # <<>> /\ wire[t] # <<>> =>
                 After(LastOf(wire[t]), Ids(Head(Spilled(t, _size).bufs)))
           /\ queues_[t].bufs = <<>> /\ Flushed(t, _size, _flush).bufs # <<>> /\ wire[t] # <<>> =>
                 After(LastOf(wire[t]), Ids(Head(Flushed(t, _size, _flush).bufs)))
<1> DEFINE q == queues_[t]
           p == packetizer_[t]
           n == accepted[t]
           m == [id |-> n + 1, size |-> _size]
           s == Spilled(t, _size)
           r == Rest(t, _size)
           f == Filled(t, _size)
<1>1. /\ q \in Queue /\ p \in Buffer /\ n \in Nat /\ s \in Queue /\ r \in Buffer /\ f \in Buffer
      /\ q.bufs \in Seq(Buffer) /\ s.bufs \in Seq(Buffer)
  <2>1. q \in Queue /\ p \in Buffer /\ n \in Nat /\ s \in Queue /\ r \in Buffer /\ f \in Buffer
    BY SendInternParts, Zenon DEF TypeInv, TypeBuffers
  <2> QED BY <2>1, QueueParts, Zenon
<1>2. m \in Message /\ m.id = n + 1
  BY <1>1 DEF Message
<1>3. f = Append(r, m)
  BY Zenon DEF Filled
<1>4. SentInOrder(t, wire[t], writes, q.bufs, p, n)
  BY Zenon DEF OrderedAt
<1>5. SpillsOver(t, _size) => p # <<>> /\ s.bufs = Append(q.bufs, p) /\ r = <<>>
  BY Zenon DEF SpillsOver, Spilled, Rest, queued
<1>6. ~SpillsOver(t, _size) => s = q /\ r = p
  BY Zenon DEF Spilled, Rest
<1> HIDE DEF q, p, n, m, s, r, f
<1>7. SentInOrder(t, wire[t], writes, s.bufs, r, n)
  <2>1. CASE SpillsOver(t, _size)
    BY <1>1, <1>4, <1>5, <2>1, OrderedSpill, Zenon DEF SentInOrder
  <2>2. CASE ~SpillsOver(t, _size)
    BY <1>4, <1>6, <2>2, Zenon
  <2> QED BY <2>1, <2>2, Zenon
<1>8. SentInOrder(t, wire[t], writes, s.bufs, f, n + 1)
  BY <1>1, <1>2, <1>3, <1>7, OrderedAdd DEF SentInOrder
<1>9. f # <<>>
  <2>1. r \in Seq(Message \cup {Cookie}) /\ f \in Seq(Message \cup {Cookie})
    BY <1>1, BufferSeq, Zenon
  <2>2. Len(f) > 0
    BY <1>3, <2>1
  <2> QED BY <2>1, <2>2, NotEmpty, Zenon
<1>10. SentInOrder(t, wire[t], writes, Append(s.bufs, f), <<>>, n + 1)
  <2>1. n + 1 \in Nat
    BY <1>1
  <2> QED BY <1>1, <1>8, <1>9, <2>1, OrderedSpill DEF SentInOrder
<1>11. SentInOrder(t, wire[t], writes, Flushed(t, _size, _flush).bufs, IF _flush THEN <<>> ELSE f, n + 1)
  <2>1. CASE _flush
    <3>1. Flushed(t, _size, _flush).bufs = Append(s.bufs, f)
      BY <2>1, Zenon DEF Flushed, queued, s, f
    <3> QED BY <1>10, <2>1, <3>1, Zenon
  <2>2. CASE ~_flush
    <3>1. Flushed(t, _size, _flush).bufs = s.bufs
      BY <2>2, Zenon DEF Flushed, s
    <3> QED BY <1>8, <2>2, <3>1, Zenon
  <2> QED BY <2>1, <2>2, Zenon
<1>12. ASSUME q.bufs = <<>>, s.bufs # <<>>, wire[t] # <<>>
       PROVE  After(LastOf(wire[t]), Ids(Head(s.bufs)))
  <2>1. p # <<>> /\ s.bufs = Append(q.bufs, p)
    BY <1>5, <1>6, <1>12, Zenon
  <2>2. Head(s.bufs) = p
    BY <1>12, <2>1
  <2> QED BY <1>4, <1>12, <2>1, <2>2 DEF SentInOrder, Ordered, PacketizerOrdered
<1>13. ASSUME q.bufs = <<>>, Flushed(t, _size, _flush).bufs # <<>>, wire[t] # <<>>
       PROVE  After(LastOf(wire[t]), Ids(Head(Flushed(t, _size, _flush).bufs)))
  <2>1. CASE s.bufs = <<>>
    <3>1. Flushed(t, _size, _flush).bufs = Append(s.bufs, f)
      BY <1>13, <2>1, Zenon DEF Flushed, queued, s, f
    <3>2. Head(Flushed(t, _size, _flush).bufs) = f
      BY <2>1, <3>1
    <3> QED BY <1>8, <1>9, <1>13, <3>2 DEF SentInOrder, Ordered, PacketizerOrdered
  <2>2. CASE s.bufs # <<>>
    <3>1. Head(Flushed(t, _size, _flush).bufs) = Head(s.bufs)
      <4>1. Head(Append(s.bufs, f)) = Head(s.bufs)
        BY <1>1, <2>2
      <4> QED BY <4>1, Zenon DEF Flushed, queued, s, f
    <3> QED BY <1>12, <1>13, <2>2, <3>1
  <2> QED BY <2>1, <2>2
<1> QED BY <1>7, <1>11, <1>12, <1>13, Zenon DEF q, s, r, f, n

\* send keeps the order.
LEMMA OrderSending ==
    ASSUME TypeInv, OrderInv, NEW t \in Targets, NEW _size \in Sizes, NEW _flush \in BOOLEAN,
           Sending(t, _size, _flush)
    PROVE  OrderInv'
<1> SUFFICES ASSUME NEW d \in Targets PROVE (OrderedAt(d) /\ FrontUnsent(d))'
  BY Zenon DEF OrderInv
<1> DEFINE fl == Flushed(t, _size, _flush)
           pk == IF _flush THEN <<>> ELSE Filled(t, _size)
<1>1. /\ TypeBuffers /\ writes \in Seq(Write) /\ queues_ \in [Targets -> Queue]
      /\ fl \in Queue /\ UNCHANGED <<wire, repeated>>
      /\ OrderedAt(d) /\ FrontUnsent(d) /\ OrderedAt(t)
  BY SendInternParts, Zenon DEF TypeInv, TypeBuffers, Sending, OrderInv
<1>2. /\ SentInOrder(t, wire[t], writes, Spilled(t, _size).bufs, Rest(t, _size), accepted[t])
      /\ SentInOrder(t, wire[t], writes, fl.bufs, pk, accepted[t] + 1)
      /\ queues_[t].bufs = <<>> /\ Spilled(t, _size).bufs # <<>> /\ wire[t] # <<>> =>
            After(LastOf(wire[t]), Ids(Head(Spilled(t, _size).bufs)))
      /\ queues_[t].bufs = <<>> /\ fl.bufs # <<>> /\ wire[t] # <<>> =>
            After(LastOf(wire[t]), Ids(Head(fl.bufs)))
  BY <1>1, OrderParts, Zenon
<1>3. queues_[t].bufs # <<>> => /\ Head(Spilled(t, _size).bufs) = Head(queues_[t].bufs)
                                /\ Head(fl.bufs) = Head(queues_[t].bufs)
  BY SendInternFront, Zenon
<1> HIDE DEF fl, pk
<1>4. CASE Refused(t, _size)
  <2>1. /\ queues_'[d] = IF d = t THEN Spilled(t, _size) ELSE queues_[d]
        /\ packetizer_'[d] = IF d = t THEN Rest(t, _size) ELSE packetizer_[d]
        /\ UNCHANGED <<writes, accepted>>
    BY <1>1, <1>4, Zenon DEF Refused, TypeBuffers
  <2>2. OrderedAt(d)'
    BY <1>1, <1>2, <2>1, Zenon DEF OrderedAt
  <2>3. FrontUnsent(d)'
    BY <1>1, <1>2, <1>3, <2>1, Zenon DEF FrontUnsent
  <2> QED BY <2>2, <2>3, Zenon
<1>5. ASSUME Taken(t, _size, _flush)
      PROVE  /\ packetizer_'[d] = IF d = t THEN pk ELSE packetizer_[d]
             /\ accepted'[d] = IF d = t THEN accepted[d] + 1 ELSE accepted[d]
  BY <1>1, <1>5 DEF Taken, TypeBuffers, pk
<1>6. CASE TakenAndKept(t, _size, _flush)
  <2>1. /\ queues_'[d] = IF d = t THEN fl ELSE queues_[d]
        /\ UNCHANGED writes /\ Taken(t, _size, _flush)
    BY <1>1, <1>6, Zenon DEF TakenAndKept, fl
  <2>2. OrderedAt(d)'
    BY <1>1, <1>2, <1>5, <2>1, Zenon DEF OrderedAt
  <2>3. FrontUnsent(d)'
    BY <1>1, <1>2, <1>3, <2>1, Zenon DEF FrontUnsent
  <2> QED BY <2>2, <2>3
<1>7. CASE TakenAndSent(t, _size, _flush)
  <2>1. /\ Taken(t, _size, _flush) /\ fl.bufs # <<>> /\ queues_[t].bufs = <<>>
        /\ send_queued(t, fl, writes)
    BY <1>7, Zenon DEF TakenAndSent, fl
  <2>2. SentInOrder(d, wire[d], writes, IF d = t THEN fl.bufs ELSE queues_[d].bufs,
                packetizer_'[d], accepted'[d])
    BY <1>1, <1>2, <1>5, <2>1, Zenon DEF OrderedAt
  <2>3. /\ SentInOrder(d, wire[d], writes', queues_'[d].bufs, packetizer_'[d], accepted'[d])
        /\ d # t => queues_'[d] = queues_[d]
        /\ d = t /\ queues_'[d].bufs # <<>> =>
               Ids(Head(queues_'[d].bufs)) = Ids(Head(fl.bufs))
        /\ NoneDone(writes', d) => NoneDone(writes, d)
    BY <1>1, <2>1, <2>2, OrderQueued, Zenon
  <2>4. OrderedAt(d)'
    BY <1>1, <2>3, Zenon DEF OrderedAt
  <2>5. FrontUnsent(d)'
    BY <1>1, <1>2, <2>1, <2>3, Zenon DEF FrontUnsent
  <2> QED BY <2>4, <2>5
<1> QED BY <1>4, <1>6, <1>7, SendInternCases DEF Sending

-----------------------------------------------------------------------------
(* Pending writes of one target share a socket *)

\* The pending writes that are left are on sockets that stay as they are.
LEMMA SocketsKept ==
    ASSUME SocketsInv, UNCHANGED proto,
           \A i \in DOMAIN writes' : writes'[i].res = "pending" =>
              \E j \in DOMAIN writes :
                 /\ writes[j].res = "pending"
                 /\ writes'[i].target = writes[j].target /\ writes'[i].conn = writes[j].conn
                 /\ \A c \in DOMAIN sockets : c = writes[j].conn =>
                       c \in DOMAIN sockets' /\ sockets'[c] = sockets[c]
    PROVE  SocketsInv'
BY DEF SocketsInv, OnSocket

\* Results leave the writes on their sockets.
LEMMA SocketsSettled ==
    ASSUME TypeInv, SocketsInv, UNCHANGED proto, Settled(writes, writes'),
           \A i \in DOMAIN writes : writes'[i].res = "pending" /\ writes[i].res = "pending" =>
              \A c \in DOMAIN sockets : c = writes[i].conn =>
                  c \in DOMAIN sockets' /\ sockets'[c] = sockets[c]
    PROVE  SocketsInv'
<1>1. DOMAIN writes' = DOMAIN writes /\ DOMAIN writes = 1 .. Len(writes)
  BY DEF TypeInv, TypeBuffers, Settled
<1>2. \A i \in DOMAIN writes :
         /\ writes'[i].target = writes[i].target /\ writes'[i].conn = writes[i].conn
         /\ writes'[i].res = "pending" => writes[i].res = "pending"
  BY <1>1, Zenon DEF Settled
<1> QED BY <1>1, <1>2, SocketsKept, Zenon

\* send_queued writes to the registered connection.
LEMMA SocketsQueued ==
    ASSUME TypeInv, ConnectionsInv, SocketsInv, UNCHANGED <<proto, sockets>>,
           NEW t \in Targets, NEW q \in Queue, q.bufs # <<>>, NEW ws \in Seq(Write),
           \A i \in DOMAIN ws : \E j \in DOMAIN writes : ws[i] = writes[j],
           send_queued(t, q, ws)
    PROVE  SocketsInv'
<1>1. CASE QueueDropped(t, ws)
  <2>1. writes' = ws
    BY <1>1, Zenon DEF QueueDropped
  <2> QED BY <2>1, SocketsKept, Zenon
<1>2. ASSUME NEW r \in Queue, NEW b \in Buffer, NEW c \in 0 .. MaxConnections, NEW res \in Result,
             FrontWritten(t, q, ws, r, b, c, res)
      PROVE  SocketsInv'
  <2> DEFINE w == [target |-> t, gen |-> dropped[t], conn |-> c, buffer |-> b, res |-> res]
  <2>1. /\ writes' = Append(ws, w) /\ w.res = res /\ w.conn = c /\ w.target = t
        /\ \/ proto = "udp" /\ c = 0
           \/ proto = "tcp" /\ c \in connections_[t] /\ (res = "pending" => sockets[c].state = "open")
    BY <1>2, Zenon DEF FrontWritten, Started
  <2> HIDE DEF w
  <2>2. DOMAIN writes' = 1 .. Len(ws) + 1 /\ DOMAIN ws = 1 .. Len(ws) /\ Len(ws) \in Nat
        /\ writes'[Len(ws) + 1] = w /\ \A j \in 1 .. Len(ws) : writes'[j] = ws[j]
    BY <2>1
  <2>3. res = "pending" => OnSocket(w)
    <3>1. c \in connections_[t] => c \in DOMAIN sockets /\ sockets[c] \in Socket
                                   /\ sockets[c].target = t
      BY DEF TypeInv, TypeNetwork, ConnectionsInv
    <3> QED BY <2>1, <3>1, Zenon DEF OnSocket
  <2>4. ASSUME NEW i \in DOMAIN writes', writes'[i].res = "pending" PROVE OnSocket(writes'[i])
    <3>1. CASE i = Len(ws) + 1
      BY <2>1, <2>2, <2>3, <2>4, <3>1
    <3>2. CASE i \in DOMAIN ws
      BY <2>2, <2>4, <3>2 DEF SocketsInv
    <3> QED BY <2>2, <3>1, <3>2
  <2> QED BY <2>4, Zenon DEF SocketsInv, OnSocket
<1> QED BY <1>1, <1>2, SendQueuedCases, Zenon DEF AFrontWritten

\* No socket has a write initially.
LEMMA SocketsInit == Init => SocketsInv
BY DEF Init, SocketsInv

\* Every step leaves the writes on their targets' sockets.
LEMMA SocketsNext ==
    ASSUME TypeInv, TypeInv', ConnectionsInv, SocketsInv, [Next]_vars
    PROVE  SocketsInv'
<1>1. writes \in Seq(Write) /\ Settled(writes, writes) /\ queues_ \in [Targets -> Queue]
      /\ "failed" \in Result \ {"pending"} /\ "error" \in Result \ {"pending"}
      /\ "ok" \in Result \ {"pending"}
  BY Zenon DEF TypeInv, TypeBuffers, Settled, Result
<1>2. sockets \in Seq(Socket)
  BY Zenon DEF TypeInv, TypeNetwork
<1>3. CASE UNCHANGED <<writes, sockets, proto>>
  BY <1>1, <1>3, SocketsSettled
<1>4. ASSUME NEW t \in Targets, NEW session, NEW _size \in Sizes, NEW _flush \in BOOLEAN,
             send_to(t, _size, _flush) \/ send(t, session, _size, _flush)
      PROVE  SocketsInv'
  <2>1. PICK d \in Targets : send_intern(d, _size, _flush)
    BY <1>4, Zenon DEF send_to, send, TypeInv, TypeControl, AtMostOne
  <2>2. UNCHANGED <<proto, sockets>>
    BY <1>4, Zenon DEF send_to, send
  <2>3. CASE UNCHANGED writes
    BY <1>3, <2>2, <2>3, Zenon
  <2>4. CASE TakenAndSent(d, _size, _flush)
    BY <1>1, <2>2, <2>4, SendInternParts, SocketsQueued, Zenon DEF TakenAndSent
  <2> QED BY <2>1, <2>3, <2>4, SendInternCases DEF Refused, TakenAndKept
<1>5. CASE flush_cbk
  <2>1. PICK t \in Targets : flush(t)
    BY <1>5 DEF flush_cbk, TypeInv, TypeControl, AtMostOne
  <2>2. UNCHANGED <<proto, sockets>>
    BY <1>5, Zenon DEF flush_cbk
  <2>3. CASE UNCHANGED writes
    BY <1>3, <2>2, <2>3, Zenon
  <2>4. CASE queues_[t].bufs # <<>> /\ send_queued(t, queues_[t], writes)
    BY <1>1, <2>2, <2>4, SocketsQueued, Zenon
  <2> QED BY <2>1, <2>3, <2>4 DEF flush
<1>6. ASSUME NEW i \in DOMAIN writes, WriteDone(i) \/ WriteError(i) PROVE SocketsInv'
  <2>1. PICK res \in Result \ {"pending"} : writes' = [writes EXCEPT ![i].res = res]
    BY <1>1, <1>6, Zenon DEF WriteDone, WriteError
  <2>2. Settled(writes, writes')
    BY <1>1, <2>1, SetResult, Zenon
  <2> QED BY <1>6, <2>2, SocketsSettled DEF WriteDone, WriteError
<1>7. ASSUME NEW i \in DOMAIN writes, send_cbk(i) PROVE SocketsInv'
  <2> DEFINE t == writes[i].target
             left == RemoveAt(writes, i)
  <2>1. /\ t \in Targets /\ queues_[t] \in Queue /\ left \in Seq(Write)
        /\ \A j \in DOMAIN left : \E k \in DOMAIN writes : left[j] = writes[k]
    <3>1. writes[i] \in Write /\ left \in Seq(Write)
      BY <1>1, WritesRemove
    <3>2. t \in Targets
      BY <3>1, Zenon DEF Write
    <3>3. DOMAIN left = 1 .. Len(writes) - 1
          /\ \A j \in 1 .. Len(writes) - 1 :
                left[j] = IF j < i THEN writes[j] ELSE writes[j + 1]
      BY <1>1, WritesRemove, Zenon
    <3>4. \A j \in 1 .. Len(writes) - 1 : j \in DOMAIN writes /\ j + 1 \in DOMAIN writes
      BY <1>1
    <3> QED BY <1>1, <3>1, <3>2, <3>3, <3>4, Zenon
  <2>2. UNCHANGED <<proto, sockets>>
    BY <1>7, Zenon DEF send_cbk
  <2>3. \/ writes' = left
        \/ Len(queues_[t].bufs) > 1 /\ send_queued(t, popped(queues_[t]), left)
    BY <1>7, Zenon DEF send_cbk
  <2> HIDE DEF t, left
  <2>4. CASE writes' = left
    BY <2>1, <2>2, <2>4, SocketsKept, Zenon
  <2>5. CASE Len(queues_[t].bufs) > 1 /\ send_queued(t, popped(queues_[t]), left)
    <3>1. queues_[t].bufs \in Seq(Buffer) /\ queues_[t].bufs # <<>>
      BY <2>1, <2>5, QueueParts, NotEmpty
    <3>2. popped(queues_[t]) \in Queue /\ popped(queues_[t]).bufs # <<>>
      BY <2>1, <2>5, <3>1, PoppedParts, Zenon
    <3> QED BY <2>1, <2>2, <2>5, <3>2, SocketsQueued
  <2> QED BY <2>3, <2>4, <2>5
<1>8. ASSUME NEW i \in DOMAIN writes, write_completion_condition(i) PROVE SocketsInv'
  <2> DEFINE c == writes[i].conn
             vs == Aborted({c}, "failed")
  <2>1. /\ Settled(writes, writes') /\ UNCHANGED proto
        /\ sockets' = [sockets EXCEPT ![c].state = "closed"]
    BY <1>8, CompletionResults, Zenon DEF write_completion_condition, stop_and_remove_connection, close,
                                   Results
  <2>2. Settled(writes, vs) /\ \A j \in DOMAIN writes : vs[j].res = "pending" => writes[j].conn # c
    BY <1>1, AbortedSettles
  <2>3. writes' = [vs EXCEPT ![i].res = "error"]
    BY <1>8, Zenon DEF write_completion_condition
  <2> HIDE DEF vs, c
  <2>4. vs \in Seq(Write) /\ DOMAIN vs = DOMAIN writes
    BY <1>1, <2>2 DEF Settled
  <2>5. writes'[i].res = "error" /\ \A j \in DOMAIN writes : j # i => writes'[j] = vs[j]
    BY <1>1, <2>3, <2>4, SetResult, Zenon
  <2>6. \A j \in DOMAIN writes : writes'[j].res = "pending" => writes[j].conn # c
    BY <2>2, <2>5, Zenon
  <2>7. \A d \in DOMAIN sockets : d # c => d \in DOMAIN sockets' /\ sockets'[d] = sockets[d]
    BY <1>2, <2>1, Zenon
  <2> QED BY <2>1, <2>6, <2>7, SocketsSettled, Zenon
<1>9. ASSUME NEW c \in DOMAIN sockets, ConnectionLost(c) PROVE SocketsInv'
  <2>1. /\ Settled(writes, writes') /\ UNCHANGED proto
        /\ sockets' = [sockets EXCEPT ![c].state = "lost"]
        /\ \A j \in DOMAIN writes : writes'[j].res = "pending" => writes[j].conn # c
    BY <1>1, <1>9, AbortedSettles DEF ConnectionLost
  <2>2. \A d \in DOMAIN sockets : d # c => d \in DOMAIN sockets' /\ sockets'[d] = sockets[d]
    BY <1>2, <2>1, Zenon
  <2> QED BY <2>1, <2>2, SocketsSettled
<1>10. ASSUME NEW c \in DOMAIN sockets, receive_cbk_error(c) PROVE SocketsInv'
  <2>1. /\ UNCHANGED <<proto, writes>> /\ sockets[c].state = "lost"
        /\ sockets' = [sockets EXCEPT ![c].state = "closed"]
    BY <1>10, Zenon DEF receive_cbk_error, stop_and_remove_connection, close
  <2>2. \A d \in DOMAIN sockets : d # c => d \in DOMAIN sockets' /\ sockets'[d] = sockets[d]
    BY <1>2, <2>1, Zenon
  <2>3. \A j \in DOMAIN writes : writes[j].res = "pending" =>
           \/ proto = "udp" /\ writes[j].conn = 0
           \/ writes[j].conn # c
    BY <2>1, Zenon DEF SocketsInv, OnSocket
  <2>4. c # 0
    BY <1>2
  <2>5. \A j \in DOMAIN writes : writes[j].res = "pending" => writes[j].conn # c
    BY <2>3, <2>4, Zenon
  <2> QED BY <1>1, <2>1, <2>2, <2>5, SocketsSettled, Zenon
<1>11. CASE close_all
  <2> DEFINE conns == UNION {connections_[t] : t \in Targets}
  <2>1. /\ Settled(writes, writes') /\ UNCHANGED proto
        /\ sockets' = [c \in DOMAIN sockets |->
               IF c \in conns THEN [sockets[c] EXCEPT !.state = "closed"] ELSE sockets[c]]
        /\ \A j \in DOMAIN writes : writes'[j].res = "pending" => writes[j].conn \notin conns
    BY <1>1, <1>11, AbortedSettles DEF close_all
  <2> HIDE DEF conns
  <2>2. \A d \in DOMAIN sockets : d \notin conns => d \in DOMAIN sockets' /\ sockets'[d] = sockets[d]
    BY <2>1, Zenon
  <2> QED BY <2>1, <2>2, SocketsSettled
<1>12. CASE stop_udp
  <2>1. Settled(writes, writes') /\ UNCHANGED <<proto, sockets>>
    BY <1>1, <1>12, AbortedSettles DEF stop_udp
  <2> QED BY <2>1, SocketsSettled, Zenon
<1>13. ASSUME NEW t \in Targets, accept_cbk_tcp(t) \/ accept_cbk_local(t) PROVE SocketsInv'
  <2>1. /\ UNCHANGED <<proto, writes>>
        /\ UNCHANGED sockets \/ sockets' = Append(sockets, [target |-> t, state |-> "open"])
    BY <1>13, Zenon DEF accept_cbk_tcp, accept_cbk_local, Accepted
  <2>2. \A d \in DOMAIN sockets : d \in DOMAIN sockets' /\ sockets'[d] = sockets[d]
    BY <1>2, <2>1
  <2> QED BY <1>1, <2>1, <2>2, SocketsSettled
<1>14. ASSUME NEW t \in Targets,
              AcceptCompletes(t) \/ receive_cbk_tcp(t) \/ receive_cbk_udp(t) \/ add_default_target(t)
       PROVE  SocketsInv'
  BY <1>3, <1>14 DEF AcceptCompletes, receive_cbk_tcp, receive_cbk_udp, RecordRequest,
                     add_default_target
<1>15. CASE UNCHANGED vars
  BY <1>3, <1>15, Zenon DEF vars
<1> QED BY <1>4, <1>5, <1>6, <1>7, <1>8, <1>9, <1>10, <1>11, <1>12, <1>13, <1>14, <1>15, Zenon
        DEF Next, stop_tcp, stop_local

-----------------------------------------------------------------------------
(* The channel *)

\* The network takes the writes of one target in the order in which they were
\* started.
LEMMA DoneInOrder ==
    ASSUME TypeInv, ConnectionsInv, SocketsInv, NEW i \in DOMAIN writes, WriteDone(i)
    PROVE  \A j \in 1 .. i - 1 : j \notin Pending(writes[i].target, writes)
<1> SUFFICES ASSUME NEW j \in 1 .. i - 1, j \in Pending(writes[i].target, writes) PROVE FALSE
  BY Zenon
<1>1. /\ writes[i].res = "pending" /\ writes[j].res = "pending" /\ j \in DOMAIN writes
      /\ writes[j].target = writes[i].target
  BY Zenon DEF WriteDone, Pending
<1>2. writes[j].conn # writes[i].conn
  BY <1>1, Zenon DEF WriteDone
<1>3. OnSocket(writes[i]) /\ OnSocket(writes[j])
  BY <1>1, Zenon DEF SocketsInv
<1>4. ASSUME NEW w, proto = "tcp", OnSocket(w)
      PROVE  w.conn \in DOMAIN sockets /\ connections_[w.target] = {w.conn}
  BY <1>4, Zenon DEF OnSocket, ConnectionsInv, OpenIsRegistered
<1>5. CASE proto = "udp"
  BY <1>2, <1>3, <1>5, Zenon DEF OnSocket
<1>6. CASE proto = "tcp"
  <2>1. connections_[writes[i].target] = {writes[i].conn}
        /\ connections_[writes[i].target] = {writes[j].conn}
    BY <1>1, <1>3, <1>4, <1>6
  <2> QED BY <1>2, <2>1, Zenon
<1> QED BY <1>3, <1>5, <1>6, Zenon DEF OnSocket

\* The invariant behind ImplementsChannel holds initially.
LEMMA ChannelInvInit == Init => ChannelInv
BY TypeInit, ConnectionsInit, RequestsInit, WritesInit, SocketsInit, OrderInit
   DEF ChannelInv, TablesInv

\* Every step keeps it.
LEMMA ChannelInvNext == ChannelInv /\ [Next]_vars => ChannelInv'
<1> SUFFICES ASSUME ChannelInv, [Next]_vars PROVE ChannelInv'
  BY Zenon
<1>1. TypeInv /\ ConnectionsInv /\ AnsweredAtMostOnce /\ WritesInv /\ SocketsInv /\ OrderInv
  BY Zenon DEF ChannelInv, TablesInv
<1>2. TypeInv' /\ ConnectionsInv' /\ AnsweredAtMostOnce' /\ WritesInv'
  BY <1>1, TypeNext, ConnectionsNext, RequestsNext, WritesNext
<1>3. SocketsInv'
  BY <1>1, <1>2, SocketsNext, Zenon
<1>4. OrderInv'
  <2>1. ASSUME NEW i \in DOMAIN writes, WriteDone(i) PROVE OrderInv'
    BY <1>1, <2>1, DoneInOrder, OrderDone
  <2> QED BY <1>1, <2>1, BufferSteps, OrderResults, OrderSending, OrderFlushing, OrderSendCbk
          DEF BufferStep
<1> QED BY <1>2, <1>3, <1>4, Zenon DEF ChannelInv, TablesInv

\* A buffer the network takes is a run of new messages, or, once flush() wrote the
\* front again, the last buffer.
LEMMA DoneTransmits ==
    ASSUME ChannelInv, NEW i \in DOMAIN writes, WriteDone(i), writes[i].target = Observed
    PROVE  Sender!Transmit
<1> DEFINE s == Ids(writes[i].buffer)
           n == accepted[Observed]
           wr == wire[Observed]
           first == s[1]
           last == s[Len(s)]
<1>1. TypeInv /\ ConnectionsInv /\ WritesInv /\ SocketsInv /\ OrderInv /\ Observed \in Targets
  BY Bounds, Zenon DEF ChannelInv, TablesInv
<1>2. i \in Pending(Observed, writes)
  BY Zenon DEF Pending, WriteDone
<1>3. OrderedAt(Observed) /\ FrontUnsent(Observed)
  BY <1>1, Zenon DEF OrderInv
<1>4. /\ Consecutive(s) /\ last <= n /\ n \in Nat
      /\ wr # <<>> => Follows(LastOf(wr), s) /\ Consecutive(LastOf(wr))
  BY <1>1, <1>2, <1>3
     DEF OrderedAt, SentInOrder, Ordered, WritesOrdered, WireOrdered, Within, TypeInv, TypeBuffers
<1>5. /\ wire'[Observed] = Append(wr, s) /\ accepted' = accepted /\ repeated' = repeated
  BY <1>1, Zenon DEF WriteDone, TypeInv, TypeBuffers
<1>6. /\ first \in Nat /\ last \in Nat /\ first > 0 /\ first <= last
      /\ last - first + 1 = Len(s) /\ Len(s) \in Nat
  <2> HIDE DEF s
  <2>1. Consecutive(s)
    BY <1>4, Zenon
  <2> QED BY <2>1, ConsecutiveEnds
<1>7. s = [k \in 1 .. last - first + 1 |-> first + k - 1]
  <2>1. s \in Seq(Nat \ {0}) /\ \A k \in 1 .. Len(s) : s[k] = first + k - 1
    BY <1>4, Zenon DEF Consecutive
  <2>2. s = [k \in 1 .. Len(s) |-> s[k]]
    BY <2>1
  <2> HIDE DEF s, first, last
  <2> QED BY <1>6, <2>1, <2>2, Zenon
<1> HIDE DEF s, first, last
<1>8. CASE wr = <<>> \/ After(LastOf(wr), s)
  <2>1. Sender!Newest < first /\ Sender!Newest \in Nat
    <3>1. CASE wr = <<>>
      BY <1>6, <3>1, Zenon DEF Sender!Newest
    <3>2. CASE wr # <<>>
      <4>1. Sender!Newest = LastOf(wr)[Len(LastOf(wr))]
        BY <3>2, Zenon DEF Sender!Newest, LastOf
      <4>2. LastOf(wr)[Len(LastOf(wr))] \in Nat
        BY <1>4, <3>2, ConsecutiveEnds
      <4> QED BY <1>8, <3>2, <4>1, <4>2 DEF After, first
    <3> QED BY <3>1, <3>2, Zenon
  <2>2. first \in Sender!Newest + 1 .. n /\ last \in first .. n
    BY <1>4, <1>6, <2>1
  <2> QED BY <1>5, <1>7, <2>2, Zenon DEF Sender!Transmit
<1>9. CASE wr # <<>> /\ ~After(LastOf(wr), s)
  <2>1. s = LastOf(wr)
    BY <1>4, <1>9, Zenon DEF Follows
  <2>2. Observed \in repeated
    <3> SUFFICES ASSUME Observed \notin repeated PROVE FALSE
      BY Zenon
    <3>1. FrontHasWrite(Observed) /\ ~NoneOf(writes, Observed)
      BY <1>1, Zenon DEF WritesInv, NoneOf
    <3>2. /\ queues_[Observed].bufs # <<>>
          /\ JustOne(writes, Observed, Head(queues_[Observed].bufs), dropped[Observed])
      BY <3>1, Zenon DEF FrontHasWrite
    <3>3. /\ writes[i].buffer = Head(queues_[Observed].bufs)
          /\ \A j \in DOMAIN writes : writes[j].target = Observed => j = i
      BY <3>2, Zenon DEF JustOne
    <3>4. NoneDone(writes, Observed)
      BY <3>3, Zenon DEF NoneDone, WriteDone
    <3>5. After(LastOf(wr), s)
      BY <1>3, <1>9, <3>2, <3>3, <3>4 DEF FrontUnsent, s
    <3> QED BY <1>9, <3>5
  <2> QED BY <1>5, <1>9, <2>1, <2>2 DEF Sender!Transmit, LastOf
<1> QED BY <1>8, <1>9, Zenon

\* Every step of the endpoint is a step of the channel, or leaves it as it is.
LEMMA ChannelStep == ChannelInv /\ [Next]_vars => [Sender!Next]_(Sender!vars)
<1> SUFFICES ASSUME ChannelInv, [Next]_vars PROVE [Sender!Next]_(Sender!vars)
  BY Zenon
<1>1. TypeInv /\ Observed \in Targets
  BY Bounds, Zenon DEF ChannelInv, TablesInv
<1>2. CASE UNCHANGED <<accepted, wire, repeated>>
  BY <1>2, Zenon DEF Sender!vars
<1>3. CASE Results
  BY <1>2, <1>3, Zenon DEF Results
<1>4. ASSUME NEW t \in Targets, NEW _size \in Sizes, NEW _flush \in BOOLEAN,
             Sending(t, _size, _flush)
      PROVE  [Sender!Next]_(Sender!vars)
  <2>1. UNCHANGED <<wire, repeated>>
    BY <1>4, Zenon DEF Sending
  <2>2. UNCHANGED accepted \/ accepted' = [accepted EXCEPT ![t] = @ + 1]
    BY <1>4, SendInternCases, Zenon DEF Sending, Refused, TakenAndSent, TakenAndKept, Taken
  <2>3. accepted'[Observed] = accepted[Observed] \/ accepted'[Observed] = accepted[Observed] + 1
    BY <1>1, <2>2, Zenon DEF TypeInv, TypeBuffers
  <2> QED BY <2>1, <2>3, Zenon DEF Sender!Next, Sender!Accept, Sender!vars
<1>5. ASSUME NEW t \in Targets, Flushing(t) PROVE [Sender!Next]_(Sender!vars)
  <2>1. UNCHANGED <<accepted, wire>> /\ repeated \subseteq repeated'
    BY <1>5, Zenon DEF Flushing, flush
  <2>2. CASE Observed \in repeated' /\ Observed \notin repeated
    BY <2>1, <2>2, Zenon DEF Sender!Next, Sender!Restart, Sender!vars
  <2>3. CASE (Observed \in repeated') = (Observed \in repeated)
    BY <2>1, <2>3, Zenon DEF Sender!vars
  <2> QED BY <2>1, <2>2, <2>3
<1>6. ASSUME NEW i \in DOMAIN writes, WriteDone(i) PROVE [Sender!Next]_(Sender!vars)
  <2>1. CASE writes[i].target = Observed
    BY <1>6, <2>1, DoneTransmits DEF Sender!Next
  <2>2. CASE writes[i].target # Observed
    <3>1. wire'[Observed] = wire[Observed] /\ UNCHANGED <<accepted, repeated>>
      BY <1>1, <1>6, <2>2 DEF WriteDone, TypeInv, TypeBuffers
    <3> QED BY <3>1, Zenon DEF Sender!vars
  <2> QED BY <2>1, <2>2, Zenon
<1>7. ASSUME NEW i \in DOMAIN writes, send_cbk(i) PROVE [Sender!Next]_(Sender!vars)
  BY <1>2, <1>7, Zenon DEF send_cbk
<1> QED BY <1>1, <1>3, <1>4, <1>5, <1>6, <1>7, BufferSteps DEF BufferStep

\* What is written to a target are the messages accepted for it, in order and each
\* at most once; only flush() repeats a buffer (send_intern, flush, send_queued,
\* send_cbk, over all that fails, is stopped or reconnects).
THEOREM ServerImplementsChannel == Spec => ImplementsChannel
<1>1. Init => Sender!Init
  BY Bounds DEF Init, Sender!Init
<1>2. Spec => []ChannelInv
  BY ChannelInvInit, ChannelInvNext, PTL DEF Spec
<1>3. ChannelInv /\ [Next]_vars => [Sender!Next]_(Sender!vars)
  BY ChannelStep, Zenon
<1> QED BY <1>1, <1>2, <1>3, PTL DEF Spec, ImplementsChannel, Sender!Spec
=============================================================================
