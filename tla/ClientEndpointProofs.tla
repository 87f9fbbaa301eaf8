------------------------ MODULE ClientEndpointProofs ------------------------
(***************************************************************************)
(* Proofs about the client endpoint, for any sizes, limits and numbers of  *)
(* messages and failures.                                                  *)
(***************************************************************************)
EXTENDS ClientEndpoint, BuffersProofs

-----------------------------------------------------------------------------
(* What the lemmas speak of.  tlapm is faster when all definitions precede *)
(* all facts.                                                              *)

\* vs are the writes ws, some of the pending ones with a result.
Settled(ws, vs) ==
    /\ vs \in Seq(Write) /\ Len(vs) = Len(ws)
    /\ \A i \in 1 .. Len(ws) :
          /\ vs[i].buffer = ws[i].buffer
          /\ ws[i].res # "pending" => vs[i].res = ws[i].res

\* r is queue q, a cookie perhaps put into its front.
SameButFront(q, r) ==
    /\ r \in Seq(Buffer) /\ r # <<>> /\ Len(r) = Len(q)
    /\ \A k \in 1 .. Len(q) : Ids(r[k]) = Ids(q[k])
    /\ QueuedPayload(r) = QueuedPayload(q)

\* What connect does: a connect is under way or has an answer, or the endpoint
\* gave up.
States == {"CLOSED", "CONNECTING", "ESTABLISHED"}
Connects(s, st) ==
    /\ socket_' \in Socket /\ socket_'.writes = s.writes
    /\ faults' \in 0 .. MaxFaults
    /\ state_' \in {"CONNECTING", st}
    /\ \/ socket_'.connects # <<>> /\ given_up' = given_up
       \/ given_up' = given_up \cup {"connect"}

\* What send_queued does: the front is written, if there is one.
Writes(s, q, n) ==
    /\ socket_' \in Socket /\ socket_'.connects = s.connects
    /\ queue_' \in Seq(Buffer) /\ queue_size_' = n + QueuedSize(queue_') - QueuedSize(q)
    /\ IF q = <<>> THEN queue_' = q /\ socket_'.writes = s.writes
       ELSE /\ SameButFront(q, queue_')
            /\ \E w \in Write : /\ w.buffer = Head(queue_')
                                /\ socket_'.writes = Append(s.writes, w)

\* Queue q is counted by n, exactly if x holds, and with packetizer p bounded.
\* The packetizer is part of the bound: it may join the queue although the limit
\* is reached.
Sized(x, q, n, p) ==
    /\ q \in Seq(Buffer) /\ n \in Nat /\ p \in Seq(Message)
    /\ n >= QueuedSize(q) /\ (x => n = QueuedSize(q))
    /\ QueuedPayload(q) + BufferSize(p) < queue_limit_ + max_message_size_

Exact == proto # "udp" \/ restarts = 0
TypeRest ==
    /\ proto \in Protocols /\ state_ \in States /\ socket_ \in Socket
    /\ accepted \in 0 .. MaxMessages /\ wire \in Seq(Seq(Nat \ {0}))
    /\ given_up \subseteq {"send", "connect", "aborted", "other"}
    /\ faults \in 0 .. MaxFaults /\ restarts \in 0 .. MaxFaults
Flags ==
    /\ sending_blocked_ \in BOOLEAN /\ was_not_connected_ \in BOOLEAN
    /\ flush_timer_ \in BOOLEAN /\ connect_timer_ \in BOOLEAN /\ reconnects \in BOOLEAN
    /\ announcing \in BOOLEAN /\ stopping \in BOOLEAN
Queued == Sized(Exact, queue_, queue_size_, packetizer_)
QueueInv == TypeRest /\ Flags /\ Queued /\ StallIsGivenUp

\* Steps that leave the queue alone; some writes may get a result.
Quiet ==
    /\ UNCHANGED <<packetizer_, queue_, accepted, wire, restarts, sending_blocked_,
                   was_not_connected_>>
    /\ Settled(socket_.writes, socket_'.writes)

\* restart and stop.
Drop ==
    /\ UNCHANGED <<packetizer_, accepted, wire>>
    /\ restarts' = restarts + 1
    /\ queue_' \in {<<>>, queue_}
    /\ Settled(socket_.writes, socket_'.writes)

\* connect_cbk writes the front again.
Resend ==
    /\ UNCHANGED <<packetizer_, accepted, wire, restarts, sending_blocked_>>
    /\ queue_ # <<>> /\ was_not_connected_ /\ ~was_not_connected_'
    /\ \E s \in Socket : s.writes = socket_.writes /\ Writes(s, queue_, queue_size_)

\* Somebody will start the write.
Retrying == socket_.connects # <<>> \/ connect_timer_ \/ reconnects
GaveUp == given_up # {} \/ (proto = "local" /\ sending_blocked_)

\* The packetizer, the queue and its size once the packetizer made room.
Spills(_size) == packetizer_ # <<>> /\ BufferSize(packetizer_) + _size > max_message_size_
Rest(_size) == IF Spills(_size) THEN <<>> ELSE packetizer_
SpilledQueue(_size) == IF Spills(_size) THEN Append(queue_, packetizer_) ELSE queue_
SpilledCount(_size) == IF Spills(_size) THEN queue_size_ + BufferSize(packetizer_) ELSE queue_size_

\* The same when the message was added.
Filled(_size) == Append(Rest(_size), [id |-> accepted + 1, size |-> _size])
FlushedQueue(_size, _flush) ==
    IF _flush THEN Append(SpilledQueue(_size), Filled(_size)) ELSE SpilledQueue(_size)
FlushedCount(_size, _flush) ==
    IF _flush THEN SpilledCount(_size) + BufferSize(Filled(_size)) ELSE SpilledCount(_size)

\* Queue q of size n replaces the queue, and is written if that was empty.
Joins(q, n) ==
    IF queue_ = <<>> THEN Writes(socket_, q, n)
    ELSE queue_' = q /\ queue_size_' = n /\ UNCHANGED socket_

Refused(_size) ==
    /\ packetizer_' = Rest(_size) /\ queue_' = SpilledQueue(_size)
    /\ queue_size_' = SpilledCount(_size)
    /\ given_up' = IF queue_ = <<>> /\ queue_' # <<>> THEN given_up \cup {"send"} ELSE given_up
    /\ UNCHANGED <<socket_, accepted>>
Taken(_size, _flush) ==
    /\ SpilledCount(_size) + _size <= queue_limit_
    /\ packetizer_' = IF _flush THEN <<>> ELSE Filled(_size)
    /\ Joins(FlushedQueue(_size, _flush), FlushedCount(_size, _flush))
    /\ accepted' = accepted + 1 /\ UNCHANGED given_up
Sending(_size, _flush) ==
    /\ ~sending_blocked_ /\ _size <= max_message_size_ /\ accepted < MaxMessages
    /\ Refused(_size) \/ Taken(_size, _flush)
    /\ UNCHANGED <<proto, state_, sending_blocked_, was_not_connected_, connect_timer_,
                   reconnects, wire, restarts, faults>>
Moving ==
    /\ packetizer_ # <<>> /\ packetizer_' = <<>>
    /\ Joins(Append(queue_, packetizer_), queue_size_ + BufferSize(packetizer_))
    /\ UNCHANGED <<proto, state_, sending_blocked_, was_not_connected_, connect_timer_,
                   reconnects, accepted, wire, restarts, given_up, faults>>

\* send_cbk goes on with the next buffer, or does not.
Popped(i) ==
    /\ socket_.writes[i].res = "ok" /\ queue_ # <<>>
    /\ \E s \in Socket :
          /\ s.writes = RemoveAt(socket_.writes, i)
          /\ Writes(s, Tail(queue_), queue_size_ - BufferSize(Head(queue_)))
    /\ UNCHANGED <<proto, state_, sending_blocked_, packetizer_, was_not_connected_,
                   accepted, wire, restarts, given_up, faults>>
Answered(i) ==
    /\ socket_.writes[i].res # "pending"
    /\ Settled(RemoveAt(socket_.writes, i), socket_'.writes)
    /\ \/ /\ UNCHANGED <<queue_, queue_size_>>
          /\ socket_.writes[i].res = "ok" => queue_ = <<>>
       \/ queue_' = <<>> /\ queue_size_' = 0 /\ sending_blocked_
    /\ was_not_connected_' \in {was_not_connected_, TRUE}
    /\ socket_' \in Socket /\ state_' \in States /\ faults' \in 0 .. MaxFaults
    /\ given_up \subseteq given_up'
    /\ given_up' \subseteq {"send", "connect", "aborted", "other"}
    /\ queue_' = <<>> \/ GaveUp' \/ (was_not_connected_' /\ Retrying')
    /\ UNCHANGED <<proto, sending_blocked_, packetizer_, accepted, wire, restarts>>

\* The network takes the i-th write.
Transmitted(i) ==
    /\ socket_.writes[i].res = "pending"
    /\ \A j \in 1 .. i - 1 : socket_.writes[j].res # "pending"
    /\ socket_' \in Socket /\ Settled(socket_.writes, socket_'.writes)
    /\ \A j \in DOMAIN socket_.writes :
          IF j = i THEN socket_'.writes[j].res = "ok"
          ELSE socket_'.writes[j] = socket_.writes[j]
    /\ wire' = Append(wire, Ids(socket_.writes[i].buffer))
    /\ UNCHANGED <<proto, sending_blocked_, packetizer_, queue_, accepted, was_not_connected_,
                   restarts>>

\* What a step is, as far as the buffers are concerned.
BufferStep ==
    \/ Quiet \/ Drop \/ Resend \/ Moving
    \/ \E n \in Sizes, f \in BOOLEAN : Sending(n, f)
    \/ \E i \in DOMAIN socket_.writes : Popped(i) \/ Answered(i) \/ Transmitted(i)

Pending(ws) == {i \in DOMAIN ws : ws[i].res = "pending"}
InOrder == Ordered(Pending(socket_.writes), wire, socket_.writes, queue_, packetizer_, accepted)

\* Until restart or stop is called there is at most one write, that of the front
\* of the queue, and the front was not sent before; waiting says that it will be
\* written once the connection is there.
FrontOnly(wr, ws, q, waiting) ==
    /\ waiting => ws = <<>> /\ q # <<>>
    /\ Len(ws) <= 1
    /\ ws # <<>> => q # <<>> /\ Ids(ws[1].buffer) = Ids(q[1])
    /\ q # <<>> /\ wr # <<>> /\ (\A i \in DOMAIN ws : ws[i].res # "ok")
           => After(LastOf(wr), Ids(q[1]))
FrontInv ==
    restarts = 0 => /\ ~sending_blocked_
                    /\ FrontOnly(wire, socket_.writes, queue_, was_not_connected_)

ChannelInv == QueueInv /\ InOrder /\ FrontInv

\* What is assumed of the constants, one by one.
LEMMA Bounds == /\ max_message_size_ \in Nat /\ max_message_size_ > 0 /\ HeaderSize \in Nat
                /\ queue_limit_ \in Nat /\ MaxMessages \in Nat /\ MaxFaults \in Nat
BY ConstantsAssumption

-----------------------------------------------------------------------------
(* Sockets and the operations under way on them *)

\* A socket is its connection and what is under way on it.
LEMMA SocketParts ==
    ASSUME NEW s \in Socket
    PROVE  /\ s.conn \in {"closed", "open", "connecting", "up"}
           /\ s.writes \in Seq(Write)
           /\ s.connects \in Seq(Outcomes) /\ s.reads \in Seq(Outcomes)
BY Zenon DEF Socket

\* A write gets its result and stays a write.
LEMMA WriteResult ==
    ASSUME NEW w \in Write, NEW res \in Results
    PROVE  /\ [w EXCEPT !.res = res] \in Write
           /\ [w EXCEPT !.res = res].res = res
           /\ [w EXCEPT !.res = res].buffer = w.buffer
           /\ w.buffer \in Buffer /\ w.res \in Results
BY Zenon DEF Write

\* Closing the socket gives every pending write a result.
LEMMA SettleWritesSettles ==
    ASSUME NEW ws \in Seq(Write), NEW to \in Results
    PROVE  Settled(ws, SettleWrites(ws, to))
<1> DEFINE vs == SettleWrites(ws, to)
<1>1. DOMAIN ws = 1 .. Len(ws) /\ Len(ws) \in Nat
  OBVIOUS
<1>2. vs = [i \in 1 .. Len(ws) |-> [ws[i] EXCEPT !.res = Settle(ws[i].res, to)]]
  BY <1>1, Zenon DEF SettleWrites
<1>3. ASSUME NEW i \in 1 .. Len(ws)
      PROVE  /\ vs[i] \in Write /\ vs[i].buffer = ws[i].buffer
             /\ ws[i].res # "pending" => vs[i].res = ws[i].res
  <2>1. ws[i] \in Write
    OBVIOUS
  <2>2. ws[i].res \in Results
    BY <2>1, WriteResult, Zenon
  <2>3. Settle(ws[i].res, to) \in Results
        /\ (ws[i].res # "pending" => Settle(ws[i].res, to) = ws[i].res)
    BY <2>2, Zenon DEF Settle
  <2>4. vs[i] = [ws[i] EXCEPT !.res = Settle(ws[i].res, to)]
    BY <1>2, Zenon
  <2> QED BY <2>1, <2>3, <2>4, WriteResult
<1> HIDE DEF vs
<1>4. vs \in Seq(Write) /\ Len(vs) = Len(ws)
  <2>1. DOMAIN vs = 1 .. Len(ws) /\ vs = [i \in 1 .. Len(ws) |-> vs[i]]
    BY <1>2, Zenon
  <2> QED BY <1>1, <1>3, <2>1
<1> QED BY <1>3, <1>4, Zenon DEF Settled, vs

\* A socket with all that is under way settled.
LEMMA SettleAllType ==
    ASSUME NEW rs \in Seq(Outcomes), NEW to \in Outcomes
    PROVE  SettleAll(rs, to) \in Seq(Outcomes) /\ Len(SettleAll(rs, to)) = Len(rs)
<1>1. \A i \in DOMAIN rs : Settle(rs[i], to) \in Outcomes
  BY DEF Settle
<1> QED BY <1>1 DEF SettleAll

\* Nothing gets a result.
LEMMA SettledSame == ASSUME NEW ws \in Seq(Write) PROVE Settled(ws, ws)
BY Zenon DEF Settled

\* Closing a socket completes what is pending on it.
LEMMA CloseSocket ==
    ASSUME NEW s \in Socket
    PROVE  LET r == shutdown_and_close_socket(s) IN
           /\ r \in Socket /\ r.conn = "closed" /\ Settled(s.writes, r.writes)
           /\ Len(r.connects) = Len(s.connects)
<1>1. "aborted" \in Results /\ "aborted" \in Outcomes
  BY Zenon DEF Results, Outcomes
<1> DEFINE ws == SettleWrites(s.writes, "aborted")
           cs == SettleAll(s.connects, "aborted")
           rs == SettleAll(s.reads, "aborted")
           r == [s EXCEPT !.conn = "closed", !.writes = ws, !.connects = cs, !.reads = rs]
<1>2. Settled(s.writes, ws) /\ ws \in Seq(Write)
  BY <1>1, SocketParts, SettleWritesSettles, Zenon DEF Settled
<1>3. cs \in Seq(Outcomes) /\ Len(cs) = Len(s.connects) /\ rs \in Seq(Outcomes)
  BY <1>1, SocketParts, SettleAllType, Zenon
<1>4. r = shutdown_and_close_socket(s)
  BY Zenon DEF shutdown_and_close_socket
<1> HIDE DEF ws, cs, rs
<1>5. r \in Socket /\ r.conn = "closed" /\ r.writes = ws /\ r.connects = cs
  BY <1>2, <1>3, Zenon DEF Socket
<1> QED BY <1>2, <1>3, <1>4, <1>5, Zenon

-----------------------------------------------------------------------------
(* The payload of buffers and queues *)

\* A buffer without its cookies holds messages.
LEMMA PayloadSeq ==
    ASSUME NEW b \in Buffer
    PROVE  /\ [i \in DOMAIN b |-> IF b[i] = Cookie THEN 0 ELSE b[i].size] \in Seq(Nat)
           /\ Payload(b) \in Nat /\ Payload(b) <= BufferSize(b)
<1> DEFINE s == [i \in DOMAIN b |-> IF b[i] = Cookie THEN 0 ELSE b[i].size]
           r == [i \in DOMAIN b |-> b[i].size]
<1>1. \A m \in Message \cup {Cookie} : m.size \in Nat
  <2>1. \A m \in Message : m.size \in Nat
    BY SizesAssumption, Zenon DEF Message
  <2> QED BY <2>1, CookieType, Zenon
<1>2. b \in Seq(Message \cup {Cookie})
  BY BufferSeq, Zenon
<1>3. \A i \in DOMAIN b : b[i].size \in Nat
  BY <1>1, <1>2
<1>4. s \in Seq(Nat) /\ r \in Seq(Nat) /\ Len(s) = Len(b) /\ Len(r) = Len(b)
      /\ \A i \in 1 .. Len(b) : s[i] <= r[i]
  BY <1>2, <1>3
<1> HIDE DEF s, r
<1>5. TotalOf(s) \in Nat
  BY <1>4, TotalNat, Zenon
<1>6. TotalOf(s) <= TotalOf(r)
  <2>1. s \in Seq(Int) /\ r \in Seq(Int)
    BY <1>4
  <2> QED BY <1>4, <2>1, TotalMonotonic, Zenon
<1> QED BY <1>4, <1>5, <1>6, Zenon DEF Payload, BufferSize, s, r

\* Their size is a number.
LEMMA PayloadType ==
    ASSUME NEW b \in Buffer
    PROVE  /\ Payload(b) \in Nat /\ BufferSize(b) \in Nat
           /\ Payload(b) <= BufferSize(b)
BY PayloadSeq, BufferSizeNat, Zenon

\* The packetizer holds no cookies: all of it is payload.
LEMMA PayloadOfMessages ==
    ASSUME NEW p \in Seq(Message)
    PROVE  p \in Buffer /\ Payload(p) = BufferSize(p)
<1>1. p \in Seq(Message \cup {Cookie}) /\ 0 \in 0 .. Len(p)
  OBVIOUS
<1>2. \A i \in DOMAIN p : p[i] # Cookie
  BY CookieType
<1>3. LedBy(p, 0)
  BY <1>2 DEF LedBy
<1>4. p \in Buffer
  BY <1>1, <1>3, CookiesIs, Zenon
<1>5. [i \in DOMAIN p |-> IF p[i] = Cookie THEN 0 ELSE p[i].size] = [i \in DOMAIN p |-> p[i].size]
  BY <1>2, Zenon
<1> QED BY <1>4, <1>5, Zenon DEF Payload, BufferSize

\* A message added to the packetizer adds its size.
LEMMA MessageAdded ==
    ASSUME NEW p \in Seq(Message), NEW m \in Message
    PROVE  /\ Append(p, m) \in Seq(Message)
           /\ BufferSize(Append(p, m)) = BufferSize(p) + m.size
           /\ BufferSize(p) \in Nat /\ m.size \in Nat /\ m.size > 0
<1> DEFINE a == Append(p, m)
           s == [i \in DOMAIN p |-> p[i].size]
           r == [i \in DOMAIN a |-> a[i].size]
<1>1. m.size \in Nat /\ m.size > 0 /\ \A i \in DOMAIN p : p[i].size \in Nat
  <2>1. \A n \in Sizes : n \in Nat /\ n > 0
    BY SizesAssumption
  <2>2. \A x \in Message : x.size \in Sizes
    BY Zenon DEF Message
  <2> QED BY <2>1, <2>2
<1>2. s \in Seq(Int) /\ Len(s) = Len(p) /\ DOMAIN s = 1 .. Len(p)
  BY <1>1
<1>3. r = Append(s, m.size)
  <2>1. DOMAIN r = 1 .. Len(p) + 1 /\ DOMAIN Append(s, m.size) = 1 .. Len(p) + 1
    BY <1>2
  <2>2. \A i \in 1 .. Len(p) + 1 : r[i] = Append(s, m.size)[i]
    BY <1>2
  <2> QED BY <2>1, <2>2
<1>4. a \in Seq(Message)
  OBVIOUS
<1> HIDE DEF s, r, a
<1>5. TotalOf(r) = TotalOf(s) + m.size
  BY <1>1, <1>2, <1>3, TotalAppend
<1>6. BufferSize(p) \in Nat
  BY PayloadOfMessages, BufferSizeNat, Zenon
<1> QED BY <1>1, <1>4, <1>5, <1>6, Zenon DEF BufferSize, s, r, a

\* A cookie adds nothing to the payload.
LEMMA PayloadCookie ==
    ASSUME NEW b \in Buffer
    PROVE  Payload(<<Cookie>> \o b) = Payload(b)
<1> DEFINE a == <<Cookie>> \o b
           s == [i \in DOMAIN a |-> IF a[i] = Cookie THEN 0 ELSE a[i].size]
           r == [i \in DOMAIN b |-> IF b[i] = Cookie THEN 0 ELSE b[i].size]
<1>1. b \in Seq(Message \cup {Cookie})
  BY BufferSeq
<1>2. Len(a) = Len(b) + 1 /\ DOMAIN a = 1 .. Len(b) + 1 /\ a[1] = Cookie
      /\ \A i \in 1 .. Len(b) : a[i + 1] = b[i]
  BY <1>1
<1>3. a \in Buffer
  BY IdsCookie, Zenon
<1> HIDE DEF a
<1>4. s \in Seq(Nat) /\ r \in Seq(Nat)
  BY <1>3, PayloadSeq, Zenon
<1>5. Len(s) = Len(b) + 1 /\ s[1] = 0 /\ Len(r) = Len(b) /\ Len(b) \in Nat
  BY <1>1, <1>2, <1>4
<1>6. \A i \in 1 .. Len(b) : s[i + 1] = r[i]
  BY <1>1, <1>2
<1> HIDE DEF s, r
<1>7. s # <<>> /\ Head(s) = 0 /\ s \in Seq(Int)
  BY <1>4, <1>5
<1>8. Tail(s) = r
  <2>1. Tail(s) \in Seq(Nat) /\ Len(Tail(s)) = Len(b)
        /\ \A i \in 1 .. Len(b) : Tail(s)[i] = s[i + 1]
    BY <1>4, <1>5, <1>7, TailParts
  <2>2. Len(Tail(s)) = Len(r) /\ \A i \in 1 .. Len(r) : Tail(s)[i] = r[i]
    BY <1>5, <1>6, <2>1, Zenon
  <2> QED BY <1>4, <2>1, <2>2, SameSequence, Zenon
<1>9. TotalOf(s) = 0 + TotalOf(r) /\ TotalOf(r) \in Nat
  BY <1>4, <1>7, <1>8, TotalTail, TotalNat, Zenon
<1>10. TotalOf(s) = TotalOf(r)
  BY <1>9
<1>11. Payload(a) = TotalOf(s) /\ Payload(b) = TotalOf(r)
  BY Zenon DEF Payload, s, r
<1> QED BY <1>10, <1>11, Zenon DEF a

\* send_queued puts a cookie before the front.
LEMMA CookieBuffer ==
    ASSUME NEW b \in Buffer
    PROVE  /\ send_magic_cookie(b) \in Buffer /\ Ids(send_magic_cookie(b)) = Ids(b)
           /\ Payload(send_magic_cookie(b)) = Payload(b)
BY IdsCookie, PayloadCookie, Zenon DEF send_magic_cookie

\* The payload of a queue is a number.
LEMMA QueuedPayloadType ==
    ASSUME NEW q \in Seq(Buffer)
    PROVE  /\ [i \in DOMAIN q |-> Payload(q[i])] \in Seq(Nat)
           /\ QueuedPayload(q) \in Nat /\ QueuedPayload(q) <= QueuedSize(q)
<1> DEFINE s == [i \in DOMAIN q |-> Payload(q[i])]
           r == [i \in DOMAIN q |-> BufferSize(q[i])]
<1>1. \A i \in DOMAIN q : Payload(q[i]) \in Nat /\ BufferSize(q[i]) \in Nat
                          /\ Payload(q[i]) <= BufferSize(q[i])
  <2> TAKE i \in DOMAIN q
  <2>1. q[i] \in Buffer
    OBVIOUS
  <2> QED BY <2>1, PayloadType, Zenon
<1>2. s \in Seq(Nat) /\ r \in Seq(Nat) /\ Len(s) = Len(q) /\ Len(r) = Len(q)
  <2>1. s \in Seq(Nat) /\ Len(s) = Len(q)
    BY <1>1
  <2>2. r \in Seq(Nat) /\ Len(r) = Len(q)
    BY <1>1
  <2> QED BY <2>1, <2>2, Zenon
<1>5. \A i \in 1 .. Len(q) : s[i] <= r[i]
  BY <1>1
<1> HIDE DEF s, r
<1>3. TotalOf(s) \in Nat
  BY <1>2, TotalNat, Zenon
<1>4. TotalOf(s) <= TotalOf(r)
  <2>1. s \in Seq(Int) /\ r \in Seq(Int)
    BY <1>2
  <2> QED BY <1>2, <1>5, <2>1, TotalMonotonic, Zenon
<1> QED BY <1>2, <1>3, <1>4, Zenon DEF QueuedPayload, QueuedSize, s, r

\* An empty queue has none.
LEMMA QueuedPayloadEmpty == QueuedPayload(<<>>) = 0
<1>1. [i \in DOMAIN <<>> |-> Payload(<<>>[i])] = <<>>
  OBVIOUS
<1> QED BY <1>1, TotalEmpty, Zenon DEF QueuedPayload

\* A buffer put at the end adds its payload.
LEMMA QueuedPayloadAppend ==
    ASSUME NEW q \in Seq(Buffer), NEW b \in Buffer
    PROVE  QueuedPayload(Append(q, b)) = QueuedPayload(q) + Payload(b)
<1> DEFINE s == [i \in DOMAIN q |-> Payload(q[i])]
           r == [i \in DOMAIN Append(q, b) |-> Payload(Append(q, b)[i])]
<1>1. s \in Seq(Int) /\ Payload(b) \in Int
  <2>1. s \in Seq(Nat)
    BY QueuedPayloadType, Zenon
  <2> QED BY <2>1, PayloadType
<1>2. r = Append(s, Payload(b))
  <2>1. Len(s) = Len(q) /\ DOMAIN s = 1 .. Len(q)
    OBVIOUS
  <2>2. DOMAIN r = 1 .. Len(q) + 1 /\ DOMAIN Append(s, Payload(b)) = 1 .. Len(q) + 1
    BY <2>1
  <2>3. \A i \in 1 .. Len(q) + 1 : r[i] = Append(s, Payload(b))[i]
    BY <2>1
  <2> QED BY <2>2, <2>3
<1> HIDE DEF s
<1>3. TotalOf(r) = TotalOf(s) + Payload(b)
  BY <1>1, <1>2, TotalAppend, Zenon
<1> QED BY <1>3, Zenon DEF QueuedPayload, s

\* The payload of a queue is that of its front and of the rest.
LEMMA QueuedPayloadTail ==
    ASSUME NEW q \in Seq(Buffer), q # <<>>
    PROVE  QueuedPayload(q) = Payload(Head(q)) + QueuedPayload(Tail(q))
<1> DEFINE s == [i \in DOMAIN q |-> Payload(q[i])]
           r == [i \in DOMAIN Tail(q) |-> Payload(Tail(q)[i])]
<1>1. s \in Seq(Int) /\ s # <<>> /\ Head(s) = Payload(Head(q))
  BY QueuedPayloadType
<1>2. r = Tail(s)
  <2>1. Len(s) = Len(q) /\ DOMAIN s = 1 .. Len(q)
    OBVIOUS
  <2>2. DOMAIN r = 1 .. Len(q) - 1 /\ DOMAIN Tail(s) = 1 .. Len(q) - 1
    BY <2>1
  <2>3. \A i \in 1 .. Len(q) - 1 : r[i] = Tail(s)[i]
    BY <2>1
  <2> QED BY <2>2, <2>3
<1> HIDE DEF s
<1>3. TotalOf(s) = Head(s) + TotalOf(r)
  BY <1>1, <1>2, TotalTail, Zenon
<1> QED BY <1>1, <1>3, Zenon DEF QueuedPayload, s

-----------------------------------------------------------------------------
(* What the calls of the protocols do *)

\* A queue is unchanged but for its front.
LEMMA SameFront ==
    ASSUME NEW q \in Seq(Buffer), q # <<>>
    PROVE  SameButFront(q, q)
BY Zenon DEF SameButFront

\* A cookie put into the front is counted and is no payload.
LEMMA CookieFront ==
    ASSUME NEW q \in Seq(Buffer), q # <<>>, NEW b \in {Head(q), send_magic_cookie(Head(q))}
    PROVE  LET r == [q EXCEPT ![1] = b] IN
           /\ b \in Buffer /\ SameButFront(q, r) /\ Head(r) = b
           /\ QueuedSize(r) = QueuedSize(q) + BufferSize(b) - BufferSize(Head(q))
<1> DEFINE r == [q EXCEPT ![1] = b]
<1>1. Head(q) \in Buffer /\ Head(q) = q[1]
  OBVIOUS
<1>2. b \in Buffer /\ Ids(b) = Ids(Head(q)) /\ Payload(b) = Payload(Head(q))
  BY <1>1, CookieBuffer, Zenon
<1>3. /\ r \in Seq(Buffer) /\ r # <<>> /\ Len(r) = Len(q) /\ Head(r) = b
      /\ \A i \in 2 .. Len(q) : r[i] = q[i]
      /\ Tail(r) = Tail(q)
  BY <1>2, FrontReplaced, Zenon
<1>4. QueuedSize(r) = QueuedSize(q) + BufferSize(b) - BufferSize(Head(q))
  BY <1>2, QueuedSizeFront, Zenon
<1> HIDE DEF r
<1>5. QueuedPayload(r) = QueuedPayload(q)
  BY <1>2, <1>3, QueuedPayloadTail, Zenon
<1>6. \A k \in 1 .. Len(q) : Ids(r[k]) = Ids(q[k])
  <2> TAKE k \in 1 .. Len(q)
  <2>1. CASE k = 1
    <3>1. r[1] = b
      BY <1>3
    <3> QED BY <1>1, <1>2, <2>1, <3>1, Zenon
  <2>2. CASE k \in 2 .. Len(q)
    BY <1>3, <2>2, Zenon
  <2> QED BY <2>1, <2>2
<1> QED BY <1>2, <1>3, <1>4, <1>5, <1>6, Zenon DEF SameButFront, r

\* A write is started; it may fail at once.
LEMMA StartWrite ==
    ASSUME NEW s \in Socket, NEW b \in Buffer, NEW unconnected \in Results
    PROVE  LET r == async_write(s, b, unconnected) IN
           /\ r \in Socket /\ r.connects = s.connects
           /\ \E w \in Write : w.buffer = b /\ r.writes = Append(s.writes, w)
<1> DEFINE res == CASE s.conn \in {"up", "connecting"} -> "pending"
                    [] s.conn = "open" -> unconnected
                    [] s.conn = "closed" -> "bad_descriptor"
           w == [buffer |-> b, res |-> res]
           ws == Append(s.writes, w)
           r == [s EXCEPT !.writes = ws]
<1>1. res \in Results
  BY SocketParts, Zenon DEF Results
<1>2. async_write(s, b, unconnected) = r
  BY Zenon DEF async_write
<1> HIDE DEF res
<1>3. w \in Write /\ w.buffer = b
  BY <1>1, Zenon DEF Write
<1> HIDE DEF w
<1>4. ws \in Seq(Write)
  BY <1>3, SocketParts
<1> HIDE DEF ws
<1>5. r \in Socket /\ r.connects = s.connects /\ r.writes = ws
  BY <1>4, Zenon DEF Socket
<1> QED BY <1>2, <1>3, <1>5, Zenon DEF ws

\* receive() starts a read.
LEMMA StartReceive ==
    ASSUME NEW s \in Socket, proto \in {"tcp", "udp", "local"}
    PROVE  LET r == receive(s) IN
           r \in Socket /\ r.connects = s.connects /\ r.writes = s.writes
<1>1. ASSUME NEW unconnected \in Outcomes
      PROVE  LET r == async_receive(s, unconnected) IN
             r \in Socket /\ r.connects = s.connects /\ r.writes = s.writes
  <2> DEFINE rs == Append(s.reads, IF s.conn = "open" THEN unconnected ELSE "pending")
             r == [s EXCEPT !.reads = rs]
  <2>1. rs \in Seq(Outcomes)
    BY SocketParts DEF Outcomes
  <2>2. async_receive(s, unconnected) = IF s.conn = "closed" THEN s ELSE r
    BY Zenon DEF async_receive
  <2> HIDE DEF rs
  <2>3. r \in Socket /\ r.connects = s.connects /\ r.writes = s.writes
    BY <2>1, Zenon DEF Socket
  <2> QED BY <2>2, <2>3, Zenon
<1>2. "failed" \in Outcomes /\ "pending" \in Outcomes
  BY Zenon DEF Outcomes
<1>3. receive(s) \in {async_receive(s, "failed"), async_receive(s, "pending")}
  BY Zenon DEF receive, receive_tcp, receive_udp, receive_local
<1> QED BY <1>1, <1>2, <1>3

\* A connect that is started.
LEMMA AttemptType ==
    ASSUME NEW s \in Socket, NEW c \in {"closed", "open", "connecting", "up"},
           NEW res \in Outcomes
    PROVE  LET r == Attempt(s, c, res) IN
           r \in Socket /\ r.writes = s.writes /\ r.connects # <<>>
<1> DEFINE cs == Append(s.connects, res)
           r == [s EXCEPT !.conn = c, !.connects = cs]
<1>1. cs \in Seq(Outcomes) /\ cs # <<>>
  BY SocketParts
<1>2. Attempt(s, c, res) = r
  BY Zenon DEF Attempt
<1> HIDE DEF cs
<1>3. r \in Socket /\ r.writes = s.writes /\ r.connects = cs
  BY <1>1, Zenon DEF Socket
<1> QED BY <1>1, <1>2, <1>3

\* What connect() leaves of the socket.
LEMMA ConnectResult ==
    ASSUME NEW s \in Socket, NEW r \in async_connect(s) \cup connect_at_once(s)
    PROVE  /\ r[1] \in Socket /\ r[1].writes = s.writes /\ r[1].connects # <<>>
           /\ r[2] \in {0, 1}
<1>1. \E c \in {"up", "connecting", "open"}, res \in {"ok", "failed", "pending"}, n \in {0, 1} :
          r = <<Attempt(s, c, res), n>>
  <2>1. CASE r \in async_connect(s)
    BY <2>1, SocketParts, Zenon DEF async_connect
  <2>2. CASE r \in connect_at_once(s)
    BY <2>2, Zenon DEF connect_at_once
  <2> QED BY <2>1, <2>2, Zenon
<1>2. PICK c \in {"up", "connecting", "open"}, res \in {"ok", "failed", "pending"}, n \in {0, 1} :
          r = <<Attempt(s, c, res), n>>
  BY <1>1, Zenon
<1>3. res \in Outcomes /\ c \in {"closed", "open", "connecting", "up"}
  BY Zenon DEF Outcomes
<1>4. r[1] = Attempt(s, c, res) /\ r[2] = n
  BY <1>2, Zenon
<1>5. /\ Attempt(s, c, res) \in Socket /\ Attempt(s, c, res).writes = s.writes
      /\ Attempt(s, c, res).connects # <<>>
  BY <1>3, AttemptType, Zenon
<1> QED BY <1>4, <1>5, Zenon

\* connect() starts a connect, or has no socket and tries again.
LEMMA ConnectCases ==
    ASSUME NEW s \in Socket, NEW st, faults \in 0 .. MaxFaults, restarts \in 0 .. MaxFaults,
           connect(s, st)
    PROVE  Connects(s, st)
<1>1. ASSUME connecting(async_connect(s)) \/ connecting(connect_at_once(s))
      PROVE  Connects(s, st)
  <2>1. PICK r \in async_connect(s) \cup connect_at_once(s) :
          /\ faults + restarts + r[2] <= MaxFaults /\ faults' = faults + r[2]
          /\ socket_' = r[1] /\ state_' = "CONNECTING" /\ given_up' = given_up
    BY <1>1, Zenon DEF connecting
  <2>2. /\ r[1] \in Socket /\ r[1].writes = s.writes /\ r[1].connects # <<>>
        /\ r[2] \in {0, 1}
    BY ConnectResult, Zenon
  <2>3. faults' \in 0 .. MaxFaults
    BY <2>1, <2>2, Bounds
  <2> QED BY <2>1, <2>2, <2>3, Zenon DEF Connects
<1>2. ASSUME cannot_open(s, st) PROVE Connects(s, st)
  <2>1. faults' \in 0 .. MaxFaults
    BY <1>2, Bounds DEF cannot_open
  <2> QED BY <1>2, <2>1, Zenon DEF cannot_open, Connects
<1> QED BY <1>1, <1>2, Zenon DEF connect, connect_tcp, connect_udp, connect_local

\* send_queued writes the front, with a cookie if it is time.
LEMMA SendQueuedCases ==
    ASSUME NEW s \in Socket, NEW q \in Seq(Buffer), NEW n \in Nat, send_queued(s, q, n)
    PROVE  Writes(s, q, n)
<1>1. {"broken_pipe", "other"} \subseteq Results /\ QueuedSize(q) \in Nat
  BY QueuedSizeNat, Zenon DEF Results
<1>2. CASE q = <<>>
  BY <1>1, <1>2 DEF send_queued, Writes
<1>3. CASE q # <<>>
  <2>1. Head(q) \in Buffer /\ SameButFront(q, q)
    BY <1>3, SameFront
  <2>2. ASSUME send_queued_tcp(s, q, n) PROVE Writes(s, q, n)
    <3>1. PICK b \in {Head(q), send_magic_cookie(Head(q))} :
            /\ queue_' = [q EXCEPT ![1] = b]
            /\ queue_size_' = n + BufferSize(b) - BufferSize(Head(q))
            /\ socket_' = async_write(s, b, "broken_pipe")
      BY <2>2, Zenon DEF send_queued_tcp
    <3>2. /\ b \in Buffer /\ SameButFront(q, queue_') /\ Head(queue_') = b
          /\ QueuedSize(queue_') = QueuedSize(q) + BufferSize(b) - BufferSize(Head(q))
      BY <1>3, <3>1, CookieFront, Zenon
    <3>3. BufferSize(b) \in Nat /\ BufferSize(Head(q)) \in Nat
      BY <2>1, <3>2, BufferSizeNat, Zenon
    <3>4. queue_size_' = n + QueuedSize(queue_') - QueuedSize(q)
      BY <1>1, <3>1, <3>2, <3>3
    <3>5. /\ socket_' \in Socket /\ socket_'.connects = s.connects
          /\ \E w \in Write : w.buffer = b /\ socket_'.writes = Append(s.writes, w)
      BY <1>1, <3>1, <3>2, StartWrite, Zenon
    <3> QED BY <1>3, <3>2, <3>4, <3>5, Zenon DEF Writes, SameButFront
  <2>3. ASSUME NEW u \in {"broken_pipe", "other"}, queue_' = q, queue_size_' = n,
               socket_' = async_write(s, Head(q), u)
        PROVE  Writes(s, q, n)
    <3>1. /\ socket_' \in Socket /\ socket_'.connects = s.connects
          /\ \E w \in Write : w.buffer = Head(q) /\ socket_'.writes = Append(s.writes, w)
      BY <1>1, <2>1, <2>3, StartWrite, Zenon
    <3>2. queue_size_' = n + QueuedSize(queue_') - QueuedSize(q)
      BY <1>1, <2>3
    <3> QED BY <1>3, <2>1, <2>3, <3>1, <3>2, Zenon DEF Writes
  <2> QED BY <1>3, <2>2, <2>3, Zenon DEF send_queued, send_queued_udp, send_queued_local
<1> QED BY <1>2, <1>3, Zenon

-----------------------------------------------------------------------------
(* Sizes *)

\* The sizes are numbers and the buffers well formed.
LEMMA SizedParts ==
    ASSUME NEW x, NEW q, NEW n, NEW p, Sized(x, q, n, p)
    PROVE  /\ q \in Seq(Buffer) /\ n \in Nat /\ p \in Seq(Message) /\ p \in Buffer
           /\ QueuedSize(q) \in Nat /\ QueuedPayload(q) \in Nat /\ QueuedPayload(q) <= n
           /\ BufferSize(p) \in Nat /\ Payload(p) = BufferSize(p)
<1>1. q \in Seq(Buffer) /\ n \in Nat /\ p \in Seq(Message) /\ n >= QueuedSize(q)
  BY Zenon DEF Sized
<1>2. p \in Buffer /\ Payload(p) = BufferSize(p)
  BY <1>1, PayloadOfMessages, Zenon
<1>3. BufferSize(p) \in Nat
  BY <1>2, BufferSizeNat, Zenon
<1>4. QueuedSize(q) \in Nat /\ QueuedPayload(q) \in Nat /\ QueuedPayload(q) <= QueuedSize(q)
  BY <1>1, QueuedSizeNat, QueuedPayloadType, Zenon
<1> QED BY <1>1, <1>2, <1>3, <1>4

\* The count may be exact in fewer cases.
LEMMA SizedWeaker ==
    ASSUME NEW x, NEW y, y => x, NEW q, NEW n, NEW p, Sized(x, q, n, p)
    PROVE  Sized(y, q, n, p)
BY Zenon DEF Sized

\* An empty packetizer has no size.
LEMMA SizeOfNone == BufferSize(<<>>) = 0 /\ <<>> \in Seq(Message)
<1>1. [i \in DOMAIN <<>> |-> <<>>[i].size] = <<>>
  OBVIOUS
<1> QED BY <1>1, TotalEmpty DEF BufferSize

\* Dropping the queue keeps the packetizer within its bound.
LEMMA SizedEmpty ==
    ASSUME NEW x, NEW q, NEW n, NEW p, Sized(x, q, n, p)
    PROVE  Sized(x, <<>>, 0, p) /\ Sized(FALSE, <<>>, n, p)
<1>1. /\ QueuedPayload(q) \in Nat /\ BufferSize(p) \in Nat /\ n \in Nat
  BY SizedParts, Zenon
<1>2. QueuedSize(<<>>) = 0 /\ QueuedPayload(<<>>) = 0 /\ <<>> \in Seq(Buffer)
  BY QueuedSizeEmpty, QueuedPayloadEmpty
<1> QED BY <1>1, <1>2, Bounds DEF Sized

\* Writing the front keeps the sizes.
LEMMA SizedWrites ==
    ASSUME NEW x, NEW q, NEW n, NEW p, Sized(x, q, n, p), NEW s, Writes(s, q, n)
    PROVE  Sized(x, queue_', queue_size_', p)
<1>1. /\ n \in Nat /\ QueuedSize(q) \in Nat /\ QueuedPayload(q) \in Nat
  BY SizedParts, Zenon
<1>2. QueuedSize(queue_') \in Nat /\ queue_' \in Seq(Buffer)
      /\ queue_size_' = n + QueuedSize(queue_') - QueuedSize(q)
  BY QueuedSizeNat, Zenon DEF Writes
<1>3. QueuedPayload(queue_') = QueuedPayload(q)
  BY Zenon DEF Writes, SameButFront
<1> QED BY <1>1, <1>2, <1>3 DEF Sized

\* Moving the packetizer to the queue keeps the sizes.
LEMMA SizedSpill ==
    ASSUME NEW x, NEW q, NEW n, NEW p, Sized(x, q, n, p)
    PROVE  Sized(x, Append(q, p), n + BufferSize(p), <<>>)
<1>1. /\ q \in Seq(Buffer) /\ n \in Nat /\ p \in Buffer /\ QueuedSize(q) \in Nat
      /\ QueuedPayload(q) \in Nat /\ BufferSize(p) \in Nat /\ Payload(p) = BufferSize(p)
  BY SizedParts, Zenon
<1>2. /\ QueuedSize(Append(q, p)) = QueuedSize(q) + BufferSize(p)
      /\ QueuedPayload(Append(q, p)) = QueuedPayload(q) + BufferSize(p)
      /\ Append(q, p) \in Seq(Buffer)
  BY <1>1, QueuedSizeAppend, QueuedPayloadAppend
<1> QED BY <1>1, <1>2, SizeOfNone DEF Sized

\* A message joins the packetizer when the limit allows it and there is room.
LEMMA SizedAdd ==
    ASSUME NEW x, NEW q, NEW n, NEW p, Sized(x, q, n, p), NEW m \in Message,
           n + m.size <= queue_limit_, m.size <= max_message_size_,
           p = <<>> \/ BufferSize(p) + m.size <= max_message_size_
    PROVE  Sized(x, q, n, Append(p, m))
<1>1. /\ n \in Nat /\ p \in Seq(Message) /\ QueuedPayload(q) \in Nat
      /\ QueuedPayload(q) <= n /\ BufferSize(p) \in Nat
  BY SizedParts, Zenon
<1>2. /\ Append(p, m) \in Seq(Message) /\ m.size \in Nat /\ m.size > 0
      /\ BufferSize(Append(p, m)) = BufferSize(p) + m.size
  BY <1>1, MessageAdded, Zenon
<1>3. BufferSize(p) < max_message_size_
  BY <1>1, <1>2, SizeOfNone, Bounds
<1>4. QueuedPayload(q) + BufferSize(Append(p, m)) < queue_limit_ + max_message_size_
  BY <1>1, <1>2, <1>3, Bounds
<1> QED BY <1>2, <1>4, Zenon DEF Sized

\* Taking the front out keeps the sizes.
LEMMA SizedTail ==
    ASSUME NEW x, NEW q, NEW n, NEW p, Sized(x, q, n, p), q # <<>>
    PROVE  Sized(x, Tail(q), n - BufferSize(Head(q)), p)
<1>1. /\ q \in Seq(Buffer) /\ n \in Nat /\ BufferSize(p) \in Nat
  BY SizedParts, Zenon
<1>2. Head(q) \in Buffer /\ Tail(q) \in Seq(Buffer)
  BY <1>1
<1>3. /\ QueuedSize(q) = BufferSize(Head(q)) + QueuedSize(Tail(q))
      /\ QueuedPayload(q) = Payload(Head(q)) + QueuedPayload(Tail(q))
  BY <1>1, QueuedSizeTail, QueuedPayloadTail, Zenon
<1>4. /\ BufferSize(Head(q)) \in Nat /\ QueuedSize(Tail(q)) \in Nat
      /\ Payload(Head(q)) \in Nat /\ QueuedPayload(Tail(q)) \in Nat
  BY <1>2, PayloadType, QueuedSizeNat, QueuedPayloadType, Zenon
<1> QED BY <1>1, <1>2, <1>3, <1>4, Bounds DEF Sized

-----------------------------------------------------------------------------
(* The invariant, and what the steps do *)

\* Nothing that the sizes and the types of the rest depend on changes.
LEMMA QuietKeeps ==
    ASSUME Queued, UNCHANGED <<proto, restarts, packetizer_, queue_, queue_size_>>
    PROVE  Queued'
BY Zenon DEF Queued, Exact

\* Results neither start nor end a write.
LEMMA SettledNone ==
    ASSUME NEW ws \in Seq(Write), NEW vs, Settled(ws, vs)
    PROVE  ws = <<>> <=> vs = <<>>
BY DEF Settled

\* An answer is taken from what is under way.
LEMMA SocketRemove ==
    ASSUME NEW s \in Socket
    PROVE  /\ \A i \in DOMAIN s.connects :
                 LET r == [s EXCEPT !.connects = RemoveAt(@, i)]
                 IN  r \in Socket /\ r.writes = s.writes
           /\ \A i \in DOMAIN s.writes :
                 LET r == [s EXCEPT !.writes = RemoveAt(@, i)]
                 IN  r \in Socket /\ r.writes = RemoveAt(s.writes, i) /\ r.connects = s.connects
           /\ \A i \in DOMAIN s.reads :
                 LET r == [s EXCEPT !.reads = RemoveAt(@, i)]
                 IN  r \in Socket /\ r.writes = s.writes /\ r.connects = s.connects
<1>1. ASSUME NEW i \in DOMAIN s.connects
      PROVE  LET r == [s EXCEPT !.connects = RemoveAt(@, i)]
             IN  r \in Socket /\ r.writes = s.writes
  <2> DEFINE cs == RemoveAt(s.connects, i)
  <2>1. cs \in Seq(Outcomes)
    BY SocketParts, WritesRemove, Zenon
  <2> HIDE DEF cs
  <2>2. LET r == [s EXCEPT !.connects = cs] IN r \in Socket /\ r.writes = s.writes
    BY <2>1, Zenon DEF Socket
  <2> QED BY <2>2, Zenon DEF cs
<1>2. ASSUME NEW i \in DOMAIN s.writes
      PROVE  LET r == [s EXCEPT !.writes = RemoveAt(@, i)]
             IN  r \in Socket /\ r.writes = RemoveAt(s.writes, i) /\ r.connects = s.connects
  <2> DEFINE ws == RemoveAt(s.writes, i)
  <2>1. ws \in Seq(Write)
    BY SocketParts, WritesRemove, Zenon
  <2> HIDE DEF ws
  <2>2. LET r == [s EXCEPT !.writes = ws]
        IN  r \in Socket /\ r.writes = ws /\ r.connects = s.connects
    BY <2>1, Zenon DEF Socket
  <2> QED BY <2>2, Zenon DEF ws
<1>3. ASSUME NEW i \in DOMAIN s.reads
      PROVE  LET r == [s EXCEPT !.reads = RemoveAt(@, i)]
             IN  r \in Socket /\ r.writes = s.writes /\ r.connects = s.connects
  <2> DEFINE rs == RemoveAt(s.reads, i)
  <2>1. rs \in Seq(Outcomes)
    BY SocketParts, WritesRemove, Zenon
  <2> HIDE DEF rs
  <2>2. LET r == [s EXCEPT !.reads = rs]
        IN  r \in Socket /\ r.writes = s.writes /\ r.connects = s.connects
    BY <2>1, Zenon DEF Socket
  <2> QED BY <2>2, Zenon DEF rs
<1> QED BY <1>1, <1>2, <1>3, Zenon

\* The queue is empty initially and nothing is written.
LEMMA QueueInit == Init => QueueInv /\ socket_.writes = <<>>
<1> SUFFICES ASSUME Init PROVE QueueInv /\ socket_.writes = <<>>
  BY Zenon
<1> DEFINE s == [conn |-> "closed", writes |-> <<>>, connects |-> <<>>, reads |-> <<>>]
<1>1. s \in Socket /\ s.writes = <<>>
  BY DEF Socket
<1>2. PICK r \in IF proto = "tcp" THEN async_connect(s) ELSE connect_at_once(s) :
          socket_ = r[1] /\ faults = r[2] /\ r[2] <= MaxFaults
  BY Zenon DEF Init
<1> HIDE DEF s
<1>3. r \in async_connect(s) \cup connect_at_once(s)
  BY Zenon
<1>4. socket_ \in Socket /\ socket_.writes = <<>> /\ faults \in 0 .. MaxFaults
  <2>1. r[1] \in Socket /\ r[1].writes = <<>> /\ r[2] \in {0, 1}
    BY <1>1, <1>3, ConnectResult, Zenon
  <2> QED BY <1>2, <2>1, Bounds
<1>5. TypeRest
  BY <1>4, Bounds DEF Init, TypeRest, States
<1>6. Flags
  BY Zenon DEF Init, Flags
<1>7. Queued
  <2>1. QueuedSize(<<>>) = 0 /\ QueuedPayload(<<>>) = 0 /\ <<>> \in Seq(Buffer)
    BY QueuedSizeEmpty, QueuedPayloadEmpty
  <2>2. Sized(Exact, <<>>, 0, <<>>)
    BY <2>1, SizeOfNone, Bounds DEF Sized
  <2> QED BY <2>2, Zenon DEF Init, Queued
<1>8. StallIsGivenUp
  BY Zenon DEF Init, StallIsGivenUp, Stalled
<1> QED BY <1>4, <1>5, <1>6, <1>7, <1>8, Zenon DEF QueueInv

-----------------------------------------------------------------------------
(* Steps that leave the queue alone *)

\* Steps that leave the queue alone leave somebody to write it.
LEMMA StallKept ==
    ASSUME StallIsGivenUp, socket_ \in Socket, Settled(socket_.writes, socket_'.writes),
           UNCHANGED <<queue_, was_not_connected_>>,
           GaveUp => GaveUp',
           must_resend /\ Retrying => Retrying' \/ GaveUp'
    PROVE  StallIsGivenUp'
<1>1. socket_.writes # <<>> => socket_'.writes # <<>>
  BY SocketParts, SettledNone, Zenon
<1> QED BY <1>1, Zenon DEF StallIsGivenUp, Stalled, GaveUp, Retrying, must_resend

\* What such a step has to show.
LEMMA QuietStep ==
    ASSUME QueueInv, UNCHANGED <<proto, packetizer_, queue_, queue_size_, accepted, wire,
                                 restarts, sending_blocked_, was_not_connected_>>,
           socket_' \in Socket, Settled(socket_.writes, socket_'.writes),
           state_' \in States, faults' \in 0 .. MaxFaults, given_up \subseteq given_up',
           given_up' \subseteq {"send", "connect", "aborted", "other"},
           must_resend /\ Retrying => Retrying' \/ GaveUp'
    PROVE  TypeRest' /\ Queued' /\ StallIsGivenUp' /\ Quiet
<1>1. TypeRest'
  BY Zenon DEF QueueInv, TypeRest
<1>2. Queued'
  BY QuietKeeps, Zenon DEF QueueInv
<1>3. GaveUp => GaveUp'
  BY Zenon DEF GaveUp
<1>4. StallIsGivenUp'
  BY <1>3, StallKept, Zenon DEF QueueInv, TypeRest
<1> QED BY <1>1, <1>2, <1>4, Zenon DEF Quiet

\* The types of the parts, for the steps below.
LEMMA Kept ==
    ASSUME QueueInv
    PROVE  /\ socket_ \in Socket /\ Settled(socket_.writes, socket_.writes)
           /\ proto \in {"tcp", "udp", "local"} /\ state_ \in States
           /\ given_up \subseteq {"send", "connect", "aborted", "other"}
           /\ faults \in 0 .. MaxFaults /\ restarts \in 0 .. MaxFaults
BY SocketParts, SettledSame, ConstantsAssumption, Zenon DEF QueueInv, TypeRest

\* set_connected leaves the queue alone.
LEMMA StepSetConnected ==
    ASSUME QueueInv, set_connected
    PROVE  TypeRest' /\ Queued' /\ StallIsGivenUp' /\ Quiet
<1>1. Retrying => Retrying'
  BY Zenon DEF set_connected, Retrying
<1>2. state_' \in States
  BY Zenon DEF set_connected, States
<1> QED BY <1>1, <1>2, Kept, QuietStep, Zenon DEF set_connected, buffers, history

\* So does the connect timer.
LEMMA StepTimerExpires ==
    ASSUME QueueInv, connect_timer_expires
    PROVE  TypeRest' /\ Queued' /\ StallIsGivenUp' /\ Quiet
<1>1. Retrying'
  BY Zenon DEF connect_timer_expires, Retrying
<1>2. faults' \in 0 .. MaxFaults
  BY Kept, Bounds DEF connect_timer_expires
<1> QED BY <1>1, <1>2, Kept, QuietStep, Zenon DEF connect_timer_expires, buffers, history

\* wait_connect_cbk connects again.
LEMMA StepWaitConnect ==
    ASSUME QueueInv, wait_connect_cbk
    PROVE  TypeRest' /\ Queued' /\ StallIsGivenUp' /\ Quiet
<1>1. Connects(socket_, state_)
  BY Kept, ConnectCases, Zenon DEF wait_connect_cbk
<1>2. Retrying' \/ GaveUp'
  BY <1>1, Zenon DEF Connects, Retrying, GaveUp
<1>3. state_' \in States
  BY <1>1, Kept, Zenon DEF Connects, States
<1>4. given_up \subseteq given_up' /\ given_up' \subseteq {"send", "connect", "aborted", "other"}
  BY <1>1, Kept, Zenon DEF Connects
<1>5. socket_' \in Socket /\ Settled(socket_.writes, socket_'.writes) /\ faults' \in 0 .. MaxFaults
  BY <1>1, Kept, Zenon DEF Connects
<1> QED BY <1>2, <1>3, <1>4, <1>5, QuietStep, Zenon DEF wait_connect_cbk, buffers, history

\* A local endpoint that waited for its queue closes the socket.
LEMMA StepStopWaited ==
    ASSUME QueueInv, stop_local_waited
    PROVE  TypeRest' /\ Queued' /\ StallIsGivenUp' /\ Quiet
<1>1. /\ socket_' \in Socket /\ Settled(socket_.writes, socket_'.writes)
      /\ Len(socket_'.connects) = Len(socket_.connects)
  BY Kept, CloseSocket, Zenon DEF stop_local_waited
<1>2. Retrying => Retrying'
  BY <1>1, Kept, SocketParts DEF Retrying, stop_local_waited
<1> QED BY <1>1, <1>2, Kept, QuietStep, Zenon DEF stop_local_waited, buffers, history

\* receive_cbk reads on, or connects again.
LEMMA StepReceive ==
    ASSUME QueueInv, NEW i \in DOMAIN socket_.reads, receive_cbk(i)
    PROVE  TypeRest' /\ Queued' /\ StallIsGivenUp' /\ Quiet
<1> DEFINE s == [socket_ EXCEPT !.reads = RemoveAt(@, i)]
<1>1. s \in Socket /\ s.writes = socket_.writes /\ s.connects = socket_.connects
  BY Kept, SocketRemove, Zenon
<1>2. socket_' \in {s, shutdown_and_close_socket(s)} /\ state_' \in {"CLOSED", state_}
  BY Zenon DEF receive_cbk, receive_cbk_tcp, receive_cbk_udp, receive_cbk_local
<1> HIDE DEF s
<1>3. LET r == shutdown_and_close_socket(s) IN
      r \in Socket /\ Settled(s.writes, r.writes) /\ Len(r.connects) = Len(s.connects)
  BY <1>1, CloseSocket, Zenon
<1>4. /\ socket_' \in Socket /\ Settled(socket_.writes, socket_'.writes)
      /\ Len(socket_'.connects) = Len(socket_.connects)
  BY <1>1, <1>2, <1>3, Kept, Zenon
<1>5. Retrying => Retrying'
  BY <1>4, Kept, SocketParts DEF Retrying, receive_cbk
<1>6. state_' \in States
  BY <1>2, Kept, Zenon DEF States
<1> QED BY <1>4, <1>5, <1>6, Kept, QuietStep, Zenon DEF receive_cbk, buffers, history

\* A connect gets its answer.
LEMMA StepConnectCompletes ==
    ASSUME QueueInv, NEW ok \in BOOLEAN, ConnectCompletes(ok)
    PROVE  TypeRest' /\ Queued' /\ StallIsGivenUp' /\ Quiet
<1> DEFINE c == IF ok THEN "up" ELSE "open"
           cs == SettleAll(socket_.connects, IF ok THEN "ok" ELSE "failed")
           ws == IF ok THEN socket_.writes ELSE SettleWrites(socket_.writes, "broken_pipe")
<1>1. socket_' = [socket_ EXCEPT !.conn = c, !.connects = cs, !.writes = ws]
  BY Zenon DEF ConnectCompletes
<1>2. {"ok", "failed"} \subseteq Outcomes /\ "broken_pipe" \in Results
  BY Zenon DEF Results, Outcomes
<1>3. cs \in Seq(Outcomes) /\ Len(cs) = Len(socket_.connects)
  BY <1>2, Kept, SocketParts, SettleAllType, Zenon
<1>4. Settled(socket_.writes, ws) /\ ws \in Seq(Write)
  BY <1>2, Kept, SocketParts, SettleWritesSettles DEF Settled
<1>5. c \in {"closed", "open", "connecting", "up"}
  BY Zenon
<1> HIDE DEF c, cs, ws
<1>6. socket_' \in Socket /\ socket_'.connects = cs /\ socket_'.writes = ws
  BY <1>1, <1>3, <1>4, <1>5, Kept, Zenon DEF Socket
<1>7. Retrying => Retrying'
  BY <1>3, <1>6, Kept, SocketParts DEF Retrying, ConnectCompletes, NetworkStep
<1>8. faults' \in 0 .. MaxFaults
  BY Kept, Bounds DEF ConnectCompletes
<1> QED BY <1>4, <1>6, <1>7, <1>8, Kept, QuietStep, Zenon
        DEF ConnectCompletes, NetworkStep, buffers

\* The connection breaks, and reads and writes with it.
LEMMA StepConnectionLost ==
    ASSUME QueueInv, NEW res \in {"broken_pipe", "other", "pending"}, ConnectionLost(res)
    PROVE  TypeRest' /\ Queued' /\ StallIsGivenUp' /\ Quiet
<1> DEFINE c == IF proto = "udp" THEN "up" ELSE "open"
           rs == SettleAll(socket_.reads, "failed")
           ws == SettleWrites(socket_.writes, res)
<1>1. socket_' = [socket_ EXCEPT !.conn = c, !.reads = rs, !.writes = ws]
  BY Zenon DEF ConnectionLost
<1>2. "failed" \in Outcomes /\ res \in Results
  BY Zenon DEF Results, Outcomes
<1>3. rs \in Seq(Outcomes)
  BY <1>2, Kept, SocketParts, SettleAllType
<1>4. Settled(socket_.writes, ws) /\ ws \in Seq(Write)
  BY <1>2, Kept, SocketParts, SettleWritesSettles DEF Settled
<1>5. c \in {"closed", "open", "connecting", "up"}
  BY Zenon
<1> HIDE DEF c, rs, ws
<1>6. /\ socket_' \in Socket /\ socket_'.connects = socket_.connects
      /\ socket_'.writes = ws
  BY <1>1, <1>3, <1>4, <1>5, Kept, Zenon DEF Socket
<1>7. Retrying => Retrying'
  BY <1>6, Zenon DEF Retrying, ConnectionLost, NetworkStep
<1>8. faults' \in 0 .. MaxFaults
  BY Kept, Bounds DEF ConnectionLost
<1> QED BY <1>4, <1>6, <1>7, <1>8, Kept, QuietStep, Zenon
        DEF ConnectionLost, NetworkStep, buffers

\* connect_cbk resends the front, reads, or waits to connect again.
LEMMA StepConnect ==
    ASSUME QueueInv, NEW i \in DOMAIN socket_.connects, connect_cbk(i),
           ~(socket_.connects[i] = "ok" /\ must_resend)
    PROVE  TypeRest' /\ Queued' /\ StallIsGivenUp' /\ Quiet
<1> DEFINE s == [socket_ EXCEPT !.connects = RemoveAt(@, i)]
           res == socket_.connects[i]
<1>1. s \in Socket /\ s.writes = socket_.writes
  BY Kept, SocketRemove, Zenon
<1>2. LET r == shutdown_and_close_socket(s) IN
      r \in Socket /\ Settled(socket_.writes, r.writes)
  BY <1>1, CloseSocket, Zenon
<1>3. receive(s) \in Socket /\ receive(s).writes = socket_.writes
  BY <1>1, Kept, StartReceive, Zenon
<1> DEFINE closed == shutdown_and_close_socket(s)
           r == receive(s)
<1>4. res \in Outcomes /\ res # "pending"
  BY Kept, SocketParts DEF connect_cbk
<1>5. \/ socket_' = closed /\ given_up' = given_up \cup {"aborted"} /\ state_' = state_
         /\ UNCHANGED <<queue_, queue_size_, was_not_connected_>>
      \/ socket_' = closed /\ given_up' = given_up /\ connect_timer_' = TRUE
         /\ state_' \in {state_, "CLOSED"}
         /\ UNCHANGED <<queue_, queue_size_, was_not_connected_>>
      \/ socket_' = r /\ given_up' = given_up /\ state_' \in {state_, "ESTABLISHED"} /\ ~must_resend
         /\ UNCHANGED <<queue_, queue_size_>> /\ was_not_connected_' = (was_not_connected_ /\ ~must_resend)
  <2>1. CASE res = "aborted"
    BY <2>1, Zenon DEF connect_cbk
  <2>2. CASE res = "failed"
    BY <2>2, Zenon DEF connect_cbk
  <2>3. CASE res = "ok"
    BY <2>3, Zenon DEF connect_cbk
  <2> QED BY <1>4, <2>1, <2>2, <2>3, Zenon DEF Outcomes
<1>6. /\ UNCHANGED <<proto, packetizer_, accepted, wire, restarts, sending_blocked_, faults>>
  BY Zenon DEF connect_cbk, history
<1>7. was_not_connected_' = was_not_connected_
  BY <1>5, Zenon DEF QueueInv, Flags
<1> HIDE DEF closed, r
<1>8. socket_' \in Socket /\ Settled(socket_.writes, socket_'.writes)
  BY <1>2, <1>3, <1>5, Kept, Zenon DEF closed, r
<1>9. must_resend /\ Retrying => Retrying' \/ GaveUp'
  BY <1>5, Zenon DEF Retrying, GaveUp
<1>10. state_' \in States
  BY <1>5, Kept, Zenon DEF States
<1>11. given_up \subseteq given_up' /\ given_up' \subseteq {"send", "connect", "aborted", "other"}
  BY <1>5, Kept, Zenon
<1>12. UNCHANGED <<queue_, queue_size_>>
  BY <1>5, Zenon
<1> QED BY <1>6, <1>7, <1>8, <1>9, <1>10, <1>11, <1>12, Kept, QuietStep, Zenon

-----------------------------------------------------------------------------
(* restart and stop *)

\* What such a call has to show.
LEMMA DropStep ==
    ASSUME QueueInv, UNCHANGED <<proto, packetizer_, accepted, wire, given_up, faults>>,
           faults + restarts < MaxFaults, restarts' = restarts + 1,
           state_' \in {state_, "CONNECTING"},
           socket_' \in {socket_, shutdown_and_close_socket(socket_)},
           \/ queue_' = <<>> /\ queue_size_' = 0
           \/ queue_' = <<>> /\ queue_size_' = queue_size_ /\ proto = "udp"
           \/ UNCHANGED <<queue_, queue_size_>> /\ GaveUp'
    PROVE  TypeRest' /\ Queued' /\ StallIsGivenUp' /\ Drop
<1>1. socket_' \in Socket /\ Settled(socket_.writes, socket_'.writes)
  BY Kept, CloseSocket, Zenon
<1>2. restarts' \in 0 .. MaxFaults /\ (Exact' => Exact) /\ (proto = "udp" => ~Exact')
  BY Kept, Bounds DEF Exact
<1>3. state_' \in States
  BY Kept, Zenon DEF States
<1>4. TypeRest'
  BY <1>1, <1>2, <1>3, Zenon DEF QueueInv, TypeRest
<1>5. Sized(Exact, queue_, queue_size_, packetizer_)
  BY Zenon DEF QueueInv, Queued
<1>6. Queued'
  <2>1. Sized(Exact', queue_, queue_size_, packetizer_)
    BY <1>2, <1>5, SizedWeaker, Zenon
  <2>2. Sized(Exact', <<>>, 0, packetizer_) /\ Sized(FALSE, <<>>, queue_size_, packetizer_)
    BY <2>1, SizedEmpty, Zenon
  <2>3. proto = "udp" => Sized(Exact', <<>>, queue_size_, packetizer_)
    BY <1>2, <2>2, SizedWeaker, Zenon
  <2> QED BY <2>1, <2>2, <2>3, Zenon DEF Queued
<1>7. StallIsGivenUp'
  BY Zenon DEF StallIsGivenUp, Stalled, GaveUp
<1> QED BY <1>1, <1>4, <1>6, <1>7, Zenon DEF Drop

\* restart drops or keeps the queue and connects again.
LEMMA StepRestart ==
    ASSUME QueueInv, restart_tcp \/ restart_udp \/ restart_local
    PROVE  TypeRest' /\ Queued' /\ StallIsGivenUp' /\ Drop
BY DropStep, Zenon DEF restart_tcp, restart_udp, restart_local, restarting

\* stop blocks sending and closes the socket.
LEMMA StepStop ==
    ASSUME QueueInv, stop \/ stop_local
    PROVE  TypeRest' /\ Queued' /\ StallIsGivenUp' /\ Drop
<1>1. stop_local => GaveUp'
  BY Zenon DEF stop_local, stopped, GaveUp
<1> QED BY <1>1, DropStep, Zenon DEF stop, stop_local, stopped
-----------------------------------------------------------------------------
(* Steps that change the queue *)

\* The socket once a write is started.
LEMMA WrittenType ==
    ASSUME NEW s \in Socket, NEW q, NEW n, Writes(s, q, n)
    PROVE  socket_' \in Socket /\ (queue_' # <<>> => socket_'.writes # <<>>)
<1>1. CASE q = <<>>
  BY <1>1, Zenon DEF Writes
<1>2. CASE q # <<>>
  <2>1. PICK w \in Write : socket_'.writes = Append(s.writes, w)
    BY <1>2, Zenon DEF Writes
  <2>2. s.writes \in Seq(Write)
    BY SocketParts, Zenon
  <2> QED BY <2>1, <2>2 DEF Writes
<1> QED BY <1>1, <1>2, Zenon

\* connect_cbk writes the front again.
LEMMA StepResend ==
    ASSUME QueueInv, NEW i \in DOMAIN socket_.connects, connect_cbk(i),
           socket_.connects[i] = "ok", must_resend
    PROVE  TypeRest' /\ Queued' /\ StallIsGivenUp' /\ Resend
<1> DEFINE s == [socket_ EXCEPT !.connects = RemoveAt(@, i)]
           r == receive(s)
<1>1. s \in Socket /\ s.writes = socket_.writes
  BY Kept, SocketRemove, Zenon
<1>2. r \in Socket /\ r.writes = socket_.writes
  BY <1>1, Kept, StartReceive, Zenon
<1>3. /\ send_queued(r, queue_, queue_size_) /\ given_up' = given_up
      /\ was_not_connected_' = (was_not_connected_ /\ ~must_resend)
      /\ state_' \in {state_, "ESTABLISHED"}
      /\ UNCHANGED <<proto, packetizer_, accepted, wire, restarts, sending_blocked_, faults>>
  BY Zenon DEF connect_cbk, history
<1> HIDE DEF r
<1>4. queue_ \in Seq(Buffer) /\ queue_size_ \in Nat
  BY SizedParts, Zenon DEF QueueInv, Queued
<1>5. Writes(r, queue_, queue_size_)
  BY <1>2, <1>3, <1>4, SendQueuedCases, Zenon
<1>6. socket_' \in Socket /\ (queue_' # <<>> => socket_'.writes # <<>>)
  BY <1>2, <1>5, WrittenType
<1>7. TypeRest'
  BY <1>3, <1>6 DEF QueueInv, TypeRest, States
<1>8. Queued'
  <2>1. Exact' <=> Exact
    BY <1>3, Zenon DEF Exact
  <2>2. Sized(Exact, queue_', queue_size_', packetizer_)
    BY <1>5, SizedWrites, Zenon DEF QueueInv, Queued
  <2> QED BY <1>3, <2>1, <2>2 DEF Queued, Sized
<1>9. StallIsGivenUp'
  BY <1>6, Zenon DEF StallIsGivenUp, Stalled
<1>10. queue_ # <<>> /\ was_not_connected_ /\ ~was_not_connected_'
  BY <1>3, Zenon DEF must_resend
<1> QED BY <1>2, <1>3, <1>5, <1>7, <1>8, <1>9, <1>10 DEF Resend
-----------------------------------------------------------------------------
(* send and flush *)

\* The message send() is called with.
LEMMA NewMessage ==
    ASSUME QueueInv, NEW _size \in Sizes
    PROVE  LET m == [id |-> accepted + 1, size |-> _size]
           IN  m \in Message /\ m.size = _size /\ _size \in Nat /\ _size > 0
BY SizesAssumption, Bounds DEF QueueInv, TypeRest, Message

\* The packetizer is moved if the message does not fit.
LEMMA SpilledSized ==
    ASSUME QueueInv, NEW _size \in Sizes
    PROVE  /\ Sized(Exact, SpilledQueue(_size), SpilledCount(_size), Rest(_size))
           /\ Rest(_size) = <<>> \/ BufferSize(Rest(_size)) + _size <= max_message_size_
<1>1. Sized(Exact, queue_, queue_size_, packetizer_)
  BY Zenon DEF QueueInv, Queued
<1>2. CASE Spills(_size)
  <2>1. Sized(Exact, Append(queue_, packetizer_), queue_size_ + BufferSize(packetizer_), <<>>)
    BY <1>1, SizedSpill, Zenon
  <2> QED BY <1>2, <2>1, Zenon DEF SpilledQueue, SpilledCount, Rest
<1>3. CASE ~Spills(_size)
  <2>1. BufferSize(packetizer_) \in Nat /\ _size \in Nat
    BY <1>1, SizedParts, NewMessage, Zenon
  <2> QED BY <1>1, <1>3, <2>1, Bounds DEF SpilledQueue, SpilledCount, Rest, Spills
<1> QED BY <1>2, <1>3, Zenon

\* The message is added.
LEMMA FilledSized ==
    ASSUME QueueInv, NEW _size \in Sizes, _size <= max_message_size_,
           SpilledCount(_size) + _size <= queue_limit_
    PROVE  Sized(Exact, SpilledQueue(_size), SpilledCount(_size), Filled(_size))
<1> DEFINE m == [id |-> accepted + 1, size |-> _size]
<1>1. m \in Message /\ m.size = _size
  BY NewMessage, Zenon
<1>2. Filled(_size) = Append(Rest(_size), m)
  BY Zenon DEF Filled
<1> HIDE DEF m
<1> QED BY <1>1, <1>2, SpilledSized, SizedAdd

\* flush moves the packetizer to the queue.
LEMMA FlushedSized ==
    ASSUME QueueInv, NEW _size \in Sizes, NEW _flush \in BOOLEAN, _size <= max_message_size_,
           SpilledCount(_size) + _size <= queue_limit_
    PROVE  Sized(Exact, FlushedQueue(_size, _flush), FlushedCount(_size, _flush),
                 IF _flush THEN <<>> ELSE Filled(_size))
<1>1. CASE _flush
  BY <1>1, FilledSized, SizedSpill DEF FlushedQueue, FlushedCount
<1>2. CASE ~_flush
  BY <1>2, FilledSized, Zenon DEF FlushedQueue, FlushedCount
<1> QED BY <1>1, <1>2, Zenon

\* A buffer joins the queue and is written if the queue was empty.
LEMMA JoinsCases ==
    ASSUME QueueInv, NEW q, NEW n, NEW p, Sized(Exact, q, n, p),
           IF queue_ = <<>> THEN send_queued(socket_, q, n)
           ELSE queue_' = q /\ queue_size_' = n /\ UNCHANGED socket_
    PROVE  Joins(q, n)
<1>1. q \in Seq(Buffer) /\ n \in Nat
  BY SizedParts, Zenon
<1> QED BY <1>1, Kept, SendQueuedCases DEF Joins

\* What Joins does to the sizes and to the socket.
LEMMA JoinsSized ==
    ASSUME QueueInv, NEW q, NEW n, NEW p, Sized(Exact, q, n, p), Joins(q, n)
    PROVE  /\ Sized(Exact, queue_', queue_size_', p) /\ socket_' \in Socket
           /\ \/ queue_' = <<>> \/ socket_'.writes # <<>>
              \/ queue_ # <<>> /\ UNCHANGED socket_
<1>1. CASE queue_ = <<>>
  <2>1. Writes(socket_, q, n)
    BY <1>1, Zenon DEF Joins
  <2>2. Sized(Exact, queue_', queue_size_', p)
    BY <2>1, SizedWrites, Zenon
  <2>3. socket_.writes \in Seq(Write)
    BY Kept, SocketParts, Zenon
  <2> QED BY <2>1, <2>2, <2>3 DEF Writes
<1>2. CASE queue_ # <<>>
  BY <1>2, Kept, Zenon DEF Joins
<1> QED BY <1>1, <1>2

\* send refuses the message or takes it.
LEMMA SendCases ==
    ASSUME QueueInv, NEW _size \in Sizes, NEW _flush \in BOOLEAN, send(_size, _flush)
    PROVE  Sending(_size, _flush)
<1> DEFINE q == SpilledQueue(_size)
           n == SpilledCount(_size)
           flushed == FlushedQueue(_size, _flush)
           total == FlushedCount(_size, _flush)
<1>1. /\ ~sending_blocked_ /\ _size <= max_message_size_ /\ accepted < MaxMessages
      /\ UNCHANGED <<proto, state_, sending_blocked_, was_not_connected_, connect_timer_,
                     reconnects, wire, restarts, faults>>
  BY Zenon DEF send
<1>2. \/ Refused(_size)
      \/ /\ ~exceeds_limit(n, _size)
         /\ packetizer_' = IF _flush THEN <<>> ELSE Filled(_size)
         /\ IF queue_ = <<>> THEN send_queued(socket_, flushed, total)
            ELSE queue_' = flushed /\ queue_size_' = total /\ UNCHANGED socket_
         /\ accepted' = accepted + 1 /\ UNCHANGED given_up
  BY Zenon DEF send, Refused, Spills, Rest, SpilledQueue, SpilledCount, Filled, FlushedQueue,
               FlushedCount
<1> HIDE DEF q, n, flushed, total
<1>3. ASSUME ~exceeds_limit(n, _size) PROVE n + _size <= queue_limit_
  <2>1. n \in Nat /\ _size \in Nat
    BY SpilledSized, SizedParts, NewMessage, Zenon DEF n
  <2> QED BY <1>3, <2>1, Bounds DEF exceeds_limit
<1>4. CASE Refused(_size)
  BY <1>1, <1>4, Zenon DEF Sending
<1>5. CASE ~Refused(_size)
  <2>1. Sized(Exact, flushed, total, IF _flush THEN <<>> ELSE Filled(_size))
    BY <1>1, <1>2, <1>3, <1>5, FlushedSized DEF flushed, total, n
  <2>2. Joins(flushed, total)
    BY <1>2, <1>5, <2>1, JoinsCases
  <2> QED BY <1>1, <1>2, <1>3, <1>5, <2>2 DEF Sending, Taken, flushed, total, n
<1> QED BY <1>4, <1>5, Zenon

\* What the count is exact for stays the same.
LEMMA ExactKept == ASSUME UNCHANGED <<proto, restarts>> PROVE Exact' = Exact
BY Zenon DEF Exact

\* send keeps queue and sizes.
LEMMA StepSend ==
    ASSUME QueueInv, NEW _size \in Sizes, NEW _flush \in BOOLEAN, Sending(_size, _flush)
    PROVE  TypeRest' /\ Queued' /\ StallIsGivenUp'
<1>1. Exact' = Exact
  BY ExactKept, Zenon DEF Sending
<1>2. CASE Refused(_size)
  <2>1. Queued'
    BY <1>1, <1>2, SpilledSized DEF Refused, Queued
  <2>2. TypeRest'
    BY <1>2, Kept DEF Refused, Sending, QueueInv, TypeRest
  <2>3. StallIsGivenUp'
    <3>1. CASE queue_ = <<>>
      BY <1>2, <3>1, Zenon DEF Refused, StallIsGivenUp, Stalled
    <3>2. CASE queue_ # <<>>
      BY <1>2, <3>2 DEF Refused, Sending, QueueInv, StallIsGivenUp, Stalled
    <3> QED BY <3>1, <3>2, Zenon
  <2> QED BY <2>1, <2>2, <2>3, Zenon
<1>3. CASE Taken(_size, _flush)
  <2> DEFINE q == FlushedQueue(_size, _flush)
             n == FlushedCount(_size, _flush)
             p == IF _flush THEN <<>> ELSE Filled(_size)
  <2>1. Sized(Exact, q, n, p)
    BY <1>3, FlushedSized, Zenon DEF Sending, Taken
  <2>2. Joins(q, n) /\ packetizer_' = p
    BY <1>3, Zenon DEF Taken
  <2> HIDE DEF q, n, p
  <2>3. /\ Sized(Exact, queue_', queue_size_', p) /\ socket_' \in Socket
        /\ \/ queue_' = <<>> \/ socket_'.writes # <<>>
           \/ queue_ # <<>> /\ UNCHANGED socket_
    BY <2>1, <2>2, JoinsSized, Zenon
  <2>4. Queued'
    BY <1>1, <2>2, <2>3, Zenon DEF Queued
  <2>5. accepted' \in 0 .. MaxMessages
    BY <1>3, Bounds DEF Taken, Sending, QueueInv, TypeRest
  <2>6. TypeRest'
    BY <1>3, <2>3, <2>5, Zenon DEF Taken, Sending, QueueInv, TypeRest
  <2>7. StallIsGivenUp'
    BY <1>3, <2>3, Zenon DEF Taken, Sending, QueueInv, StallIsGivenUp, Stalled
  <2> QED BY <2>4, <2>6, <2>7
<1> QED BY <1>2, <1>3, Zenon DEF Sending

\* flush moves the packetizer, if it holds anything.
LEMMA FlushCases ==
    ASSUME QueueInv, flush
    PROVE  Moving \/ (packetizer_ = <<>> /\ UNCHANGED <<buffers, socket_>>)
<1>1. CASE packetizer_ = <<>>
  BY <1>1, Zenon DEF flush
<1>2. CASE packetizer_ # <<>>
  <2> DEFINE q == Append(queue_, packetizer_)
             n == queue_size_ + BufferSize(packetizer_)
  <2>1. Sized(Exact, q, n, <<>>)
    BY SizedSpill, Zenon DEF QueueInv, Queued
  <2>2. packetizer_' = <<>> /\ IF queue_ = <<>> THEN send_queued(socket_, q, n)
                               ELSE queue_' = q /\ queue_size_' = n /\ UNCHANGED socket_
    BY <1>2, Zenon DEF flush, enqueue
  <2> HIDE DEF q, n
  <2>3. Joins(q, n)
    BY <2>1, <2>2, JoinsCases, Zenon
  <2>4. UNCHANGED <<proto, state_, sending_blocked_, was_not_connected_, connect_timer_,
                    reconnects, accepted, wire, restarts, given_up, faults>>
    BY Zenon DEF flush, history
  <2> QED BY <1>2, <2>2, <2>3, <2>4, Zenon DEF Moving, q, n
<1> QED BY <1>1, <1>2, Zenon

\* Moving the packetizer keeps queue and sizes.
LEMMA StepMoving ==
    ASSUME QueueInv, Moving
    PROVE  TypeRest' /\ Queued' /\ StallIsGivenUp'
<1>1. Exact' = Exact
  BY ExactKept, Zenon DEF Moving
<1> DEFINE q == Append(queue_, packetizer_)
           n == queue_size_ + BufferSize(packetizer_)
<1>2. Sized(Exact, q, n, <<>>)
  BY SizedSpill, Zenon DEF QueueInv, Queued
<1>3. Joins(q, n) /\ packetizer_' = <<>>
  BY Zenon DEF Moving
<1> HIDE DEF q, n
<1>4. /\ Sized(Exact, queue_', queue_size_', <<>>) /\ socket_' \in Socket
      /\ \/ queue_' = <<>> \/ socket_'.writes # <<>>
         \/ queue_ # <<>> /\ UNCHANGED socket_
  BY <1>2, <1>3, JoinsSized
<1>5. Queued'
  BY <1>1, <1>3, <1>4 DEF Queued
<1>6. TypeRest'
  BY <1>4, Zenon DEF Moving, QueueInv, TypeRest
<1>7. StallIsGivenUp'
  BY <1>4, Zenon DEF Moving, QueueInv, StallIsGivenUp, Stalled
<1> QED BY <1>5, <1>6, <1>7, Zenon

\* flush keeps queue and sizes.
LEMMA StepFlush ==
    ASSUME QueueInv, flush
    PROVE  TypeRest' /\ Queued' /\ StallIsGivenUp' /\ (Moving \/ Quiet)
<1>1. CASE Moving
  BY <1>1, StepMoving, Zenon
<1>2. CASE UNCHANGED <<buffers, socket_>>
  <2>1. Retrying => Retrying'
    BY <1>2, Zenon DEF Retrying, flush
  <2> QED BY <1>2, <2>1, Kept, QuietStep, Zenon DEF flush, buffers, history
<1> QED BY <1>1, <1>2, FlushCases, Zenon
-----------------------------------------------------------------------------
(* The results of writes *)

\* send_cbk takes the front out, connects again, or stops.
LEMMA SendCbkCases ==
    ASSUME QueueInv, NEW i \in DOMAIN socket_.writes, send_cbk(i)
    PROVE  Popped(i) \/ Answered(i)
<1> DEFINE w == socket_.writes[i]
           s == [socket_ EXCEPT !.writes = RemoveAt(@, i)]
           clears == w.res = "broken_pipe" /\ sending_blocked_
<1>1. s \in Socket /\ s.writes = RemoveAt(socket_.writes, i)
  BY Kept, SocketRemove, Zenon
<1>2. w.res \in Results /\ w.res # "pending"
  <2>1. w \in Write
    BY Kept, SocketParts
  <2>2. w.res # "pending"
    BY Zenon DEF send_cbk
  <2>3. w.res \in Results
    BY <2>1, Zenon DEF Write
  <2> QED BY <2>2, <2>3, Zenon
<1>3. UNCHANGED <<proto, sending_blocked_, packetizer_, accepted, wire, restarts, connect_timer_,
                  reconnects>>
  BY Zenon DEF send_cbk, history
<1>4. RemoveAt(socket_.writes, i) \in Seq(Write)
  BY <1>1, SocketParts, Zenon
<1>5. Settled(RemoveAt(socket_.writes, i), RemoveAt(socket_.writes, i))
  BY <1>4, SettledSame, Zenon
<1> DEFINE closed == shutdown_and_close_socket(s)
<1>6. closed \in Socket /\ Settled(RemoveAt(socket_.writes, i), closed.writes)
  BY <1>1, CloseSocket, Zenon
<1>7. queue_ \in Seq(Buffer) /\ queue_size_ \in Nat
  BY SizedParts, Zenon DEF QueueInv, Queued
<1>8. CASE w.res = "ok"
  <2>1. /\ IF queue_ = <<>> THEN UNCHANGED <<queue_, queue_size_>> /\ socket_' = s
           ELSE send_queued(s, Tail(queue_), queue_size_ - BufferSize(Head(queue_)))
        /\ UNCHANGED <<state_, was_not_connected_, given_up, faults>>
    BY <1>8, Zenon DEF send_cbk
  <2> HIDE DEF s
  <2>2. CASE queue_ = <<>>
    BY <1>1, <1>2, <1>3, <1>5, <2>1, <2>2, Kept DEF Answered
  <2>3. CASE queue_ # <<>>
    <3>1. Sized(Exact, Tail(queue_), queue_size_ - BufferSize(Head(queue_)), packetizer_)
      BY <2>3, SizedTail, Zenon DEF QueueInv, Queued
    <3>2. Tail(queue_) \in Seq(Buffer) /\ queue_size_ - BufferSize(Head(queue_)) \in Nat
      BY <3>1, SizedParts, Zenon
    <3>3. Writes(s, Tail(queue_), queue_size_ - BufferSize(Head(queue_)))
      BY <1>1, <2>1, <2>3, <3>2, SendQueuedCases, Zenon
    <3> QED BY <1>1, <1>3, <1>8, <2>1, <2>3, <3>3 DEF Popped
  <2> QED BY <2>2, <2>3, Zenon
<1>9. CASE w.res \in {"broken_pipe", "bad_descriptor"}
  <2>1. /\ queue_' = IF clears THEN <<>> ELSE queue_
        /\ queue_size_' = IF clears THEN 0 ELSE queue_size_
        /\ was_not_connected_' = TRUE
        /\ connect(closed, "CLOSED")
    BY <1>9, Zenon DEF send_cbk
  <2> HIDE DEF closed, s
  <2>2. Connects(closed, "CLOSED")
    BY <1>6, <2>1, Kept, ConnectCases
  <2>3. \/ UNCHANGED <<queue_, queue_size_>>
        \/ queue_' = <<>> /\ queue_size_' = 0 /\ sending_blocked_
    BY <2>1, Zenon
  <2>4. /\ socket_' \in Socket /\ Settled(RemoveAt(socket_.writes, i), socket_'.writes)
        /\ faults' \in 0 .. MaxFaults /\ state_' \in States
    BY <1>6, <2>2, Zenon DEF Connects, States
  <2>5. /\ given_up \subseteq given_up'
        /\ given_up' \subseteq {"send", "connect", "aborted", "other"}
        /\ GaveUp' \/ (was_not_connected_' /\ Retrying')
    BY <2>1, <2>2, Kept, Zenon DEF Connects, GaveUp, Retrying
  <2> QED BY <1>2, <1>3, <1>9, <2>1, <2>3, <2>4, <2>5 DEF Answered
<1>10. CASE w.res \in {"aborted", "other"}
  <2>1. /\ socket_' \in {s, closed}
        /\ given_up' = given_up \cup {w.res}
        /\ UNCHANGED <<queue_, queue_size_, state_, was_not_connected_, faults>>
    BY <1>10, Zenon DEF send_cbk
  <2> HIDE DEF closed, s
  <2>2. socket_' \in Socket /\ Settled(RemoveAt(socket_.writes, i), socket_'.writes)
    BY <1>1, <1>5, <1>6, <2>1
  <2>3. /\ given_up \subseteq given_up'
        /\ given_up' \subseteq {"send", "connect", "aborted", "other"}
        /\ GaveUp'
    BY <1>10, <2>1, Kept, Zenon DEF GaveUp
  <2> QED BY <1>2, <1>3, <1>10, <2>1, <2>2, <2>3, Kept DEF Answered
<1> QED BY <1>2, <1>8, <1>9, <1>10 DEF Results

\* send_cbk keeps queue and sizes.
LEMMA StepSendCbk ==
    ASSUME QueueInv, NEW i \in DOMAIN socket_.writes, Popped(i) \/ Answered(i)
    PROVE  TypeRest' /\ Queued' /\ StallIsGivenUp'
<1>1. Exact' = Exact
  BY ExactKept, Zenon DEF Popped, Answered
<1>2. CASE Popped(i)
  <2>1. PICK s \in Socket :
          /\ s.writes = RemoveAt(socket_.writes, i)
          /\ Writes(s, Tail(queue_), queue_size_ - BufferSize(Head(queue_)))
    BY <1>2, Zenon DEF Popped
  <2>2. Sized(Exact, Tail(queue_), queue_size_ - BufferSize(Head(queue_)), packetizer_)
    BY <1>2, SizedTail, Zenon DEF QueueInv, Queued, Popped
  <2>3. Sized(Exact, queue_', queue_size_', packetizer_)
    BY <2>1, <2>2, SizedWrites
  <2>5. socket_' \in Socket /\ (queue_' # <<>> => socket_'.writes # <<>>)
    BY <2>1, WrittenType, Zenon
  <2>6. Queued'
    BY <1>1, <1>2, <2>3, Zenon DEF Popped, Queued
  <2>7. TypeRest'
    BY <1>2, <2>5, Zenon DEF Popped, QueueInv, TypeRest
  <2>8. StallIsGivenUp'
    BY <2>5, Zenon DEF StallIsGivenUp, Stalled
  <2> QED BY <2>6, <2>7, <2>8, Zenon
<1>3. CASE Answered(i)
  <2>1. Sized(Exact, queue_', queue_size_', packetizer_)
    BY <1>3, SizedEmpty, Zenon DEF Answered, QueueInv, Queued
  <2>2. Queued'
    BY <1>1, <1>3, <2>1, Zenon DEF Answered, Queued
  <2>3. TypeRest'
    BY <1>3, Zenon DEF Answered, QueueInv, TypeRest
  <2>4. StallIsGivenUp'
    BY <1>3, Zenon DEF Answered, StallIsGivenUp, Stalled, GaveUp, Retrying
  <2> QED BY <2>2, <2>3, <2>4, Zenon
<1> QED BY <1>2, <1>3, Zenon

\* A write gets its answer.
LEMMA StepWriteCompletes ==
    ASSUME QueueInv, WriteCompletes
    PROVE  TypeRest' /\ Queued' /\ StallIsGivenUp'
           /\ \E i \in DOMAIN socket_.writes : Transmitted(i)
<1> DEFINE ws == socket_.writes
<1>1. PICK i \in DOMAIN ws :
          /\ ws[i].res = "pending"
          /\ \A j \in 1 .. i - 1 : ws[j].res # "pending"
          /\ socket_' = [socket_ EXCEPT !.writes[i].res = "ok"]
          /\ wire' = Append(wire, Ids(ws[i].buffer))
  BY Zenon DEF WriteCompletes
<1>2. UNCHANGED <<proto, state_, sending_blocked_, packetizer_, queue_, queue_size_,
                  was_not_connected_, connect_timer_, reconnects, accepted, restarts, given_up,
                  faults>>
  BY Zenon DEF WriteCompletes, NetworkStep, buffers
<1> DEFINE vs == [ws EXCEPT ![i].res = "ok"]
           s == [socket_ EXCEPT !.writes = vs]
<1>3. socket_' = s
  BY <1>1, Zenon
<1>4. ws \in Seq(Write) /\ ws[i] \in Write /\ "ok" \in Results
  BY Kept, SocketParts DEF Results
<1>5. /\ [ws[i] EXCEPT !.res = "ok"] \in Write
      /\ [ws[i] EXCEPT !.res = "ok"].res = "ok"
      /\ [ws[i] EXCEPT !.res = "ok"].buffer = ws[i].buffer
      /\ ws[i].buffer \in Buffer
  BY <1>4, WriteResult, Zenon
<1>6. /\ vs \in Seq(Write) /\ Len(vs) = Len(ws)
      /\ vs[i] = [ws[i] EXCEPT !.res = "ok"]
      /\ \A j \in DOMAIN ws : j # i => vs[j] = ws[j]
  BY <1>4, <1>5
<1> HIDE DEF vs, ws
<1>7. s \in Socket /\ s.writes = vs /\ s.connects = socket_.connects
  BY <1>6, Kept, Zenon DEF Socket
<1>8. Settled(ws, vs)
  <2>1. vs[i].buffer = ws[i].buffer
    BY <1>5, <1>6, Zenon
  <2>2. \A j \in 1 .. Len(ws) :
            /\ vs[j].buffer = ws[j].buffer
            /\ ws[j].res # "pending" => vs[j].res = ws[j].res
    <3> SUFFICES ASSUME NEW j \in 1 .. Len(ws)
                 PROVE  /\ vs[j].buffer = ws[j].buffer
                        /\ ws[j].res # "pending" => vs[j].res = ws[j].res
      BY Zenon
    <3>1. j \in DOMAIN ws
      BY <1>4
    <3>2. CASE j = i
      BY <1>1, <2>1, <3>2, Zenon
    <3>3. CASE j # i
      BY <1>6, <3>1, <3>3
    <3> QED BY <3>2, <3>3, Zenon
  <2>3. vs \in Seq(Write) /\ Len(vs) = Len(ws)
    BY <1>6, Zenon
  <2> QED BY <2>2, <2>3, Zenon DEF Settled
<1>9. Transmitted(i)
  <2>1. vs[i].res = "ok"
    BY <1>5, <1>6, Zenon
  <2>2. \A j \in DOMAIN ws : IF j = i THEN vs[j].res = "ok" ELSE vs[j] = ws[j]
    BY <1>6, <2>1, Zenon
  <2>3. /\ ws[i].res = "pending" /\ \A j \in 1 .. i - 1 : ws[j].res # "pending"
        /\ wire' = Append(wire, Ids(ws[i].buffer))
    BY <1>1, Zenon
  <2>4. socket_' \in Socket /\ socket_'.writes = vs
    BY <1>3, <1>7, Zenon
  <2> HIDE DEF s
  <2> QED BY <1>2, <1>8, <2>2, <2>3, <2>4, Zenon DEF Transmitted, ws
<1>10. wire' \in Seq(Seq(Nat \ {0}))
  <2>1. Ids(ws[i].buffer) \in Seq(Nat \ {0})
    BY <1>5, IdsType, Zenon
  <2>2. wire \in Seq(Seq(Nat \ {0})) /\ wire' = Append(wire, Ids(ws[i].buffer))
    BY <1>1, Zenon DEF QueueInv, TypeRest
  <2> QED BY <2>1, <2>2
<1>11. TypeRest'
  BY <1>2, <1>3, <1>7, <1>10 DEF QueueInv, TypeRest
<1>12. Queued'
  BY <1>2, QuietKeeps, Zenon DEF QueueInv
<1>13. StallIsGivenUp'
  <2>1. Retrying' = Retrying /\ GaveUp' = GaveUp
    BY <1>2, <1>3, <1>7 DEF Retrying, GaveUp
  <2> QED BY <1>2, <1>3, <1>7, <1>8, <2>1, Kept, StallKept DEF QueueInv, ws
<1> QED BY <1>9, <1>11, <1>12, <1>13 DEF ws
-----------------------------------------------------------------------------
(* All steps *)

\* The flags stay flags.
LEMMA FlagsNext == ASSUME QueueInv, [Next]_vars PROVE Flags'
<1>0. Flags
  BY Zenon DEF QueueInv
<1>1. CASE Host
  <2>1. ASSUME NEW n \in Sizes, NEW f \in BOOLEAN, send(n, f) PROVE Flags'
    BY <2>1, <1>0, Zenon DEF send, Flags
  <2>2. CASE restart_tcp \/ restart_udp \/ restart_local
    BY <2>2, <1>0, Zenon DEF restart_tcp, restart_udp, restart_local, restarting, Flags
  <2>3. CASE stop \/ stop_local
    BY <2>3, <1>0, Zenon DEF stop, stop_local, stopped, Flags
  <2> QED BY <1>1, <2>1, <2>2, <2>3 DEF Host
<1>2. CASE Network
  BY <1>2, <1>0, Zenon DEF Network, ConnectCompletes, WriteCompletes, ConnectionLost, NetworkStep, Flags
<1>3. CASE Handlers
  <2>1. ASSUME NEW i \in DOMAIN socket_.connects, connect_cbk(i) PROVE Flags'
    <3>1. socket_.connects[i] \in Outcomes /\ socket_.connects[i] # "pending"
      BY <2>1, Kept, SocketParts DEF connect_cbk
    <3>2. CASE socket_.connects[i] = "aborted"
      BY <2>1, <1>0, <3>2, Zenon DEF connect_cbk, Flags
    <3>3. CASE socket_.connects[i] = "failed"
      BY <2>1, <1>0, <3>3, Zenon DEF connect_cbk, Flags
    <3>4. CASE socket_.connects[i] = "ok"
      BY <2>1, <1>0, <3>4, Zenon DEF connect_cbk, Flags
    <3> QED BY <3>1, <3>2, <3>3, <3>4 DEF Outcomes
  <2>2. ASSUME NEW i \in DOMAIN socket_.writes, send_cbk(i) PROVE Flags'
    <3>1. was_not_connected_' \in {was_not_connected_, TRUE}
      BY <2>2, SendCbkCases, Zenon DEF Popped, Answered
    <3> QED BY <1>0, <2>2, <3>1, Zenon DEF send_cbk, Flags
  <2>3. ASSUME NEW i, receive_cbk(i) PROVE Flags'
    BY <2>3, <1>0, Zenon DEF receive_cbk, Flags
  <2>4. CASE flush
    BY <2>4, <1>0, Zenon DEF flush, Flags
  <2>5. CASE set_connected \/ connect_timer_expires \/ wait_connect_cbk \/ stop_local_waited
    BY <2>5, <1>0, Zenon DEF set_connected, connect_timer_expires, wait_connect_cbk, stop_local_waited,
                       Flags
  <2> QED BY <1>3, <2>1, <2>2, <2>3, <2>4, <2>5, Zenon DEF Handlers
<1>4. CASE UNCHANGED vars
  BY <1>4, <1>0, Zenon DEF vars, Flags
<1> QED BY <1>1, <1>2, <1>3, <1>4 DEF Next

\* Every step keeps the queue's invariant and is one of a few.
LEMMA Steps ==
    ASSUME QueueInv, [Next]_vars
    PROVE  TypeRest' /\ Queued' /\ StallIsGivenUp' /\ BufferStep
<1>1. CASE Handlers
  <2>1. ASSUME NEW i \in DOMAIN socket_.connects, connect_cbk(i)
        PROVE  TypeRest' /\ Queued' /\ StallIsGivenUp' /\ BufferStep
    BY <2>1, StepConnect, StepResend, Zenon DEF BufferStep
  <2>2. ASSUME NEW i \in DOMAIN socket_.writes, send_cbk(i)
        PROVE  TypeRest' /\ Queued' /\ StallIsGivenUp' /\ BufferStep
    BY <2>2, SendCbkCases, StepSendCbk, Zenon DEF BufferStep
  <2>3. ASSUME NEW i \in DOMAIN socket_.reads, receive_cbk(i)
        PROVE  TypeRest' /\ Queued' /\ StallIsGivenUp' /\ BufferStep
    BY <2>3, StepReceive, Zenon DEF BufferStep
  <2>4. CASE flush
    BY <2>4, StepFlush, Zenon DEF BufferStep
  <2>5. CASE set_connected \/ connect_timer_expires \/ wait_connect_cbk \/ stop_local_waited
    BY <2>5, StepSetConnected, StepTimerExpires, StepWaitConnect, StepStopWaited DEF BufferStep
  <2> QED BY <1>1, <2>1, <2>2, <2>3, <2>4, <2>5 DEF Handlers
<1>2. CASE Host
  <2>1. ASSUME NEW n \in Sizes, NEW f \in BOOLEAN, send(n, f)
        PROVE  TypeRest' /\ Queued' /\ StallIsGivenUp' /\ BufferStep
    BY <2>1, SendCases, StepSend, Zenon DEF BufferStep
  <2> QED BY <1>2, <2>1, StepRestart, StepStop DEF Host, BufferStep
<1>3. CASE Network
  <2>1. ASSUME NEW ok \in BOOLEAN, ConnectCompletes(ok)
        PROVE  TypeRest' /\ Queued' /\ StallIsGivenUp' /\ BufferStep
    BY <2>1, StepConnectCompletes, Zenon DEF BufferStep
  <2>2. ASSUME NEW res \in {"broken_pipe", "other", "pending"}, ConnectionLost(res)
        PROVE  TypeRest' /\ Queued' /\ StallIsGivenUp' /\ BufferStep
    BY <2>2, StepConnectionLost, Zenon DEF BufferStep
  <2>3. CASE WriteCompletes
    BY <2>3, StepWriteCompletes, Zenon DEF BufferStep
  <2> QED BY <1>3, <2>1, <2>2, <2>3 DEF Network
<1>4. CASE UNCHANGED vars
  <2>1. Retrying => Retrying'
    BY <1>4, Zenon DEF Retrying, vars
  <2> QED BY <1>4, <2>1, Kept, QuietStep DEF vars, buffers, history, BufferStep
<1> QED BY <1>1, <1>2, <1>3, <1>4 DEF Next

\* The queue's inductive invariant holds always.
LEMMA QueueInvariant == Spec => []QueueInv
<1>1. QueueInv /\ [Next]_vars => QueueInv'
  BY Steps, FlagsNext, Zenon DEF QueueInv
<1> QED BY <1>1, QueueInit, PTL DEF Spec

\* It gives what the run checks.
LEMMA QueueInvImplies == QueueInv => QueueInOrder
<1> SUFFICES ASSUME QueueInv PROVE QueueInOrder
  BY Zenon
<1>1. /\ queue_ \in Seq(Buffer) /\ queue_size_ \in Nat /\ packetizer_ \in Seq(Message)
      /\ QueuedSize(queue_) \in Nat /\ QueuedPayload(queue_) \in Nat
      /\ BufferSize(packetizer_) \in Nat
  BY SizedParts, Zenon DEF QueueInv, Queued
<1>2. /\ queue_size_ >= QueuedSize(queue_) /\ (Exact => queue_size_ = QueuedSize(queue_))
      /\ QueuedPayload(queue_) + BufferSize(packetizer_) < queue_limit_ + max_message_size_
  BY Zenon DEF QueueInv, Queued, Sized
<1>3. QueueSizeIsSum
  BY <1>2, Zenon DEF QueueSizeIsSum, Exact
<1>4. QueueBounded
  BY <1>1, <1>2, Bounds DEF QueueBounded
<1>5. {sending_blocked_, was_not_connected_, flush_timer_, connect_timer_, reconnects,
       announcing, stopping} \subseteq BOOLEAN
  BY Zenon DEF QueueInv, Flags
<1>6. TypeOK
  BY <1>1, <1>5, Zenon DEF QueueInv, TypeRest, States, TypeOK
<1> QED BY <1>3, <1>4, <1>6, Zenon DEF QueueInv, QueueInOrder

\* For every protocol, whatever is restarted, stopped, fails or completes late:
\* queue_size_ is the size of what is queued (after restart() of a UDP endpoint
\* at least that), the messages queued exceed the limit by less than one packet,
\* and a queue that nobody writes was given up by a handler or by stop().
THEOREM QueueKeptInOrder == Spec => []QueueInOrder
BY QueueInvariant, QueueInvImplies, PTL
-----------------------------------------------------------------------------
(* The order of what is under way *)

\* Writes that get results keep their order.
LEMMA SettledSome ==
    ASSUME NEW ws \in Seq(Write), NEW vs, Settled(ws, vs)
    PROVE  SomeOf(Pending(ws), ws, Pending(vs), vs)
<1>1. DOMAIN ws = 1 .. Len(ws) /\ DOMAIN vs = 1 .. Len(ws) /\ Len(ws) \in Nat
  BY DEF Settled
<1>2. Pending(vs) \subseteq Pending(ws) /\ Pending(ws) \subseteq Nat
  BY <1>1 DEF Pending, Settled
<1>3. \A j \in Pending(vs) : vs[j].buffer = ws[j].buffer
  BY <1>1, Zenon DEF Pending, Settled
<1> QED BY <1>2, <1>3, SomeOfSame, Zenon

\* So do those left when an answer is taken.
LEMMA RemovedSome ==
    ASSUME NEW ws \in Seq(Write), NEW i \in DOMAIN ws
    PROVE  /\ RemoveAt(ws, i) \in Seq(Write)
           /\ SomeOf(Pending(ws), ws, Pending(RemoveAt(ws, i)), RemoveAt(ws, i))
<1> DEFINE vs == RemoveAt(ws, i)
<1>1. /\ vs \in Seq(Write) /\ DOMAIN vs = 1 .. Len(ws) - 1
      /\ \A j \in 1 .. Len(ws) - 1 : vs[j] = IF j < i THEN ws[j] ELSE ws[j + 1]
  BY WritesRemove, Zenon
<1>2. DOMAIN ws = 1 .. Len(ws) /\ Len(ws) \in Nat /\ i \in 1 .. Len(ws)
  OBVIOUS
<1> HIDE DEF vs
<1>3. \A j \in Pending(vs) : (IF j < i THEN j ELSE j + 1) \in Pending(ws)
  BY <1>1, <1>2 DEF Pending
<1>4. Pending(vs) \in SUBSET (DOMAIN vs)
  BY Zenon DEF Pending
<1> QED BY <1>1, <1>3, <1>4, SomeOfRemove DEF vs

\* Writing the front keeps the order.
LEMMA WritesInOrder ==
    ASSUME NEW s \in Socket, NEW q \in Seq(Buffer), NEW c, NEW p, NEW n, NEW wr,
           Ordered(Pending(s.writes), wr, s.writes, q, p, n), Writes(s, q, c)
    PROVE  Ordered(Pending(socket_'.writes), wr, socket_'.writes, queue_', p, n)
<1>1. CASE q = <<>>
  BY <1>1, Zenon DEF Writes
<1>2. CASE q # <<>>
  <2> DEFINE ws == s.writes
             vs == socket_'.writes
  <2>1. PICK w \in Write : w.buffer = Head(queue_') /\ vs = Append(ws, w)
    BY <1>2, Zenon DEF Writes
  <2>2. /\ queue_' \in Seq(Buffer) /\ queue_' # <<>> /\ Len(queue_') = Len(q)
        /\ \A k \in 1 .. Len(q) : Ids(queue_'[k]) = Ids(q[k])
    BY <1>2, Zenon DEF Writes, SameButFront
  <2>3. ws \in Seq(Write)
    BY SocketParts, Zenon
  <2> HIDE DEF ws, vs
  <2>4. Ids(w.buffer) = Ids(q[1])
    BY <1>2, <2>1, <2>2
  <2>5. Pending(ws) \in SUBSET (DOMAIN ws) /\ Pending(vs) \in SUBSET (Pending(ws) \cup {Len(ws) + 1})
    BY <2>1, <2>3 DEF Pending
  <2>6. Ordered(Pending(ws), wr, ws, q, p, n)
    BY Zenon DEF ws
  <2>7. Ordered(Pending(vs), wr, Append(ws, w), queue_', p, n)
    BY <1>2, <2>2, <2>3, <2>4, <2>5, <2>6, OrderedWritten, Zenon
  <2> QED BY <2>1, <2>7, Zenon DEF vs
<1> QED BY <1>1, <1>2, Zenon

\* So does a buffer that joins the queue.
LEMMA JoinsOrdered ==
    ASSUME NEW q \in Seq(Buffer), NEW c, NEW p, NEW n, socket_ \in Socket, Joins(q, c),
           Ordered(Pending(socket_.writes), wire, socket_.writes, q, p, n)
    PROVE  Ordered(Pending(socket_'.writes), wire, socket_'.writes, queue_', p, n)
<1>1. CASE queue_ = <<>>
  BY <1>1, WritesInOrder, Zenon DEF Joins
<1>2. CASE queue_ # <<>>
  BY <1>2, Zenon DEF Joins
<1> QED BY <1>1, <1>2, Zenon

\* What Writes does to the writes when there were none.
LEMMA WritesFront ==
    ASSUME NEW s \in Socket, NEW q \in Seq(Buffer), NEW c, NEW wr, s.writes = <<>>, Writes(s, q, c),
           q # <<>> /\ wr # <<>> => After(LastOf(wr), Ids(q[1]))
    PROVE  FrontOnly(wr, socket_'.writes, queue_', FALSE)
<1>1. CASE q = <<>>
  BY <1>1 DEF Writes, FrontOnly
<1>2. CASE q # <<>>
  <2>1. PICK w \in Write : w.buffer = Head(queue_') /\ socket_'.writes = Append(s.writes, w)
    BY <1>2, Zenon DEF Writes
  <2>2. /\ queue_' \in Seq(Buffer) /\ queue_' # <<>> /\ Len(queue_') = Len(q)
        /\ \A k \in 1 .. Len(q) : Ids(queue_'[k]) = Ids(q[k])
    BY <1>2, Zenon DEF Writes, SameButFront
  <2>3. socket_'.writes = <<w>>
    BY <2>1
  <2>4. Ids(queue_'[1]) = Ids(q[1]) /\ w.buffer = queue_'[1]
    BY <1>2, <2>1, <2>2
  <2>5. Len(<<w>>) <= 1 /\ <<w>>[1] = w
    OBVIOUS
  <2> QED BY <1>2, <2>2, <2>3, <2>4, <2>5 DEF FrontOnly
<1> QED BY <1>1, <1>2, Zenon

\* Before any restart the front is the only one written.
LEMMA FrontParts ==
    ASSUME FrontInv, restarts = 0
    PROVE  ~sending_blocked_ /\ FrontOnly(wire, socket_.writes, queue_, was_not_connected_)
BY Zenon DEF FrontInv

\* Results do not change that.
LEMMA FrontSettled ==
    ASSUME NEW wr, NEW ws \in Seq(Write), NEW q, NEW b, FrontOnly(wr, ws, q, b),
           NEW vs, Settled(ws, vs)
    PROVE  FrontOnly(wr, vs, q, b)
<1>1. DOMAIN ws = 1 .. Len(ws) /\ DOMAIN vs = 1 .. Len(ws) /\ Len(vs) = Len(ws)
  BY DEF Settled
<1>2. ws = <<>> <=> vs = <<>>
  BY SettledNone
<1>3. (\A i \in DOMAIN vs : vs[i].res # "ok") => (\A i \in DOMAIN ws : ws[i].res # "ok")
  BY <1>1, Zenon DEF Settled
<1>4. ws # <<>> => vs[1].buffer = ws[1].buffer
  BY <1>1 DEF Settled
<1> QED BY <1>1, <1>2, <1>3, <1>4 DEF FrontOnly

\* Steps that leave the queue alone keep the order.
LEMMA OrderQuiet == ASSUME QueueInv, InOrder, FrontInv, Quiet PROVE InOrder' /\ FrontInv'
<1>1. socket_.writes \in Seq(Write) /\ Settled(socket_.writes, socket_'.writes)
  BY Kept, SocketParts DEF Quiet
<1>2. InOrder'
  <2>1. SomeOf(Pending(socket_.writes), socket_.writes, Pending(socket_'.writes), socket_'.writes)
    BY <1>1, SettledSome, Zenon
  <2>2. Ordered(Pending(socket_'.writes), wire, socket_'.writes, queue_, packetizer_, accepted)
    BY <2>1, OrderedSome, Zenon DEF InOrder
  <2> QED BY <2>2, Zenon DEF Quiet, InOrder
<1>3. FrontInv'
  <2> SUFFICES ASSUME restarts' = 0
               PROVE  /\ ~sending_blocked_'
                      /\ FrontOnly(wire', socket_'.writes, queue_', was_not_connected_')
    BY Zenon DEF FrontInv
  <2>1. ~sending_blocked_ /\ FrontOnly(wire, socket_.writes, queue_, was_not_connected_)
    BY FrontParts, Zenon DEF Quiet
  <2>2. FrontOnly(wire, socket_'.writes, queue_, was_not_connected_)
    BY <1>1, <2>1, FrontSettled, Zenon
  <2> QED BY <2>1, <2>2, Zenon DEF Quiet
<1> QED BY <1>2, <1>3, Zenon

\* restart and stop keep the order.
LEMMA OrderDrop == ASSUME QueueInv, InOrder, Drop PROVE InOrder' /\ FrontInv'
<1>1. socket_.writes \in Seq(Write) /\ Settled(socket_.writes, socket_'.writes)
  BY Kept, SocketParts, Zenon DEF Drop
<1>2. InOrder'
  <2>1. SomeOf(Pending(socket_.writes), socket_.writes, Pending(socket_'.writes), socket_'.writes)
    BY <1>1, SettledSome, Zenon
  <2>2. Ordered(Pending(socket_'.writes), wire, socket_'.writes, queue_, packetizer_, accepted)
    BY <2>1, OrderedSome, Zenon DEF InOrder
  <2>3. Ordered(Pending(socket_'.writes), wire, socket_'.writes, <<>>, packetizer_, accepted)
    BY <2>2, OrderedDropped, Zenon
  <2> QED BY <2>2, <2>3, Zenon DEF Drop, InOrder
<1>3. restarts' # 0
  BY Kept DEF Drop
<1> QED BY <1>2, <1>3, Zenon DEF FrontInv

\* Writing the front again keeps the order.
LEMMA OrderResend == ASSUME QueueInv, InOrder, FrontInv, Resend PROVE InOrder' /\ FrontInv'
<1>1. PICK s \in Socket : s.writes = socket_.writes /\ Writes(s, queue_, queue_size_)
  BY Zenon DEF Resend
<1>2. queue_ \in Seq(Buffer)
  BY SizedParts, Zenon DEF QueueInv, Queued
<1>3. InOrder'
  <2>1. Ordered(Pending(socket_'.writes), wire, socket_'.writes, queue_', packetizer_, accepted)
    BY <1>1, <1>2, WritesInOrder, Zenon DEF InOrder
  <2> QED BY <2>1, Zenon DEF Resend, InOrder
<1>4. FrontInv'
  <2> SUFFICES ASSUME restarts' = 0
               PROVE  /\ ~sending_blocked_'
                      /\ FrontOnly(wire', socket_'.writes, queue_', was_not_connected_')
    BY Zenon DEF FrontInv
  <2>1. ~sending_blocked_ /\ FrontOnly(wire, socket_.writes, queue_, was_not_connected_)
    BY FrontParts, Zenon DEF Resend
  <2>2. s.writes = <<>> /\ (wire # <<>> => After(LastOf(wire), Ids(queue_[1])))
    BY <1>1, <2>1 DEF FrontOnly, Resend
  <2>3. FrontOnly(wire, socket_'.writes, queue_', FALSE)
    BY <1>1, <1>2, <2>2, WritesFront, Zenon
  <2> QED BY <2>1, <2>3, Zenon DEF Resend, FrontOnly
<1> QED BY <1>3, <1>4, Zenon

\* A queue that grew at its end, or was empty.
LEMMA JoinsFront ==
    ASSUME socket_ \in Socket, NEW q \in Seq(Buffer), NEW c, Joins(q, c),
           FrontOnly(wire, socket_.writes, queue_, was_not_connected_),
           queue_ # <<>> => q # <<>> /\ q[1] = queue_[1],
           queue_ = <<>> /\ q # <<>> /\ wire # <<>> => After(LastOf(wire), Ids(q[1]))
    PROVE  FrontOnly(wire, socket_'.writes, queue_', was_not_connected_)
<1>1. CASE queue_ = <<>>
  <2>1. socket_.writes = <<>> /\ ~was_not_connected_
    BY <1>1, Zenon DEF FrontOnly
  <2>2. FrontOnly(wire, socket_'.writes, queue_', FALSE)
    BY <1>1, <2>1, WritesFront, Zenon DEF Joins
  <2> QED BY <2>1, <2>2, Zenon DEF FrontOnly
<1>2. CASE queue_ # <<>>
  BY <1>2, Zenon DEF Joins, FrontOnly
<1> QED BY <1>1, <1>2, Zenon

\* The front of a queue that got one more buffer.
LEMMA AppendFront ==
    ASSUME NEW q \in Seq(Buffer), NEW b \in Buffer
    PROVE  /\ Append(q, b) \in Seq(Buffer) /\ Append(q, b) # <<>>
           /\ Append(q, b)[1] = IF q = <<>> THEN b ELSE q[1]
<1>1. CASE q = <<>>
  BY <1>1
<1>2. CASE q # <<>>
  <2>1. Len(q) \in Nat /\ Len(q) > 0
    BY <1>2
  <2>2. Append(q, b)[1] = q[1]
    BY <2>1
  <2>3. Append(q, b) \in Seq(Buffer) /\ Len(Append(q, b)) = Len(q) + 1
    OBVIOUS
  <2> QED BY <1>2, <2>1, <2>2, <2>3, NotEmpty
<1> QED BY <1>1, <1>2, Zenon

\* Moving the packetizer to the queue keeps the order.
LEMMA OrderMoving == ASSUME QueueInv, InOrder, FrontInv, Moving PROVE InOrder' /\ FrontInv'
<1> DEFINE q == Append(queue_, packetizer_)
<1>1. queue_ \in Seq(Buffer) /\ packetizer_ \in Buffer /\ accepted \in Nat
  BY SizedParts DEF QueueInv, Queued, TypeRest
<1>2. /\ q \in Seq(Buffer) /\ q # <<>> /\ q[1] = IF queue_ = <<>> THEN packetizer_ ELSE queue_[1]
  BY <1>1, AppendFront, Zenon
<1>3. Ordered(Pending(socket_.writes), wire, socket_.writes, q, <<>>, accepted)
  BY <1>1, OrderedSpill, Zenon DEF Moving, InOrder
<1>4. PICK c : Joins(q, c)
  BY Zenon DEF Moving
<1>5. wire # <<>> => After(LastOf(wire), Ids(packetizer_))
  BY Zenon DEF InOrder, Ordered, PacketizerOrdered, Moving
<1> HIDE DEF q
<1>6. Ordered(Pending(socket_'.writes), wire, socket_'.writes, queue_', <<>>, accepted)
  BY <1>2, <1>3, <1>4, Kept, JoinsOrdered, Zenon
<1>7. InOrder'
  BY <1>6, Zenon DEF Moving, InOrder
<1>8. FrontInv'
  <2> SUFFICES ASSUME restarts' = 0
               PROVE  /\ ~sending_blocked_'
                      /\ FrontOnly(wire', socket_'.writes, queue_', was_not_connected_')
    BY DEF FrontInv
  <2>1. ~sending_blocked_ /\ FrontOnly(wire, socket_.writes, queue_, was_not_connected_)
    BY FrontParts, Zenon DEF Moving
  <2>2. FrontOnly(wire, socket_'.writes, queue_', was_not_connected_)
    BY <1>2, <1>4, <1>5, <2>1, Kept, JoinsFront
  <2> QED BY <2>1, <2>2 DEF Moving
<1> QED BY <1>7, <1>8

\* What send makes of the queue and the packetizer is in order.
LEMMA SendingParts ==
    ASSUME QueueInv, InOrder, NEW _size \in Sizes, NEW _flush \in BOOLEAN,
           _size <= max_message_size_
    PROVE  /\ SpilledQueue(_size) \in Seq(Buffer)
           /\ Ordered(Pending(socket_.writes), wire, socket_.writes, SpilledQueue(_size),
                      Rest(_size), accepted)
           /\ queue_ # <<>> => SpilledQueue(_size) # <<>> /\ SpilledQueue(_size)[1] = queue_[1]
           /\ queue_ = <<>> /\ SpilledQueue(_size) # <<>> /\ wire # <<>>
                  => After(LastOf(wire), Ids(SpilledQueue(_size)[1]))
<1>1. queue_ \in Seq(Buffer) /\ packetizer_ \in Buffer /\ accepted \in Nat
  BY SizedParts DEF QueueInv, Queued, TypeRest
<1>2. CASE Spills(_size)
  <2> DEFINE q == Append(queue_, packetizer_)
  <2>1. packetizer_ # <<>> /\ SpilledQueue(_size) = q /\ Rest(_size) = <<>>
    BY <1>2, Zenon DEF Spills, SpilledQueue, Rest
  <2>2. q \in Seq(Buffer) /\ q # <<>> /\ q[1] = IF queue_ = <<>> THEN packetizer_ ELSE queue_[1]
    BY <1>1, AppendFront, Zenon
  <2>3. Ordered(Pending(socket_.writes), wire, socket_.writes, q, <<>>, accepted)
    BY <1>1, <2>1, OrderedSpill DEF InOrder
  <2>4. wire # <<>> => After(LastOf(wire), Ids(packetizer_))
    BY <2>1, Zenon DEF InOrder, Ordered, PacketizerOrdered
  <2> HIDE DEF q
  <2> QED BY <2>1, <2>2, <2>3, <2>4, Zenon
<1>3. CASE ~Spills(_size)
  BY <1>1, <1>3, Zenon DEF SpilledQueue, Rest, InOrder
<1> QED BY <1>2, <1>3, Zenon

\* The order while send flushes the packetizer.
LEMMA FlushedParts ==
    ASSUME QueueInv, InOrder, NEW _size \in Sizes, NEW _flush \in BOOLEAN,
           _size <= max_message_size_
    PROVE  LET q == FlushedQueue(_size, _flush)
               p == IF _flush THEN <<>> ELSE Filled(_size)
           IN  /\ q \in Seq(Buffer)
               /\ Ordered(Pending(socket_.writes), wire, socket_.writes, q, p, accepted + 1)
               /\ queue_ # <<>> => q # <<>> /\ q[1] = queue_[1]
               /\ queue_ = <<>> /\ q # <<>> /\ wire # <<>> => After(LastOf(wire), Ids(q[1]))
<1> DEFINE r == SpilledQueue(_size)
           m == [id |-> accepted + 1, size |-> _size]
           b == Filled(_size)
           P == Pending(socket_.writes)
           ws == socket_.writes
<1>1. /\ r \in Seq(Buffer) /\ Ordered(P, wire, ws, r, Rest(_size), accepted)
      /\ queue_ # <<>> => r # <<>> /\ r[1] = queue_[1]
      /\ queue_ = <<>> /\ r # <<>> /\ wire # <<>> => After(LastOf(wire), Ids(r[1]))
  BY SendingParts, Zenon
<1>2. m \in Message /\ m.id = accepted + 1 /\ accepted \in Nat
  BY NewMessage DEF QueueInv, TypeRest
<1>3. Rest(_size) \in Seq(Message) /\ Rest(_size) \in Buffer
  BY SpilledSized, SizedParts, Zenon
<1>4. b = Append(Rest(_size), m) /\ b # <<>>
  BY <1>3 DEF Filled
<1>5. b \in Buffer
  <2>1. b \in Seq(Message)
    BY <1>2, <1>3, <1>4
  <2> QED BY <2>1, PayloadOfMessages, Zenon
<1> HIDE DEF r, m, b, P, ws
<1>6. Ordered(P, wire, ws, r, b, accepted + 1)
  BY <1>1, <1>2, <1>3, <1>4, OrderedAdd
<1>7. CASE ~_flush
  BY <1>1, <1>6, <1>7, Zenon DEF FlushedQueue, r, b, P, ws
<1>8. CASE _flush
  <2>1. /\ Append(r, b) \in Seq(Buffer) /\ Append(r, b) # <<>>
        /\ Append(r, b)[1] = IF r = <<>> THEN b ELSE r[1]
    BY <1>1, <1>5, AppendFront, Zenon
  <2>2. accepted + 1 \in Nat
    BY <1>2
  <2>3. Ordered(P, wire, ws, Append(r, b), <<>>, accepted + 1)
    BY <1>1, <1>4, <1>5, <1>6, <2>2, OrderedSpill, Zenon
  <2>4. wire # <<>> => After(LastOf(wire), Ids(b))
    BY <1>4, <1>6, Zenon DEF Ordered, PacketizerOrdered
  <2>5. FlushedQueue(_size, _flush) = Append(r, b)
    BY <1>8, Zenon DEF FlushedQueue, r, b
  <2> QED BY <1>1, <1>8, <2>1, <2>3, <2>4, <2>5, Zenon DEF P, ws
<1> QED BY <1>7, <1>8, Zenon

\* send keeps the order.
LEMMA OrderSending ==
    ASSUME QueueInv, InOrder, FrontInv, NEW _size \in Sizes, NEW _flush \in BOOLEAN,
           Sending(_size, _flush)
    PROVE  InOrder' /\ FrontInv'
<1>1. /\ UNCHANGED <<wire, restarts, sending_blocked_, was_not_connected_>>
      /\ _size <= max_message_size_
  BY Zenon DEF Sending
<1>2. ASSUME restarts = 0
      PROVE  ~sending_blocked_ /\ FrontOnly(wire, socket_.writes, queue_, was_not_connected_)
  BY <1>2, FrontParts, Zenon
<1>3. CASE Refused(_size)
  <2> DEFINE q == SpilledQueue(_size)
  <2>1. /\ Ordered(Pending(socket_.writes), wire, socket_.writes, q, Rest(_size), accepted)
        /\ queue_ # <<>> => q # <<>> /\ q[1] = queue_[1]
        /\ queue_ = <<>> /\ q # <<>> /\ wire # <<>> => After(LastOf(wire), Ids(q[1]))
    BY <1>1, SendingParts, Zenon
  <2>2. UNCHANGED <<socket_, accepted>> /\ queue_' = q /\ packetizer_' = Rest(_size)
    BY <1>3, Zenon DEF Refused
  <2> HIDE DEF q
  <2>3. InOrder'
    BY <1>1, <2>1, <2>2 DEF InOrder
  <2>4. restarts = 0 => FrontOnly(wire, socket_.writes, q, was_not_connected_)
    BY <1>2, <2>1, Zenon DEF FrontOnly
  <2> QED BY <1>1, <1>2, <2>2, <2>3, <2>4 DEF FrontInv
<1>4. CASE Taken(_size, _flush)
  <2> DEFINE q == FlushedQueue(_size, _flush)
             p == IF _flush THEN <<>> ELSE Filled(_size)
  <2>1. /\ q \in Seq(Buffer)
        /\ Ordered(Pending(socket_.writes), wire, socket_.writes, q, p, accepted + 1)
        /\ queue_ # <<>> => q # <<>> /\ q[1] = queue_[1]
        /\ queue_ = <<>> /\ q # <<>> /\ wire # <<>> => After(LastOf(wire), Ids(q[1]))
    BY <1>1, FlushedParts, Zenon
  <2>2. PICK c : Joins(q, c)
    BY <1>4, Zenon DEF Taken
  <2>3. accepted' = accepted + 1 /\ packetizer_' = p
    BY <1>4, Zenon DEF Taken
  <2> HIDE DEF q, p
  <2>4. Ordered(Pending(socket_'.writes), wire, socket_'.writes, queue_', p, accepted + 1)
    BY <2>1, <2>2, Kept, JoinsOrdered, Zenon
  <2>5. InOrder'
    BY <1>1, <2>3, <2>4, Zenon DEF InOrder
  <2>6. ASSUME restarts = 0 PROVE FrontOnly(wire, socket_'.writes, queue_', was_not_connected_)
    BY <1>2, <2>1, <2>2, <2>6, Kept, JoinsFront, Zenon
  <2> QED BY <1>1, <1>2, <2>5, <2>6, Zenon DEF FrontInv
<1> QED BY <1>3, <1>4, Zenon DEF Sending

\* Before any restart the write that ends is that of the front.
LEMMA OnlyWrite ==
    ASSUME QueueInv, FrontInv, restarts = 0, NEW i \in DOMAIN socket_.writes
    PROVE  /\ i = 1 /\ Len(socket_.writes) = 1 /\ RemoveAt(socket_.writes, i) = <<>>
           /\ queue_ # <<>> /\ ~was_not_connected_ /\ ~sending_blocked_
           /\ Ids(socket_.writes[1].buffer) = Ids(queue_[1])
<1> DEFINE ws == socket_.writes
<1>1. FrontOnly(wire, ws, queue_, was_not_connected_) /\ ~sending_blocked_
  BY FrontParts, Zenon
<1>2. ws \in Seq(Write) /\ i \in DOMAIN ws
  BY Kept, SocketParts, Zenon
<1> HIDE DEF ws
<1>3. Len(ws) <= 1 /\ ws # <<>>
  <2>1. Len(ws) <= 1
    BY <1>1, Zenon DEF FrontOnly, ws
  <2>2. ws # <<>>
    BY <1>2
  <2> QED BY <2>1, <2>2, Zenon
<1>4. Len(ws) = 1 /\ i = 1
  <2>1. Len(ws) \in Nat /\ DOMAIN ws = 1 .. Len(ws)
    BY <1>2
  <2>2. i \in 1 .. Len(ws)
    BY <1>2, <2>1, Zenon
  <2> QED BY <1>3, <2>1, <2>2
<1>5. RemoveAt(ws, i) \in Seq(Write) /\ Len(RemoveAt(ws, i)) = Len(ws) - 1
  BY <1>2, WritesRemove, Zenon
<1>6. RemoveAt(ws, i) = <<>>
  BY <1>4, <1>5
<1> QED BY <1>1, <1>3, <1>4, <1>6, Zenon DEF FrontOnly, ws

\* send_cbk keeps the order and the next front is newer.
LEMMA OrderPopped ==
    ASSUME QueueInv, InOrder, FrontInv, NEW i \in DOMAIN socket_.writes, Popped(i)
    PROVE  InOrder' /\ FrontInv'
<1> DEFINE ws == socket_.writes
           left == RemoveAt(socket_.writes, i)
<1>1. ws \in Seq(Write) /\ queue_ \in Seq(Buffer) /\ queue_ # <<>> /\ Tail(queue_) \in Seq(Buffer)
  <2>1. ws \in Seq(Write) /\ queue_ \in Seq(Buffer)
    BY Kept, SocketParts, SizedParts, Zenon DEF QueueInv, Queued
  <2> QED BY <2>1 DEF Popped
<1>2. PICK s \in Socket : s.writes = left /\ \E c : Writes(s, Tail(queue_), c)
  BY Zenon DEF Popped
<1>3. PICK c : Writes(s, Tail(queue_), c)
  BY <1>2, Zenon
<1>4. SomeOf(Pending(ws), ws, Pending(left), left)
  BY <1>1, RemovedSome, Zenon
<1> HIDE DEF left, ws
<1>5. Ordered(Pending(left), wire, left, queue_, packetizer_, accepted)
  BY <1>4, OrderedSome, Zenon DEF InOrder, ws
<1>6. Ordered(Pending(left), wire, left, Tail(queue_), packetizer_, accepted)
  BY <1>1, <1>5, OrderedPopped, Zenon
<1>7. Ordered(Pending(socket_'.writes), wire, socket_'.writes, queue_', packetizer_, accepted)
  BY <1>1, <1>2, <1>3, <1>6, WritesInOrder, Zenon
<1>8. InOrder'
  BY <1>7, Zenon DEF InOrder, Popped
<1>9. ASSUME Tail(queue_) # <<>>, wire # <<>>
      PROVE  After(LastOf(wire), Ids(Tail(queue_)[1]))
  <2>1. Tail(queue_)[1] = queue_[2] /\ 1 \in DOMAIN queue_ /\ 2 \in DOMAIN queue_ /\ 1 < 2
    BY <1>1, <1>9
  <2>2. /\ Follows(LastOf(wire), Ids(queue_[1])) /\ After(Ids(queue_[1]), Ids(queue_[2]))
        /\ Consecutive(LastOf(wire)) /\ Consecutive(Ids(queue_[1])) /\ Consecutive(Ids(queue_[2]))
    BY <1>9, <2>1, Zenon DEF InOrder, Ordered, QueueOrdered, WireOrdered, Within
  <2> QED BY <2>1, <2>2, AfterTrans
<1>10. FrontInv'
  <2> SUFFICES ASSUME restarts' = 0
               PROVE  /\ ~sending_blocked_'
                      /\ FrontOnly(wire', socket_'.writes, queue_', was_not_connected_')
    BY Zenon DEF FrontInv
  <2>1. left = <<>> /\ ~was_not_connected_ /\ ~sending_blocked_
    BY OnlyWrite DEF Popped, left
  <2>2. FrontOnly(wire, socket_'.writes, queue_', FALSE)
    BY <1>1, <1>2, <1>3, <1>9, <2>1, WritesFront, Zenon
  <2> QED BY <2>1, <2>2, Zenon DEF Popped, FrontOnly
<1> QED BY <1>8, <1>10, Zenon

\* A write that failed keeps the order.
LEMMA OrderAnswered ==
    ASSUME QueueInv, InOrder, FrontInv, NEW i \in DOMAIN socket_.writes, Answered(i)
    PROVE  InOrder' /\ FrontInv'
<1> DEFINE ws == socket_.writes
           left == RemoveAt(socket_.writes, i)
           vs == socket_'.writes
<1>1. ws \in Seq(Write) /\ Settled(left, vs)
  BY Kept, SocketParts, Zenon DEF Answered
<1>2. left \in Seq(Write) /\ SomeOf(Pending(ws), ws, Pending(left), left)
  BY <1>1, RemovedSome, Zenon
<1>3. Ordered(Pending(ws), wire, ws, queue_, packetizer_, accepted)
  BY Zenon DEF InOrder
<1> HIDE DEF left, ws, vs
<1>4. Ordered(Pending(left), wire, left, queue_, packetizer_, accepted)
  BY <1>2, <1>3, OrderedSome, Zenon
<1>5. SomeOf(Pending(left), left, Pending(vs), vs)
  BY <1>1, <1>2, SettledSome, Zenon
<1>6. Ordered(Pending(vs), wire, vs, queue_, packetizer_, accepted)
  BY <1>4, <1>5, OrderedSome, Zenon
<1>7. Ordered(Pending(vs), wire, vs, <<>>, packetizer_, accepted)
  BY <1>6, OrderedDropped, Zenon
<1>8. InOrder'
  BY <1>6, <1>7, Zenon DEF InOrder, Answered, vs
<1>9. FrontInv'
  <2> SUFFICES ASSUME restarts' = 0
               PROVE  /\ ~sending_blocked_'
                      /\ FrontOnly(wire', socket_'.writes, queue_', was_not_connected_')
    BY Zenon DEF FrontInv
  <2>1. restarts = 0
    BY Zenon DEF Answered
  <2>2. /\ i = 1 /\ Len(ws) = 1 /\ left = <<>> /\ queue_ # <<>> /\ ~sending_blocked_
    BY <2>1, OnlyWrite, Zenon DEF left, ws
  <2>3. queue_' = queue_ /\ ws[i].res # "ok" /\ wire' = wire /\ sending_blocked_' = sending_blocked_
    BY <2>2, Zenon DEF Answered, ws
  <2>4. vs = <<>>
    BY <1>1, <1>2, <2>2, SettledNone, Zenon
  <2>5. \A j \in DOMAIN ws : ws[j].res # "ok"
    BY <1>1, <2>2, <2>3
  <2>6. wire # <<>> => After(LastOf(wire), Ids(queue_[1]))
    BY <2>1, <2>2, <2>5, FrontParts DEF FrontOnly, ws
  <2>7. Len(<<>>) <= 1
    OBVIOUS
  <2> QED BY <2>2, <2>3, <2>4, <2>6, <2>7 DEF FrontOnly, vs
<1> QED BY <1>8, <1>9, Zenon

\* A write that succeeds puts its buffer on the wire.
LEMMA OrderTransmitted ==
    ASSUME QueueInv, InOrder, FrontInv, NEW i \in DOMAIN socket_.writes, Transmitted(i)
    PROVE  InOrder' /\ FrontInv'
<1> DEFINE ws == socket_.writes
           vs == socket_'.writes
           P == Pending(ws)
           Q == Pending(vs)
<1>1. ws \in Seq(Write) /\ Settled(ws, vs) /\ i \in DOMAIN ws
  BY Kept, SocketParts, Zenon DEF Transmitted
<1>2. DOMAIN ws = 1 .. Len(ws) /\ DOMAIN vs = 1 .. Len(ws) /\ Len(ws) \in Nat
  BY <1>1 DEF Settled
<1>3. /\ ws[i].res = "pending" /\ vs[i].res = "ok" /\ \A j \in 1 .. i - 1 : ws[j].res # "pending"
      /\ wire' = Append(wire, Ids(ws[i].buffer))
  BY Zenon DEF Transmitted
<1>4. Ordered(P, wire, ws, queue_, packetizer_, accepted)
  BY Zenon DEF InOrder
<1>5. wire \in Seq(Seq(Nat \ {0}))
  BY Zenon DEF QueueInv, TypeRest
<1> HIDE DEF ws, vs
<1>6. P \in SUBSET Nat /\ Q \in SUBSET P /\ i \in P /\ i \notin Q /\ \A j \in P : i <= j
  BY <1>1, <1>2, <1>3 DEF Pending, Settled
<1>7. \A j \in Q : vs[j].buffer = ws[j].buffer
  BY <1>1, <1>2, Zenon DEF Pending, Settled
<1> HIDE DEF P, Q
<1>8. Ordered(Q, Append(wire, Ids(ws[i].buffer)), vs, queue_, packetizer_, accepted)
  BY <1>4, <1>5, <1>6, <1>7, OrderedDone, Zenon
<1>9. InOrder'
  BY <1>3, <1>8, Zenon DEF InOrder, Transmitted, Q, vs
<1>10. FrontInv'
  <2> SUFFICES ASSUME restarts' = 0
               PROVE  /\ ~sending_blocked_'
                      /\ FrontOnly(wire', socket_'.writes, queue_', was_not_connected_')
    BY DEF FrontInv
  <2>1. restarts = 0 /\ UNCHANGED <<queue_, sending_blocked_, was_not_connected_>>
    BY Zenon DEF Transmitted
  <2>2. /\ i = 1 /\ Len(ws) = 1 /\ queue_ # <<>> /\ ~sending_blocked_ /\ ~was_not_connected_
        /\ Ids(ws[1].buffer) = Ids(queue_[1])
    BY <2>1, OnlyWrite, Zenon DEF ws
  <2>3. Len(vs) = 1 /\ vs[1].buffer = ws[1].buffer /\ 1 \in DOMAIN vs /\ vs[1].res = "ok"
    BY <1>1, <1>2, <1>3, <2>2 DEF Settled
  <2> QED BY <2>1, <2>2, <2>3 DEF FrontOnly, vs
<1> QED BY <1>9, <1>10

\* Nothing is under way initially.
LEMMA OrderInit == Init => InOrder /\ FrontInv
<1> SUFFICES ASSUME Init PROVE InOrder /\ FrontInv
  BY Zenon
<1>1. /\ socket_.writes = <<>> /\ queue_ = <<>> /\ packetizer_ = <<>> /\ wire = <<>>
      /\ accepted = 0 /\ restarts = 0 /\ ~sending_blocked_ /\ ~was_not_connected_
  BY QueueInit, Zenon DEF Init
<1>2. Pending(socket_.writes) = {}
  BY <1>1 DEF Pending
<1>3. InOrder
  <2>1. DOMAIN queue_ = {}
    BY <1>1
  <2>2. WireOrdered(wire, accepted) /\ WritesOrdered({}, wire, socket_.writes, accepted)
    BY <1>1, Zenon DEF WireOrdered, WritesOrdered
  <2>3. /\ QueueOrdered({}, wire, socket_.writes, queue_, accepted)
        /\ PacketizerOrdered({}, wire, socket_.writes, queue_, packetizer_, accepted)
    BY <1>1, <2>1, Zenon DEF QueueOrdered, PacketizerOrdered
  <2> QED BY <1>2, <2>2, <2>3, Zenon DEF InOrder, Ordered
<1>4. FrontInv
  BY <1>1 DEF FrontInv, FrontOnly
<1> QED BY <1>3, <1>4, Zenon

\* The invariant behind ImplementsChannel holds always.
LEMMA ChannelInvariant == Spec => []ChannelInv
<1>1. Init => ChannelInv
  BY QueueInit, OrderInit, Zenon DEF ChannelInv
<1>2. ChannelInv /\ [Next]_vars => ChannelInv'
  <2> SUFFICES ASSUME QueueInv, InOrder, FrontInv, [Next]_vars
               PROVE  QueueInv' /\ InOrder' /\ FrontInv'
    BY Zenon DEF ChannelInv
  <2>1. QueueInv' /\ BufferStep
    BY Steps, FlagsNext, Zenon DEF QueueInv
  <2>2. InOrder' /\ FrontInv'
    BY <2>1, OrderQuiet, OrderDrop, OrderResend, OrderMoving, OrderSending, OrderPopped,
       OrderAnswered, OrderTransmitted DEF BufferStep
  <2> QED BY <2>1, <2>2, Zenon
<1> QED BY <1>1, <1>2, PTL DEF Spec

\* A buffer that a write hands to the network holds newer messages than the one
\* before it; after a restart it may be that one again.
LEMMA TransmittedIsNew ==
    ASSUME ChannelInv, NEW i \in DOMAIN socket_.writes, Transmitted(i)
    PROVE  KeepsOrder!Transmit
<1> DEFINE s == Ids(socket_.writes[i].buffer)
           first == s[1]
           last == s[Len(s)]
<1>1. QueueInv /\ InOrder /\ FrontInv /\ accepted \in Nat /\ restarts \in Nat
  BY Kept DEF ChannelInv, QueueInv, TypeRest
<1>2. i \in Pending(socket_.writes)
  BY Zenon DEF Pending, Transmitted
<1>3. /\ Consecutive(s) /\ last <= accepted
      /\ wire # <<>> => Follows(LastOf(wire), s) /\ Consecutive(LastOf(wire))
  BY <1>1, <1>2, Zenon DEF InOrder, Ordered, WritesOrdered, WireOrdered, Within
<1>4. wire' = Append(wire, s) /\ accepted' = accepted /\ restarts' = restarts
  BY Zenon DEF Transmitted
<1>5. /\ first \in Nat /\ last \in Nat /\ first > 0 /\ first <= last
      /\ last - first + 1 = Len(s) /\ Len(s) \in Nat
  BY <1>3, ConsecutiveEnds
<1>6. s = [k \in 1 .. last - first + 1 |-> first + k - 1]
  <2>1. s \in Seq(Nat \ {0}) /\ \A k \in 1 .. Len(s) : s[k] = first + k - 1
    BY <1>3, Zenon DEF Consecutive
  <2>2. s = [k \in 1 .. Len(s) |-> s[k]]
    BY <2>1
  <2> HIDE DEF s, first, last
  <2> QED BY <1>5, <2>1, <2>2
<1> HIDE DEF s, first, last
<1>7. CASE wire = <<>> \/ After(LastOf(wire), s)
  <2>1. KeepsOrder!Newest < first /\ KeepsOrder!Newest \in Nat
    <3>1. CASE wire = <<>>
      BY <1>5, <3>1, Zenon DEF KeepsOrder!Newest
    <3>2. CASE wire # <<>>
      <4>1. KeepsOrder!Newest = LastOf(wire)[Len(LastOf(wire))]
        BY <3>2, Zenon DEF KeepsOrder!Newest, LastOf
      <4>2. LastOf(wire)[Len(LastOf(wire))] \in Nat
        BY <1>3, <3>2, ConsecutiveEnds
      <4> QED BY <1>7, <3>2, <4>1, <4>2 DEF After, first
    <3> QED BY <3>1, <3>2, Zenon
  <2>2. first \in KeepsOrder!Newest + 1 .. accepted /\ last \in first .. accepted
    BY <1>1, <1>3, <1>5, <2>1
  <2> QED BY <1>4, <1>6, <2>2, Zenon DEF KeepsOrder!Transmit
<1>8. CASE wire # <<>> /\ ~After(LastOf(wire), s)
  <2>1. s = LastOf(wire)
    BY <1>3, <1>8, Zenon DEF Follows
  <2>2. restarts > 0
    <3> SUFFICES ASSUME restarts = 0 PROVE FALSE
      BY <1>1
    <3>1. /\ i = 1 /\ Len(socket_.writes) = 1 /\ queue_ # <<>>
          /\ Ids(socket_.writes[1].buffer) = Ids(queue_[1])
      BY <1>1, OnlyWrite, Zenon
    <3>2. \A j \in DOMAIN socket_.writes : socket_.writes[j].res # "ok"
      <4>1. socket_.writes \in Seq(Write) /\ socket_.writes[i].res = "pending"
        BY <1>1, Kept, SocketParts DEF Transmitted
      <4> QED BY <3>1, <4>1
    <3>3. After(LastOf(wire), s)
      BY <1>1, <1>8, <3>1, <3>2, FrontParts DEF FrontOnly, s
    <3> QED BY <1>8, <3>3, Zenon
  <2> QED BY <1>4, <1>8, <2>1, <2>2 DEF KeepsOrder!Transmit, LastOf
<1> QED BY <1>7, <1>8, Zenon

\* Every step of the endpoint is a step of the channel, or leaves it as it is.
LEMMA ChannelStep == ChannelInv /\ [Next]_vars => [KeepsOrder!Next]_(KeepsOrder!vars)
<1> SUFFICES ASSUME ChannelInv, [Next]_vars PROVE [KeepsOrder!Next]_(KeepsOrder!vars)
  BY Zenon
<1>1. QueueInv /\ BufferStep /\ restarts \in Nat
  BY Steps, Kept DEF ChannelInv
<1>2. CASE UNCHANGED <<accepted, wire, restarts>>
  BY <1>2, Zenon DEF KeepsOrder!vars
<1>3. CASE Quiet \/ Resend \/ Moving
  BY <1>2, <1>3, Zenon DEF Quiet, Resend, Moving
<1>4. CASE Drop
  <2>1. UNCHANGED <<accepted, wire>> /\ restarts' > 0
    BY <1>1, <1>4 DEF Drop
  <2> QED BY <2>1, Zenon DEF KeepsOrder!Next, KeepsOrder!Restart
<1>5. ASSUME NEW n \in Sizes, NEW f \in BOOLEAN, Sending(n, f)
      PROVE  [KeepsOrder!Next]_(KeepsOrder!vars)
  <2>1. UNCHANGED <<wire, restarts>> /\ (accepted' = accepted \/ accepted' = accepted + 1)
    BY <1>5, Zenon DEF Sending, Refused, Taken
  <2> QED BY <2>1, Zenon DEF KeepsOrder!Next, KeepsOrder!Accept, KeepsOrder!vars
<1>6. ASSUME NEW i \in DOMAIN socket_.writes, Popped(i) \/ Answered(i)
      PROVE  [KeepsOrder!Next]_(KeepsOrder!vars)
  BY <1>2, <1>6, Zenon DEF Popped, Answered
<1>7. ASSUME NEW i \in DOMAIN socket_.writes, Transmitted(i)
      PROVE  [KeepsOrder!Next]_(KeepsOrder!vars)
  BY <1>7, TransmittedIsNew, Zenon DEF KeepsOrder!Next
<1> QED BY <1>1, <1>3, <1>4, <1>5, <1>6, <1>7 DEF BufferStep

\* What the client endpoint writes are the messages it accepted, in order and each
\* at most once, over every lost connection, reconnection, failed write, flush and
\* stop; only restart() and stop() may have the last buffer written again (send,
\* flush, send_queued, send_cbk, connect_cbk, restart, stop).
THEOREM ClientImplementsChannel == Spec => ImplementsChannel
<1>1. Init => KeepsOrder!Init
  BY DEF Init, KeepsOrder!Init
<1>2. Spec => []ChannelInv
  BY ChannelInvariant, Zenon
<1>3. ChannelInv /\ [Next]_vars => [KeepsOrder!Next]_(KeepsOrder!vars)
  BY ChannelStep, Zenon
<1> QED BY <1>1, <1>2, <1>3, PTL DEF Spec, ImplementsChannel, KeepsOrder!Spec
=============================================================================
