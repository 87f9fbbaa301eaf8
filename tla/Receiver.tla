------------------------------ MODULE Receiver ------------------------------
(***************************************************************************)
(* The receiving side of the endpoints: how receive and receive_cbk cut    *)
(* messages out of what the network delivers in arbitrary pieces.  A TCP   *)
(* endpoint relies on the length in the message header, and on magic       *)
(* cookies to find the next message after a damaged one; a local endpoint  *)
(* on the size of the command and on a start and an end tag; a UDP         *)
(* endpoint gets a datagram with one or several messages.                  *)
(*                                                                         *)
(* A byte is a pair of the message it belongs to and its offset.           *)
(***************************************************************************)
EXTENDS Integers, Sequences, SequencesExt

CONSTANTS
    Streams,                  \* per protocol, sequences of messages to receive
    Garbage,                  \* what may be read as a size from data
    recv_buffer_size_initial_,
    buffer_shrink_threshold_,
    max_message_size_,
    Unlimited                 \* MESSAGE_SIZE_UNLIMITED

VARIABLES
    proto, items,             \* the protocol, and what its remote sends
    garbage,                  \* the size read where there is no header
    stream, sent,             \* its bytes, and how many were received so far
    recv_buffer_,             \* the bytes in use; recv_buffer_size_ is its length
    capacity,
    room,                     \* the bytes asked for by the pending receive
    shrink_count_,
    magic_cookies_enabled_,
    state,                    \* "open", "closed", or "disabled": nobody receives
    delivered,                \* what on_message was called with
    found                     \* history: where cookies were recognised

vars == <<proto, items, garbage, stream, sent, recv_buffer_, capacity, room,
          shrink_count_, magic_cookies_enabled_, state, delivered, found>>

Protocols == {"tcp_server", "tcp_client", "local", "udp_server", "udp_client"}

HeaderSize == 8
CookieSize == 16
Item == [kind : {"message", "cookie", "sd"}, size : Nat, announced : Nat]

Run(id, n) == [o \in 1 .. n |-> <<id, o - 1>>]
CookieBytes == Run(0, CookieSize)
StartTag == Run(-1, 4)
EndTag == Run(-2, 4)

\* The bytes of a message on its own, and as they are sent.
Content(i) == IF items[i].kind = "cookie" THEN CookieBytes ELSE Run(i, items[i].size)
BytesOf(i) == IF proto = "local" THEN StartTag \o Content(i) \o EndTag ELSE Content(i)

At(buf, pos, b) == pos + Len(b) <= Len(buf) /\ SubSeq(buf, pos + 1, pos + Len(b)) = b

\* The size in the header, or command, whose first byte is at pos.
SizeAt(buf, pos, n) ==
    LET b == buf[pos + 1]
    IN  IF b[1] >= 0 /\ b[2] = 0 /\ At(buf, pos, Run(b[1], n))
        THEN IF b[1] = 0 THEN CookieSize ELSE items[b[1]].announced
        ELSE garbage

get_message_size(buf, pos, _size) ==
    IF HeaderSize <= _size THEN SizeAt(buf, pos, HeaderSize) ELSE 0

is_magic_cookie(buf, pos) == At(buf, pos, CookieBytes)

\* The offset of the first cookie, one that ends where the data ends excluded.
find_magic_cookie(buf, pos, _size) ==
    LET hits == {o \in 0 .. _size - CookieSize - 1 : is_magic_cookie(buf, pos + o)}
    IN  IF hits = {} THEN Unlimited ELSE Min(hits)

-----------------------------------------------------------------------------
(* One round of the loop of receive_cbk: s is the state of the loop. *)

calculate_shrink_count(buf, s) ==
    IF buffer_shrink_threshold_ = 0 \/ capacity = recv_buffer_size_initial_ THEN s.shrink
    ELSE IF s.size < capacity \div 2 THEN s.shrink + 1 ELSE 0

Skip(s, n) == [s EXCEPT !.gap = @ + n, !.size = @ - n]

Consume(buf, s, n) ==
    [Skip(s, n) EXCEPT !.missing = 0, !.shrink = calculate_shrink_count(buf, s)]

Forward(buf, s, n) ==
    [Consume(buf, s, n) EXCEPT !.out = Append(@, SubSeq(buf, s.gap + 1, s.gap + n))]

\* Mutant: a cookie anywhere in the data makes the message a damaged one.
FullMessage_anywhere(buf, s, n) ==
    LET o == find_magic_cookie(buf, s.gap, s.size)
    IN  IF is_magic_cookie(buf, s.gap)
        THEN [Consume(buf, s, n) EXCEPT !.cookies = TRUE, !.found = @ \cup {s.gap}]
        ELSE IF s.cookies /\ o < s.size THEN Consume(buf, s, o)
        ELSE Forward(buf, s, n)

\* A complete message, which a cookie inside shows to be damaged.
FullMessage(buf, s, n) ==
    LET o == find_magic_cookie(buf, s.gap, s.size)
    IN  IF is_magic_cookie(buf, s.gap)
        THEN [Consume(buf, s, n) EXCEPT !.cookies = TRUE, !.found = @ \cup {s.gap}]
        ELSE IF s.cookies /\ o < n THEN Consume(buf, s, o)
        ELSE Forward(buf, s, n)

End(s) == [s EXCEPT !.more = FALSE]
EndAs(s, st) == [s EXCEPT !.more = FALSE, !.state = st]
Incomplete(s, n) == [s EXCEPT !.more = FALSE, !.missing = n - s.size]

\* An oversized message: the buffer is emptied; the connection goes on only if
\* cookies allow to find the next message.
Oversized(s) ==
    [EndAs(s, IF s.cookies THEN "open" ELSE "disabled")
        EXCEPT !.size = 0, !.reset = TRUE]

tcp_server_round(buf, s) ==
    LET n == get_message_size(buf, s.gap, s.size)
        o == find_magic_cookie(buf, s.gap, s.size)
    IN  IF n > Unlimited THEN EndAs(s, "disabled")
        ELSE IF n \in HeaderSize + 1 .. s.size THEN FullMessage(buf, s, n)
        ELSE IF s.cookies /\ o < s.size THEN Skip(s, o)
        ELSE IF n > max_message_size_ THEN Oversized(s)
        ELSE IF n > s.size THEN Incomplete(s, n)
        ELSE IF HeaderSize > s.size THEN Incomplete(s, HeaderSize)
        ELSE EndAs(s, "closed")

\* The client looks for a cookie only if the size makes no sense at all.
tcp_client_round(buf, s) ==
    LET n == get_message_size(buf, s.gap, s.size)
        o == find_magic_cookie(buf, s.gap, s.size)
    IN  IF n > Unlimited THEN EndAs(s, "disabled")
        ELSE IF n \in HeaderSize + 1 .. s.size THEN FullMessage(buf, s, n)
        ELSE IF n > max_message_size_ THEN Oversized(s)
        ELSE IF n > s.size THEN Incomplete(s, n)
        ELSE IF HeaderSize > s.size THEN Incomplete(s, HeaderSize)
        ELSE IF s.cookies THEN IF o < s.size THEN Skip(s, o) ELSE End(s)
        ELSE EndAs(s, "closed")

\* The first position from pos on where the tag is, or the data left is too short.
Seek(buf, pos, tag, end) ==
    Min({p \in pos .. Max({pos, end}) : p + 3 >= end \/ At(buf, p, tag)})

\* A command is 7 bytes (its kind, the client, its size), then as many as its
\* size says.  Three bytes, the beginning of a start tag, are not moved to the
\* front of the buffer.
local_round(buf, s) ==
    LET end == s.gap + s.size
        tag == Seek(buf, s.gap, StartTag, end)
        its_start == tag + 4
        sized == its_start + 6 < end
        its_command_size == IF sized THEN SizeAt(buf, its_start, 7) ELSE 0
        its_end == Seek(buf, IF sized THEN its_start + 6 + its_command_size ELSE its_start,
                        EndTag, end)
    IN  IF tag + 3 = end THEN [End(s) EXCEPT !.shift = FALSE]
        ELSE IF its_command_size > max_message_size_
             THEN [EndAs(s, "disabled") EXCEPT !.reset = TRUE]
        ELSE IF its_end + 3 < end
             THEN [Consume(buf, s, its_end + 4 - s.gap)
                      EXCEPT !.out = Append(@, SubSeq(buf, its_start + 1, its_end))]
        ELSE IF its_command_size > 0 /\ its_command_size + 15 > s.size
             THEN Incomplete(s, its_command_size + 15)
        ELSE IF s.size < 11 THEN Incomplete(s, 11)
        ELSE End(s)

udp_client_round(buf, s) ==
    LET n == get_message_size(buf, s.gap, s.size)
    IN  IF n > Unlimited THEN EndAs(s, "disabled")
        ELSE IF n \in HeaderSize + 1 .. s.size THEN Forward(buf, s, n)
        ELSE [End(s) EXCEPT !.size = 0]

\* The server ignores a service discovery message shorter than what follows it.
udp_server_round(buf, s) ==
    LET n == get_message_size(buf, s.gap, s.size)
        b == buf[s.gap + 1]
    IN  IF n > Unlimited THEN EndAs(s, "disabled")
        ELSE IF n \in HeaderSize + 1 .. s.size
             THEN IF items[b[1]].kind # "sd" \/ n >= s.size - n
                  THEN Forward(buf, s, n) ELSE Skip(s, n)
        ELSE [End(s) EXCEPT !.size = 0]

Round(buf, s) ==
    CASE proto = "tcp_server" -> tcp_server_round(buf, s)
      [] proto = "tcp_client" -> tcp_client_round(buf, s)
      [] proto = "local" -> local_round(buf, s)
      [] proto = "udp_server" -> udp_server_round(buf, s)
      [] proto = "udp_client" -> udp_client_round(buf, s)

RECURSIVE Rounds(_, _)
Rounds(buf, s) ==
    LET r == Round(buf, s) IN IF r.more /\ r.size > 0 THEN Rounds(buf, r) ELSE r

-----------------------------------------------------------------------------
\* Mutant: what is left stays where it is.
Left_in_place(buf, s) == SubSeq(buf, 1, s.size)

\* What is left is moved to the front, and the room it needs is there if enough
\* became free.
Left(buf, s) ==
    IF s.shift THEN SubSeq(buf, s.gap + 1, s.gap + s.size) ELSE SubSeq(buf, 1, s.size)

\* Mutant: the room is taken to be there.
Missing_ignored(s) == 0

Missing(s) ==
    IF s.gap > 0 /\ s.shift /\ s.missing <= capacity - s.size THEN 0 ELSE s.missing

\* receive: the buffer grows if the message being received needs it, and shrinks
\* after a number of small ones.
receive(s, cap, missing) ==
    LET shrinks == /\ missing = 0 /\ s.size = 0
                   /\ buffer_shrink_threshold_ > 0 /\ s.shrink > buffer_shrink_threshold_
        n == IF shrinks THEN recv_buffer_size_initial_ ELSE Max({cap, s.size + missing})
    IN  /\ capacity' = n
        /\ room' = IF missing > 0 THEN missing ELSE n - s.size
        /\ shrink_count_' = IF shrinks THEN 0 ELSE s.shrink

\* receive_cbk with n bytes, up to the receive at its end.
receive_cbk(n) ==
    LET buf == recv_buffer_ \o SubSeq(stream, sent + 1, sent + n)
        s == Rounds(buf, [gap |-> 0, size |-> Len(buf), missing |-> 0, out |-> delivered,
                          shrink |-> shrink_count_, cookies |-> magic_cookies_enabled_,
                          state |-> "open", more |-> TRUE, reset |-> FALSE, shift |-> TRUE,
                          found |-> {}])
        cap == IF s.reset THEN recv_buffer_size_initial_ ELSE capacity
    IN  /\ state = "open"
        /\ sent' = sent + n
        /\ magic_cookies_enabled_' = s.cookies
        /\ delivered' = s.out
        /\ found' = found \cup {sent - Len(recv_buffer_) + p : p \in s.found}
        /\ state' = s.state
        /\ recv_buffer_' = Left(buf, s)
        /\ IF s.state = "open" THEN receive(s, cap, Missing(s))
           ELSE capacity' = cap /\ room' = 0 /\ shrink_count_' = s.shrink
        /\ UNCHANGED <<proto, items, garbage, stream>>

\* A stream arrives in pieces, a datagram as a whole.
Receive ==
    \E n \in 1 .. Min({room, Len(stream) - sent}) :
        /\ proto \in {"udp_server", "udp_client"} => n = Len(stream)
        /\ receive_cbk(n)

Sound(i) ==
    \/ items[i].kind = "cookie"
    \/ /\ items[i].announced = items[i].size - (IF proto = "local" THEN 7 ELSE 0)
       /\ items[i].announced <= max_message_size_

Init ==
    /\ proto \in Protocols
    /\ items \in Streams[proto]
    /\ garbage \in IF \E i \in DOMAIN items : ~Sound(i) THEN Garbage ELSE {HeaderSize}
    /\ stream = FlattenSeq([i \in DOMAIN items |-> BytesOf(i)])
    /\ sent = 0 /\ shrink_count_ = 0
    /\ recv_buffer_ = <<>>
    /\ capacity = recv_buffer_size_initial_ /\ room = recv_buffer_size_initial_
    /\ magic_cookies_enabled_ \in BOOLEAN
    /\ state = "open"
    /\ delivered = <<>> /\ found = {}

Spec == Init /\ [][Receive]_vars

-----------------------------------------------------------------------------
(* Properties *)

TypeOK ==
    /\ proto \in Protocols /\ items \in Seq(Item) /\ garbage \in Garbage \cup {HeaderSize}
    /\ stream \in Seq(Int \X Nat) /\ recv_buffer_ \in Seq(Int \X Nat)
    /\ sent \in 0 .. Len(stream)
    /\ Len(recv_buffer_) + room <= capacity
    /\ {capacity, room} \subseteq Nat
    /\ shrink_count_ \in Nat
    /\ magic_cookies_enabled_ \in BOOLEAN
    /\ state \in {"open", "closed", "disabled"}
    /\ delivered \in Seq(Seq(Int \X Nat)) /\ found \subseteq Nat

\* Where message i ends in the stream.
EndOf(i) == FoldLeft(LAMBDA n, j : n + Len(BytesOf(j)), 0, [j \in 1 .. i |-> j])

Arrived == {i \in DOMAIN items : EndOf(i) <= sent}

\* However a stream of well-formed messages is cut into pieces, what is handed to
\* on_message are the messages that arrived, complete, each once and in order,
\* and none of them waits for data that follows it (receive_cbk).
ArrivedIsDelivered ==
    (\A i \in DOMAIN items :
        /\ Sound(i)
        /\ items[i].kind = "sd" => i = Len(items))
        => /\ state = "open"
           /\ delivered = SelectSeq([i \in Arrived |-> Content(i)], LAMBDA c : c # CookieBytes)

\* The pending receive always has room for at least one byte, so that no endpoint
\* waits for data it has no place for (receive, receive_cbk).  Only a TCP client
\* that looks for the next cookie in a damaged stream may fill its buffer.
RoomToReceive ==
    state = "open" /\ room = 0
        => /\ proto = "tcp_client" /\ magic_cookies_enabled_
           /\ \E i \in DOMAIN items : ~Sound(i)

\* The receive buffer is kept right while it grows, shrinks and is moved: it is
\* never overrun, and never full while data is waited for.
BufferInOrder == TypeOK /\ RoomToReceive

\* A recognised cookie puts the receiver back in step: each sound message from
\* there to the next damaged one is delivered as soon as it arrived (receive_cbk).
InStepAfterCookie ==
    \A j \in DOMAIN items, i \in Arrived :
        /\ j < i /\ EndOf(j - 1) \in found /\ items[i].kind = "message"
        /\ \A d \in j .. i : Sound(d)
        => Content(i) \in Range(delivered)

\* Once cookies are in use, a TCP server never leaves a cookie behind: none is
\* left in the data it waits to be completed, and none is in a message it passed
\* on, one that ended where the data ended excepted (find_magic_cookie wants a
\* byte beyond the cookie).
NoCookieMissed ==
    proto = "tcp_server" /\ items[1].kind = "cookie" =>
        /\ magic_cookies_enabled_ =>
              find_magic_cookie(recv_buffer_, 0, Len(recv_buffer_)) = Unlimited
        /\ \A k \in DOMAIN delivered : \A p \in 0 .. Len(delivered[k]) - CookieSize - 1 :
              ~At(delivered[k], p, CookieBytes)

\* Magic cookies do what they are for, wherever the pieces of the stream end.
CookiesResync == InStepAfterCookie /\ NoCookieMissed
=============================================================================
