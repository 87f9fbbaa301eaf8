--------------------------- MODULE SdSessionProofs ---------------------------
(***************************************************************************)
(* Proofs about SdSession, for every number of session identifiers, any    *)
(* loss and any number of restarts.  What makes the reboot detection right *)
(* is the order on one channel: the message recorded by the receiver, the  *)
(* messages on the wire, and the one the sender stamps next are in the     *)
(* order in which they are sent (InOrder), and when nothing was lost the   *)
(* first message of a run follows the last one of the run before           *)
(* (Contiguous).                                                           *)
(***************************************************************************)
EXTENDS SdSession, TLAPS, SequenceTheorems

\* The message serialize_and_send stamps next on a channel.
NextMessage(c) ==
    [session |-> sessions_sent[c].session, reboot |-> sessions_sent[c].reboot,
     incarnation |-> incarnation]

\* The messages on the wire, followed by the one stamped next.
Line(c, i) == IF i <= Len(net[c]) THEN net[c][i] ELSE NextMessage(c)
Last(c) == Len(net[c]) + 1

\* The message the receiver recorded for a channel.
Record(r, c) ==
    [session |-> r[c].session, reboot |-> r[c].reboot, incarnation |-> heard[c]]

\* a is sent before b: in an earlier run, or in the same run with the flag set
\* at most up to some point and the identifiers growing up to that point.
Before(a, b) ==
    \/ a.incarnation < b.incarnation
    \/ /\ a.incarnation = b.incarnation
       /\ b.reboot => a.reboot /\ a.session < b.session

\* b may directly follow a: a new run starts with FirstSession.
Follows(a, b) ==
    a.incarnation # b.incarnation => b.session = 1 /\ b.reboot = TRUE

LineInOrder(c) ==
    \A i, j \in 1..Last(c) : i < j => Before(Line(c, i), Line(c, j))

LineContiguous(c) ==
    \A i \in 1..Len(net[c]) : Follows(Line(c, i), Line(c, i + 1))

RecordInOrder(c) ==
    \A r \in sessions_received :
        r[c] # NotReceived =>
            /\ r[c].session # 0
            /\ heard[c] # 0
            /\ \A i \in 1..Last(c) : Before(Record(r, c), Line(c, i))

RecordContiguous(c) ==
    \A r \in sessions_received :
        r[c] # NotReceived /\ c \notin lost => Follows(Record(r, c), Line(c, 1))

ChannelInv(c) ==
    /\ LineInOrder(c)
    /\ LineContiguous(c)
    /\ RecordInOrder(c)
    /\ RecordContiguous(c)

Inv == TypeOK /\ \A c \in Channel : ChannelInv(c)

-----------------------------------------------------------------------------
\* The identifier after the next one is a valid one, and comes later.
LEMMA NextSessionLater ==
    ASSUME NEW s \in Session, s.session # 0
    PROVE  /\ next_session(s) \in Session
           /\ next_session(s).session # 0
           /\ next_session(s).reboot => s.reboot /\ s.session < next_session(s).session
<1>1. CASE s.session = MaxSession
    BY <1>1, ConstantsAssumption DEF next_session, Session
<1>2. CASE s.session # MaxSession
    <2>1. s.session \in 1..(MaxSession - 1)
        BY <1>2, ConstantsAssumption DEF Session
    <2>2. next_session(s) = [s EXCEPT !.session = s.session + 1]
        BY <1>2, Zenon DEF next_session
    <2> QED BY <2>1, <2>2, ConstantsAssumption DEF Session
<1> QED BY <1>1, <1>2, Zenon

\* The messages stamped by the sender are messages.
LEMMA NextMessageType ==
    ASSUME TypeOK, NEW c \in Channel
    PROVE  NextMessage(c) \in Message
BY ConstantsAssumption DEF TypeOK, NextMessage, Message, Session

\* Every place of a line holds a message.
LEMMA LineType ==
    ASSUME TypeOK, NEW c \in Channel, NEW i \in 1..Last(c)
    PROVE  Line(c, i) \in Message
<1>1. net[c] \in Seq(Message) BY Zenon DEF TypeOK
<1>2. CASE i <= Len(net[c])
    <2>1. i \in 1..Len(net[c]) BY <1>1, <1>2 DEF Last
    <2> QED BY <1>1, <1>2, <2>1 DEF Line
<1>3. CASE ~(i <= Len(net[c]))
    BY <1>3, NextMessageType, Zenon DEF Line
<1> QED BY <1>2, <1>3, Zenon

\* The initial state.
LEMMA InitInv == Init => Inv
<1> SUFFICES ASSUME Init PROVE Inv BY Zenon
<1>1. TypeOK
    BY ConstantsAssumption DEF Init, TypeOK, FirstSession, Session, Channel
<1>2. ASSUME NEW c \in Channel PROVE ChannelInv(c)
    <2>1. Len(net[c]) = 0 /\ Last(c) = 1 BY DEF Init, Last
    <2>2. sessions_received = {} BY Zenon DEF Init
    <2> QED BY <2>1, <2>2 DEF ChannelInv, LineInOrder, LineContiguous, RecordInOrder,
                              RecordContiguous
<1> QED BY <1>1, <1>2, Zenon DEF Inv

\* A channel none of whose parts changes keeps its order.
LEMMA ChannelUnchanged ==
    ASSUME NEW c \in Channel, ChannelInv(c),
           net'[c] = net[c], sessions_sent'[c] = sessions_sent[c],
           incarnation' = incarnation, heard'[c] = heard[c],
           c \in lost => c \in lost',
           \A r \in sessions_received' : r[c] # NotReceived =>
               \E s \in sessions_received : s[c] = r[c]
    PROVE  ChannelInv(c)'
<1>1. /\ Last(c)' = Last(c)
      /\ \A i : Line(c, i)' = Line(c, i)
    BY Zenon DEF Last, Line, NextMessage
<1>2. LineInOrder(c)' /\ LineContiguous(c)'
    BY <1>1, Zenon DEF ChannelInv, LineInOrder, LineContiguous
<1>3. ASSUME NEW r \in sessions_received', r[c] # NotReceived
      PROVE  /\ r[c].session # 0
             /\ heard'[c] # 0
             /\ \A i \in 1..Last(c) : Before(Record(r, c)', Line(c, i)')
             /\ c \notin lost' => Follows(Record(r, c)', Line(c, 1)')
    <2>1. PICK s \in sessions_received : s[c] = r[c] BY <1>3, Zenon
    <2>2. Record(r, c)' = Record(s, c) BY <2>1, Zenon DEF Record
    <2> QED BY <1>1, <1>3, <2>1, <2>2 DEF ChannelInv, RecordInOrder, RecordContiguous
<1>4. RecordInOrder(c)' /\ RecordContiguous(c)'
    BY <1>1, <1>3, Zenon DEF RecordInOrder, RecordContiguous, Before, Follows
<1> QED BY <1>2, <1>4, Zenon DEF ChannelInv

\* Sending: the message stamped goes to the end of the wire, and the next one
\* comes after all of the line.
LEMMA SendStep ==
    ASSUME Inv, NEW c \in Channel, NEW is_sent \in BOOLEAN,
           serialize_and_send(c, is_sent)
    PROVE  Inv'
<1>1. CASE is_sent = FALSE
    <2>1. UNCHANGED vars
        BY <1>1, Zenon DEF serialize_and_send, increment_session, vars
    <2>2. TypeOK'
        BY <2>1, Zenon DEF vars, Inv, TypeOK
    <2>3. ASSUME NEW d \in Channel PROVE ChannelInv(d)'
        BY <2>1, ChannelUnchanged, Zenon DEF vars, Inv
    <2> QED BY <2>2, <2>3, Zenon DEF Inv
<1>2. CASE is_sent = TRUE
    <2>2. TypeOK BY Zenon DEF Inv
    <2>3. PICK m \in Message : m = NextMessage(c) BY <2>2, NextMessageType, Zenon
    <2>5. net[c] \in Seq(Message) BY <2>2, Zenon DEF TypeOK
    <2>n. PICK n \in Nat : n = Len(net[c]) BY <2>5
    <2>1. /\ net' = [net EXCEPT ![c] = Append(net[c], m)]
          /\ sessions_sent' = [sessions_sent EXCEPT ![c] = next_session(sessions_sent[c])]
          /\ UNCHANGED <<sessions_received, known, incarnation, heard, lost, reliable>>
        BY <1>2, <2>3, Zenon DEF serialize_and_send, increment_session, NextMessage
    <2>4. sessions_sent[c] \in Session /\ sessions_sent[c].session # 0
        BY <2>2, Zenon DEF TypeOK
    <2>6. Append(net[c], m) \in Seq(Message) BY <2>3, <2>5
    <2>7. TypeOK'
        <3>1. sessions_sent' \in [Channel -> Session]
              /\ \A d \in Channel : sessions_sent'[d].session # 0
            BY <2>1, <2>2, <2>4, NextSessionLater, Zenon DEF TypeOK
        <3>2. net' \in [Channel -> Seq(Message)]
            BY <2>1, <2>2, <2>6, Zenon DEF TypeOK
        <3> QED BY <3>1, <3>2, <2>1, <2>2, Zenon DEF TypeOK
    <2>8. ASSUME NEW d \in Channel, d # c PROVE ChannelInv(d)'
        <3>1. net'[d] = net[d] /\ sessions_sent'[d] = sessions_sent[d]
            BY <2>1, <2>2, <2>8, Zenon DEF TypeOK
        <3>2. ChannelInv(d) BY Zenon DEF Inv
        <3> QED BY <2>1, <3>1, <3>2, ChannelUnchanged, Zenon
    <2>9. ChannelInv(c)'
        <3>1. net'[c] = Append(net[c], m)
              /\ sessions_sent'[c] = next_session(sessions_sent[c])
            BY <2>1, <2>2, Zenon DEF TypeOK
        <3>2. Last(c) = n + 1 /\ Last(c)' = n + 2 /\ Len(net'[c]) = n + 1
            BY <2>3, <2>5, <2>n, <3>1 DEF Last
        <3>3. \A i \in 1..(n + 1) : Line(c, i)' = Line(c, i)
            BY <2>3, <2>5, <2>n, <3>1, <3>2 DEF Line
        <3>4. Line(c, n + 2)' = NextMessage(c)' /\ Line(c, n + 1) = m
            BY <2>3, <2>5, <2>n, <3>2 DEF Line
        <3>5. Before(m, NextMessage(c)')
            BY <2>1, <2>3, <2>4, <3>1, NextSessionLater, Zenon DEF Before, NextMessage
        <3>6. NextMessage(c)'.incarnation = m.incarnation
            BY <2>1, <2>3, Zenon DEF NextMessage
        <3>7. NextMessage(c)' \in Message 
            BY <2>7, ConstantsAssumption DEF TypeOK, NextMessage, Message, Session
        <3>8. ASSUME NEW a \in [session : Nat, reboot : BOOLEAN, incarnation : Nat],
                     Before(a, m)
              PROVE  Before(a, NextMessage(c)')
            BY <2>3, <3>5, <3>6, <3>7, <3>8 DEF Before, Message
        <3>9. LineInOrder(c)'
            <4> SUFFICES ASSUME NEW i \in 1..(n + 2), NEW j \in 1..(n + 2), i < j
                         PROVE  Before(Line(c, i)', Line(c, j)')
                BY <3>2, Zenon DEF LineInOrder, Before
            <4>1. CASE j # n + 2
                BY <2>5, <3>2, <3>3, <4>1 DEF Inv, ChannelInv, LineInOrder
            <4>2. CASE j = n + 2 /\ i # n + 1
                <5>1. i \in 1..(n + 1) /\ i < n + 1 /\ n + 1 \in 1..(n + 1)
                    BY <2>5, <4>2
                <5>2. Before(Line(c, i), m)
                    BY <3>2, <3>4, <5>1, Zenon DEF Inv, ChannelInv, LineInOrder
                <5>3. Line(c, i) \in Message BY <2>2, <3>2, <5>1, LineType, Zenon
                <5> QED BY <3>3, <3>4, <3>8, <4>2, <5>1, <5>2, <5>3 DEF Message
            <4>3. CASE j = n + 2 /\ i = n + 1
                BY <2>5, <3>3, <3>4, <3>5, <4>3
            <4> QED BY <4>1, <4>2, <4>3, Zenon
        <3>10. LineContiguous(c)'
            <4> SUFFICES ASSUME NEW i \in 1..(n + 1)
                         PROVE  Follows(Line(c, i)', Line(c, i + 1)')
                BY <3>2, Zenon DEF LineContiguous, Follows
            <4>1. CASE i # n + 1
                BY <2>5, <2>n, <3>3, <4>1 DEF Inv, ChannelInv, LineContiguous
            <4>2. CASE i = n + 1
                BY <2>5, <3>3, <3>4, <3>6, <4>2 DEF Follows
            <4> QED BY <4>1, <4>2, Zenon
        <3>11. ASSUME NEW r \in sessions_received, r[c] # NotReceived
               PROVE  /\ r[c].session # 0
                      /\ heard[c] # 0
                      /\ Record(r, c)' = Record(r, c)
                      /\ \A i \in 1..(n + 2) : Before(Record(r, c), Line(c, i)')
                      /\ c \notin lost => Follows(Record(r, c), Line(c, 1)')
            <4>1. /\ r[c].session # 0
                  /\ heard[c] # 0
                  /\ \A i \in 1..(n + 1) : Before(Record(r, c), Line(c, i))
                  /\ c \notin lost => Follows(Record(r, c), Line(c, 1))
                BY <3>2, <3>11, Zenon DEF Inv, ChannelInv, RecordInOrder, RecordContiguous
            <4>2. Record(r, c) \in [session : Nat, reboot : BOOLEAN, incarnation : Nat]
                BY <2>2, ConstantsAssumption DEF TypeOK, Record, Session
            <4>3. Before(Record(r, c), NextMessage(c)')
                BY <2>5, <3>4, <3>8, <4>1, <4>2
            <4>4. \A i \in 1..(n + 2) : Before(Record(r, c), Line(c, i)')
                BY <2>5, <3>3, <3>4, <4>1, <4>3
            <4>5. Record(r, c)' = Record(r, c) BY <2>1, Zenon DEF Record
            <4> QED BY <2>5, <3>3, <4>1, <4>4, <4>5
        <3>12. RecordInOrder(c)' /\ RecordContiguous(c)'
            BY <2>1, <3>2, <3>11, Zenon DEF RecordInOrder, RecordContiguous, Before, Follows
        <3> QED BY <3>9, <3>10, <3>12, Zenon DEF ChannelInv
    <2> QED BY <2>7, <2>8, <2>9, Zenon DEF Inv
<1> QED BY <1>1, <1>2, Zenon

\* Taking the first message off the wire moves the line up.
LEMMA TakeFirst ==
    ASSUME Inv, NEW c \in Channel, net[c] # <<>>,
           net'[c] = Tail(net[c]), UNCHANGED <<sessions_sent, incarnation, reliable>>
    PROVE  /\ Tail(net[c]) \in Seq(Message)
           /\ Head(net[c]) \in Message
           /\ Head(net[c]) = Line(c, 1)
           /\ Len(net[c]) \in Nat \ {0}
           /\ Last(c)' = Len(net[c])
           /\ Len(net'[c]) = Len(net[c]) - 1
           /\ \A i \in 1..Len(net[c]) : Line(c, i)' = Line(c, i + 1)
           /\ LineInOrder(c)'
           /\ LineContiguous(c)'
<1>1. TypeOK BY Zenon DEF Inv
<1>2. net[c] \in Seq(Message) BY <1>1, Zenon DEF TypeOK
<1>3. PICK n \in Nat \ {0} : n = Len(net[c])
    BY <1>2
<1>5. /\ Tail(net[c]) \in Seq(Message)
      /\ Len(Tail(net[c])) = n - 1
      /\ \A i \in 1..(n - 1) : Tail(net[c])[i] = net[c][i + 1]
      /\ Head(net[c]) = net[c][1]
      /\ Head(net[c]) \in Message
    BY <1>2, <1>3
<1>7. Last(c) = n + 1 /\ Last(c)' = n /\ Len(net'[c]) = n - 1
    BY <1>3, <1>5 DEF Last
<1>8. Head(net[c]) = Line(c, 1) BY <1>3, <1>5 DEF Line
<1>9. NextMessage(c)' = NextMessage(c) BY Zenon DEF NextMessage
<1>10. ASSUME NEW i \in 1..n PROVE Line(c, i)' = Line(c, i + 1)
    <2>1. CASE i < n
        <3>1. Line(c, i)' = Tail(net[c])[i] BY <1>7, <2>1 DEF Line
        <3>2. Line(c, i + 1) = net[c][i + 1] BY <1>3, <2>1 DEF Line
        <3> QED BY <1>5, <2>1, <3>1, <3>2
    <2>2. CASE i = n
        BY <1>3, <1>7, <1>9, <2>2 DEF Line
    <2> QED BY <2>1, <2>2
<1>11. LineInOrder(c)'
    <2> SUFFICES ASSUME NEW i \in 1..n, NEW j \in 1..n, i < j
                 PROVE  Before(Line(c, i)', Line(c, j)')
        BY <1>7, Zenon DEF LineInOrder, Before
    <2>1. i + 1 \in 1..(n + 1) /\ j + 1 \in 1..(n + 1) /\ i + 1 < j + 1 OBVIOUS
    <2>2. Before(Line(c, i + 1), Line(c, j + 1))
        BY <1>7, <2>1, Zenon DEF Inv, ChannelInv, LineInOrder
    <2> QED BY <1>10, <2>2, Zenon
<1>12. LineContiguous(c)'
    <2> SUFFICES ASSUME NEW i \in 1..(n - 1)
                 PROVE  Follows(Line(c, i)', Line(c, i + 1)')
        BY <1>7, Zenon DEF LineContiguous, Follows
    <2>1. i + 1 \in 1..n /\ i \in 1..n OBVIOUS
    <2>2. Follows(Line(c, i + 1), Line(c, (i + 1) + 1))
        BY <1>3, <2>1, Zenon DEF Inv, ChannelInv, LineContiguous
    <2>3. Line(c, i)' = Line(c, i + 1) /\ Line(c, i + 1)' = Line(c, (i + 1) + 1)
        BY <1>10, <2>1, Zenon
    <2> QED BY <2>2, <2>3, Zenon
<1> QED BY <1>3, <1>5, <1>7, <1>8, <1>10, <1>11, <1>12, Zenon

\* Losing a message: the order stays, and the loss is remembered.
LEMMA LoseStep ==
    ASSUME Inv, NEW c \in Channel, Lose(c)
    PROVE  Inv'
<1>1. /\ net[c] # <<>>
      /\ net' = [net EXCEPT ![c] = Tail(net[c])]
      /\ net'[c] = Tail(net[c])
      /\ lost' = lost \union {c}
      /\ UNCHANGED <<sessions_sent, sessions_received, known, incarnation, heard, reliable>>
    BY Zenon DEF Lose, Inv, TypeOK
<1>2. TypeOK BY Zenon DEF Inv
<1>3. TypeOK'
    <2>1. Tail(net[c]) \in Seq(Message) BY <1>1, TakeFirst, Zenon
    <2> QED BY <1>1, <1>2, <2>1, Zenon DEF TypeOK
<1>4. ASSUME NEW d \in Channel, d # c PROVE ChannelInv(d)'
    <2>1. net'[d] = net[d] BY <1>1, <1>2, <1>4, Zenon DEF TypeOK
    <2> QED BY <1>1, <2>1, ChannelUnchanged, Zenon DEF Inv
<1>5. ChannelInv(c)'
    <2>1. LineInOrder(c)' /\ LineContiguous(c)' BY <1>1, TakeFirst, Zenon
    <2>2. PICK n \in Nat : n = Len(net[c]) /\ Last(c)' = n BY <1>1, TakeFirst, Zenon
    <2>3. \A i \in 1..n : Line(c, i)' = Line(c, i + 1) BY <1>1, <2>2, TakeFirst, Zenon
    <2>4. RecordInOrder(c)'
        <3> SUFFICES ASSUME NEW r \in sessions_received, r[c] # NotReceived
                     PROVE  /\ r[c].session # 0
                            /\ heard[c] # 0
                            /\ \A i \in 1..n : Before(Record(r, c), Line(c, i)')
            <4>1. \A r : Record(r, c)' = Record(r, c) BY <1>1, Zenon DEF Record
            <4> QED BY <1>1, <2>2, <4>1 DEF RecordInOrder, Before
        <3>1. /\ r[c].session # 0
              /\ heard[c] # 0
              /\ \A i \in 1..(n + 1) : Before(Record(r, c), Line(c, i))
            BY <2>2, Zenon DEF Inv, ChannelInv, RecordInOrder, Last
        <3> QED BY <2>3, <3>1
    <2>5. RecordContiguous(c)' BY <1>1, Zenon DEF RecordContiguous
    <2> QED BY <2>1, <2>4, <2>5, Zenon DEF ChannelInv
<1> QED BY <1>3, <1>4, <1>5, Zenon DEF Inv

\* Receiving a message: it becomes the record of its channel, unless it is
\* taken for a reboot, which leaves no record.
LEMMA ReceiveStep ==
    ASSUME Inv, NEW c \in Channel, on_message(c)
    PROVE  Inv'
<1>1. /\ net[c] # <<>>
      /\ net' = [net EXCEPT ![c] = Tail(net[c])]
      /\ net'[c] = Tail(net[c])
      /\ lost' = lost \ {c}
      /\ UNCHANGED <<sessions_sent, incarnation, reliable>>
    BY Zenon DEF on_message, Inv, TypeOK
<1>2. PICK m \in Message : m = Head(net[c]) /\ m = Line(c, 1) BY <1>1, TakeFirst, Zenon
<1>3. /\ remember(c, m)
      /\ known' = expire(c, m) \union {m.incarnation}
      /\ heard' = [heard EXCEPT ![c] = m.incarnation]
    BY <1>2, Zenon DEF on_message
<1>4. TypeOK BY Zenon DEF Inv
<1>5. PICK new \in Session : new = [session |-> m.session, reboot |-> m.reboot]
    <2>1. m.session \in 0..MaxSession /\ m.reboot \in BOOLEAN
        BY ConstantsAssumption DEF Message
    <2>2. [session |-> m.session, reboot |-> m.reboot] \in Session
        BY <2>1, Zenon DEF Session
    <2> QED BY <2>2, Zenon
<1>6. \A r \in sessions_received' :
        /\ r \in [Channel -> Session]
        /\ r[c] = new
        /\ \A d \in Channel \ {c} : r[d] # NotReceived =>
              \E s \in sessions_received : s[d] = r[d]
    <2>1. CASE sessions_received = {}
        <3>1. sessions_received' = {[d \in Channel |-> IF d = c THEN new ELSE NotReceived]}
            BY <1>3, <1>5, <2>1, Zenon DEF remember
        <3>2. NotReceived \in Session BY ConstantsAssumption DEF NotReceived, Session
        <3> QED BY <3>1, <3>2, Zenon
    <2>2. CASE sessions_received # {} /\ is_reboot(c, m)
        BY <1>3, <2>2, Zenon DEF remember
    <2>3. CASE sessions_received # {} /\ ~is_reboot(c, m)
        <3>1. sessions_received' = {[r EXCEPT ![c] = new] : r \in sessions_received}
            BY <1>3, <1>5, <2>3, Zenon DEF remember
        <3>2. SUFFICES ASSUME NEW s \in sessions_received
                       PROVE  LET r == [s EXCEPT ![c] = new]
                              IN  /\ r \in [Channel -> Session]
                                  /\ r[c] = new
                                  /\ \A d \in Channel \ {c} : r[d] = s[d]
            BY <3>1
        <3>3. s \in [Channel -> Session] BY <1>4, Zenon DEF TypeOK
        <3> QED BY <3>3, Zenon
    <2> QED BY <2>1, <2>2, <2>3, Zenon
<1>7. \A r, s \in sessions_received' : r = s
    BY <1>3, <1>4, Zenon DEF remember, TypeOK
<1>8. TypeOK'
    <2>1. known' \in SUBSET (Nat \ {0})
        BY <1>2, <1>3, <1>4, Zenon DEF TypeOK, expire, Message
    <2>2. heard' \in [Channel -> Nat] BY <1>2, <1>3, <1>4, Zenon DEF TypeOK, Message
    <2>3. net' \in [Channel -> Seq(Message)]
        <3>1. Tail(net[c]) \in Seq(Message) BY <1>1, TakeFirst, Zenon
        <3> QED BY <1>1, <1>4, <3>1, Zenon DEF TypeOK
    <2> QED BY <1>1, <1>4, <1>6, <1>7, <2>1, <2>2, <2>3, Zenon DEF TypeOK
<1>9. ASSUME NEW d \in Channel, d # c PROVE ChannelInv(d)'
    <2>1. net'[d] = net[d] /\ heard'[d] = heard[d]
        BY <1>1, <1>3, <1>4, <1>9, Zenon DEF TypeOK
    <2>2. ChannelInv(d) BY Zenon DEF Inv
    <2> QED BY <1>1, <1>6, <1>9, <2>1, <2>2, ChannelUnchanged, Zenon
<1>10. ChannelInv(c)'
    <2>1. LineInOrder(c)' /\ LineContiguous(c)' BY <1>1, TakeFirst, Zenon
    <2>2. PICK n \in Nat \ {0} : n = Len(net[c]) /\ Last(c)' = n BY <1>1, TakeFirst, Zenon
    <2>3. \A i \in 1..n : Line(c, i)' = Line(c, i + 1) BY <1>1, <2>2, TakeFirst, Zenon
    <2>4. heard'[c] = m.incarnation BY <1>3, <1>4, Zenon DEF TypeOK
    <2>5. \A r \in sessions_received' : Record(r, c)' = m
        BY <1>2, <1>5, <1>6, <2>4 DEF Record, Message
    <2>6. \A i \in 1..n : Before(m, Line(c, i)')
        <3> TAKE i \in 1..n
        <3>1. 1 \in 1..(n + 1) /\ i + 1 \in 1..(n + 1) /\ 1 < i + 1 OBVIOUS
        <3>2. Before(m, Line(c, i + 1))
            BY <1>2, <2>2, <3>1, Zenon DEF Inv, ChannelInv, LineInOrder, Last
        <3> QED BY <2>3, <3>2, Zenon
    <2>7. Follows(m, Line(c, 1)')
        <3>1. 1 \in 1..n OBVIOUS
        <3>2. Follows(m, Line(c, 1 + 1))
            BY <1>2, <2>2, <3>1, Zenon DEF Inv, ChannelInv, LineContiguous
        <3> QED BY <2>3, <3>1, <3>2, Zenon
    <2>8. RecordInOrder(c)'
        BY <1>2, <1>5, <1>6, <2>2, <2>4, <2>5, <2>6 DEF RecordInOrder, Before, Message
    <2>9. RecordContiguous(c)'
        BY <2>5, <2>7, Zenon DEF RecordContiguous, Follows
    <2> QED BY <2>1, <2>8, <2>9, Zenon DEF ChannelInv
<1> QED BY <1>8, <1>9, <1>10, Zenon DEF Inv

\* Starting the sender again: the message stamped next is the first of a run
\* later than everything on the wire.
LEMMA RestartStep ==
    ASSUME Inv, Restart
    PROVE  Inv'
<1>1. /\ incarnation' = incarnation + 1
      /\ sessions_sent' = [c \in Channel |-> FirstSession]
      /\ UNCHANGED <<net, sessions_received, known, heard, lost, reliable>>
    BY Zenon DEF Restart
<1>2. TypeOK BY Zenon DEF Inv
<1>3. TypeOK'
    BY <1>1, <1>2, ConstantsAssumption DEF TypeOK, FirstSession, Session
<1>4. ASSUME NEW c \in Channel PROVE ChannelInv(c)'
    <2>1. net[c] \in Seq(Message) BY <1>2, Zenon DEF TypeOK
    <2>2. PICK n \in Nat : n = Len(net[c]) BY <2>1
    <2>3. Last(c) = n + 1 /\ Last(c)' = n + 1 /\ Len(net'[c]) = n
        BY <1>1, <2>2, Zenon DEF Last
    <2>4. PICK first : first = NextMessage(c)' BY Zenon
    <2>5. /\ first.session = 1
          /\ first.reboot = TRUE
          /\ first.incarnation = incarnation + 1
        BY <1>1, <2>4, Zenon DEF NextMessage, FirstSession
    <2>6. Line(c, n + 1) = NextMessage(c) /\ Line(c, n + 1)' = first
        BY <1>1, <2>2, <2>4 DEF Line
    <2>7. \A i \in 1..n : Line(c, i)' = Line(c, i)
        BY <1>1, <2>2 DEF Line
    <2>8. ASSUME NEW a \in [session : Nat, reboot : BOOLEAN, incarnation : Nat],
                 Before(a, NextMessage(c))
          PROVE  Before(a, first)
        BY <1>2, <2>5, <2>8 DEF Before, NextMessage, TypeOK
    <2>9. \A i \in 1..n : Line(c, i) \in [session : Nat, reboot : BOOLEAN, incarnation : Nat]
        BY <1>2, <2>3, LineType DEF Message
    <2>10. LineInOrder(c)'
        <3> SUFFICES ASSUME NEW i \in 1..(n + 1), NEW j \in 1..(n + 1), i < j
                     PROVE  Before(Line(c, i)', Line(c, j)')
            BY <2>3, Zenon DEF LineInOrder, Before
        <3>1. Before(Line(c, i), Line(c, j)) /\ i \in 1..n
            BY <2>3 DEF Inv, ChannelInv, LineInOrder
        <3> QED BY <2>6, <2>7, <2>8, <2>9, <3>1
    <2>11. LineContiguous(c)'
        <3> SUFFICES ASSUME NEW i \in 1..n
                     PROVE  Follows(Line(c, i)', Line(c, i + 1)')
            BY <2>3, Zenon DEF LineContiguous, Follows
        <3>1. CASE i = n BY <2>5, <2>6, <3>1, Zenon DEF Follows
        <3>2. CASE i # n
            <4>1. i + 1 \in 1..n BY <3>2
            <4>2. Follows(Line(c, i), Line(c, i + 1))
                BY <2>2, Zenon DEF Inv, ChannelInv, LineContiguous
            <4> QED BY <2>7, <4>1, <4>2, Zenon
        <3> QED BY <3>1, <3>2, Zenon
    <2>12. ASSUME NEW r \in sessions_received, r[c] # NotReceived
           PROVE  /\ r[c].session # 0
                  /\ heard[c] # 0
                  /\ Record(r, c)' = Record(r, c)
                  /\ \A i \in 1..(n + 1) : Before(Record(r, c), Line(c, i)')
                  /\ c \notin lost => Follows(Record(r, c), Line(c, 1)')
        <3>1. /\ r[c].session # 0
              /\ heard[c] # 0
              /\ \A i \in 1..(n + 1) : Before(Record(r, c), Line(c, i))
              /\ c \notin lost => Follows(Record(r, c), Line(c, 1))
            BY <2>3, <2>12, Zenon DEF Inv, ChannelInv, RecordInOrder, RecordContiguous
        <3>2. Record(r, c) \in [session : Nat, reboot : BOOLEAN, incarnation : Nat]
            BY <1>2, ConstantsAssumption DEF TypeOK, Record, Session
        <3>3. \A i \in 1..(n + 1) : Before(Record(r, c), Line(c, i)')
            BY <2>6, <2>7, <2>8, <3>1, <3>2
        <3>4. c \notin lost => Follows(Record(r, c), Line(c, 1)')
            <4>1. CASE n = 0 BY <2>5, <2>6, <4>1 DEF Follows
            <4>2. CASE n # 0
                <5>1. 1 \in 1..n BY <4>2
                <5> QED BY <2>7, <3>1, <5>1, Zenon
            <4> QED BY <4>1, <4>2, Zenon
        <3>5. Record(r, c)' = Record(r, c) BY <1>1, Zenon DEF Record
        <3> QED BY <3>1, <3>3, <3>4, <3>5, Zenon
    <2>13. RecordInOrder(c)' /\ RecordContiguous(c)'
        <3>1. RecordInOrder(c)'
            BY <1>1, <2>3, <2>12, Zenon DEF RecordInOrder, Before
        <3>2. RecordContiguous(c)'
            BY <1>1, <2>12, Zenon DEF RecordContiguous, Follows
        <3> QED BY <3>1, <3>2, Zenon
    <2> QED BY <2>10, <2>11, <2>13, Zenon DEF ChannelInv
<1> QED BY <1>3, <1>4, Zenon DEF Inv

\* Starting the receiver again leaves no record.
LEMMA RestartReceiverStep ==
    ASSUME Inv, RestartReceiver
    PROVE  Inv'
<1>1. /\ sessions_received' = {}
      /\ known' = {}
      /\ heard' = [c \in Channel |-> 0]
      /\ UNCHANGED <<sessions_sent, net, incarnation, lost, reliable>>
    BY Zenon DEF RestartReceiver
<1>2. TypeOK' BY <1>1, Zenon DEF Inv, TypeOK
<1>3. ASSUME NEW c \in Channel PROVE ChannelInv(c)'
    <2>1. \A i : Line(c, i)' = Line(c, i) BY <1>1, Zenon DEF Line, NextMessage
    <2>2. Last(c)' = Last(c) /\ Len(net'[c]) = Len(net[c]) BY <1>1, Zenon DEF Last
    <2>3. LineInOrder(c)' /\ LineContiguous(c)'
        BY <2>1, <2>2, Zenon DEF Inv, ChannelInv, LineInOrder, LineContiguous
    <2>4. RecordInOrder(c)' /\ RecordContiguous(c)'
        BY <1>1, Zenon DEF RecordInOrder, RecordContiguous
    <2> QED BY <2>3, <2>4, Zenon DEF ChannelInv
<1> QED BY <1>2, <1>3 DEF Inv

\* Steps that change nothing.
LEMMA StutterStep == Inv /\ UNCHANGED vars => Inv'
<1> SUFFICES ASSUME Inv, UNCHANGED vars PROVE Inv' BY Zenon
<1>1. TypeOK' BY Zenon DEF Inv, TypeOK, vars
<1>2. ASSUME NEW c \in Channel PROVE ChannelInv(c)'
    BY ChannelUnchanged, Zenon DEF Inv, vars
<1> QED BY <1>1, <1>2, Zenon DEF Inv

-----------------------------------------------------------------------------
\* The order on the channels is an invariant.
THEOREM InvAlways == Spec => []Inv
<1>1. Inv /\ [Next]_vars => Inv'
    BY SendStep, LoseStep, ReceiveStep, RestartStep, RestartReceiverStep, StutterStep, Zenon
       DEF Next
<1> QED BY <1>1, InitInv, PTL DEF Spec

\* Type correctness: in particular a session identifier stays within 1 to
\* MaxSession, so it is never the 0 that is_reboot stores for a channel not heard.
THEOREM TypeCorrect == Spec => []TypeOK
<1>1. Inv => TypeOK BY Zenon DEF Inv
<1> QED BY <1>1, InvAlways, PTL

\* For every number of identifiers and however many messages are lost, is_reboot
\* never reports a reboot that did not happen.
THEOREM NoFalseAlarm == Spec => []NoFalseReboot
<1>1. Inv => NoFalseReboot
    <2> SUFFICES ASSUME Inv, NEW c \in Channel, net[c] # <<>>,
                        is_reboot(c, Head(net[c]))
                 PROVE  heard[c] \in 1..(Head(net[c]).incarnation - 1)
        BY Zenon DEF NoFalseReboot
    <2>1. TypeOK BY Zenon DEF Inv
    <2>2. net[c] \in Seq(Message) /\ Len(net[c]) \in Nat \ {0}
        BY <2>1 DEF TypeOK
    <2>3. PICK m \in Message : m = Head(net[c]) BY <2>2
    <2>4. m = Line(c, 1) /\ 1 \in 1..Last(c) BY <2>2, <2>3 DEF Line, Last
    <2>5. PICK r \in sessions_received :
              m.reboot /\ (~r[c].reboot \/ r[c].session >= m.session)
        BY <2>3, Zenon DEF is_reboot
    <2>6. r[c] # NotReceived BY <2>3, <2>5 DEF NotReceived, Message
    <2>7. heard[c] # 0 /\ Before(Record(r, c), m)
        BY <2>4, <2>6, Zenon DEF Inv, ChannelInv, RecordInOrder
    <2>8. r[c] \in Session /\ heard[c] \in Nat BY <2>1, Zenon DEF TypeOK
    <2>9. heard[c] < m.incarnation
        BY <2>3, <2>5, <2>7, <2>8 DEF Before, Record, Session, Message
    <2> QED BY <2>3, <2>7, <2>8, <2>9 DEF Message
<1> QED BY <1>1, InvAlways, PTL

\* On a channel that loses nothing, is_reboot recognises the first message of
\* every later run once a session of the channel is recorded.
THEOREM NoMissedReboot == Spec => []RebootDetected
<1>1. Inv => RebootDetected
    <2> SUFFICES ASSUME Inv, NEW c \in Channel, net[c] # <<>>, Recorded(c),
                        heard[c] # Head(net[c]).incarnation, c \notin lost
                 PROVE  is_reboot(c, Head(net[c]))
        BY Zenon DEF RebootDetected
    <2>1. TypeOK BY Zenon DEF Inv
    <2>2. net[c] \in Seq(Message) /\ Len(net[c]) \in Nat \ {0}
        BY <2>1 DEF TypeOK
    <2>3. PICK m \in Message : m = Head(net[c]) BY <2>2
    <2>4. m = Line(c, 1) BY <2>2, <2>3 DEF Line
    <2>5. PICK r \in sessions_received : r[c] # NotReceived BY Zenon DEF Recorded
    <2>6. Follows(Record(r, c), m)
        BY <2>4, <2>5, Zenon DEF Inv, ChannelInv, RecordContiguous
    <2>7. m.session = 1 /\ m.reboot = TRUE BY <2>3, <2>6, Zenon DEF Follows, Record
    <2>8. r[c] \in Session /\ r[c].session # 0
        BY <2>1, <2>5, Zenon DEF TypeOK, Inv, ChannelInv, RecordInOrder
    <2>9. r[c].session >= m.session BY <2>7, <2>8 DEF Session
    <2> QED BY <2>3, <2>7, <2>9, Zenon DEF is_reboot
<1> QED BY <1>1, InvAlways, PTL
=============================================================================
