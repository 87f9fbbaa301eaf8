------------------------------ MODULE SdSession ------------------------------
(***************************************************************************)
(* Session identifiers and reboot detection of the service discovery       *)
(* (service_discovery_impl): a sender numbers the messages of its          *)
(* multicast channel and of its unicast channel to one receiver with       *)
(* get_session and increment_session, and the receiver decides in          *)
(* is_reboot, from the pair (session, reboot flag) alone, whether the      *)
(* sender was restarted; if so it forgets the subscriptions and services   *)
(* of that sender.  Both run over UDP: a channel may lose messages, and    *)
(* the two channels are not ordered with respect to each other.            *)
(***************************************************************************)
EXTENDS Integers, Sequences

CONSTANTS
    MaxSession,     \* largest session identifier; session_t is uint16_t: 65535
    MaxIncarnation, \* bound: how often the sender is started
    MaxInFlight     \* bound: messages of one channel on the wire

ASSUME ConstantsAssumption ==
    /\ MaxSession \in Nat \ {0}
    /\ MaxIncarnation \in Nat \ {0}
    /\ MaxInFlight \in Nat \ {0}

VARIABLES
    sessions_sent,     \* sender: next session and reboot flag of each channel
    net,               \* messages of each channel on the wire
    sessions_received, \* receiver: {} or {last session and flag per channel}
    known,             \* receiver: runs of the sender whose entries it holds
    incarnation,       \* ghost: the current run of the sender
    heard,             \* ghost: run of the last message received per channel, or 0
    lost,              \* ghost: channels with a loss since the last message received
    reliable           \* neither the network nor a suspended receiver drops messages,
                       \* and the sender is recorded before it restarts again

vars == <<sessions_sent, net, sessions_received, known, incarnation, heard, lost,
          reliable>>

Channel == {"multicast", "unicast"}

Session == [session : 0..MaxSession, reboot : BOOLEAN]
Message == [session : 1..MaxSession, reboot : BOOLEAN, incarnation : Nat \ {0}]

\* get_session for an address without an entry.
FirstSession == [session |-> 1, reboot |-> TRUE]

\* What is_reboot stores for the channel the first message did not use.
NotReceived == [session |-> 0, reboot |-> TRUE]

-----------------------------------------------------------------------------
(* The sender.                                                             *)

\* Mutant: the flag is kept when the identifier wraps.
next_session_keeping_flag(s) ==
    IF s.session = MaxSession THEN [s EXCEPT !.session = 1]
                              ELSE [s EXCEPT !.session = @ + 1]

\* increment_session: the identifier never becomes 0, and the reboot flag is
\* cleared for good when it wraps.
next_session(s) ==
    IF s.session = MaxSession THEN [session |-> 1, reboot |-> FALSE]
                              ELSE [s EXCEPT !.session = @ + 1]

increment_session(c, is_sent) ==
    sessions_sent' = IF is_sent
                     THEN [sessions_sent EXCEPT ![c] = next_session(@)]
                     ELSE sessions_sent

\* serialize_and_send (unicast) and serialize_and_send_messages (multicast):
\* under serialize_mutex_, stamp the message, hand it to the endpoint, and
\* move on to the next identifier only if the endpoint took it.
serialize_and_send(c, is_sent) ==
    /\ Len(net[c]) < MaxInFlight
    /\ increment_session(c, is_sent)
    /\ net' = IF is_sent
              THEN [net EXCEPT ![c] =
                        Append(@, [session |-> sessions_sent[c].session,
                                   reboot |-> sessions_sent[c].reboot,
                                   incarnation |-> incarnation])]
              ELSE net
    /\ UNCHANGED <<sessions_received, known, incarnation, heard, lost, reliable>>

\* The receiver has a session of this channel to compare with.
Recorded(c) == \E r \in sessions_received : r[c] # NotReceived

\* The current run lasted until all it sent arrived and its sessions, not only
\* the one that made the receiver erase the sender's entry, are recorded.
RunRecorded ==
    /\ \A c \in Channel : net[c] = <<>>
    /\ \/ \A c \in Channel : sessions_sent[c] = FirstSession
       \/ \E c \in Channel : Recorded(c) /\ heard[c] = incarnation

\* The sending process ends and is started again: sessions_sent_ is empty.
\* A restart takes longer than a message is under way, so at most the messages
\* of one earlier run are still on the wire.
Restart ==
    /\ incarnation < MaxIncarnation
    /\ \A c \in Channel : \A i \in 1..Len(net[c]) :
          net[c][i].incarnation = incarnation
    /\ ~reliable \/ RunRecorded
    /\ incarnation' = incarnation + 1
    /\ sessions_sent' = [c \in Channel |-> FirstSession]
    /\ UNCHANGED <<net, sessions_received, known, heard, lost, reliable>>

-----------------------------------------------------------------------------
(* The network.                                                            *)

\* The datagram is dropped on the wire, or discarded by a suspended receiver
\* (the first return of on_message) before its session is looked at.
Lose(c) ==
    /\ ~reliable
    /\ net[c] # <<>>
    /\ net' = [net EXCEPT ![c] = Tail(@)]
    /\ lost' = lost \union {c}
    /\ UNCHANGED <<sessions_sent, sessions_received, known, incarnation, heard, reliable>>

-----------------------------------------------------------------------------
(* The receiver.                                                           *)

\* Mutant: only an identifier that goes down is a reboot.
is_reboot_strict(c, m) ==
    \E r \in sessions_received :
        m.reboot /\ (~r[c].reboot \/ r[c].session > m.session)

\* is_reboot's result: the flag went from false to true, or the identifier did
\* not grow while the flag stayed true.
is_reboot(c, m) ==
    \E r \in sessions_received :
        m.reboot /\ (~r[c].reboot \/ r[c].session >= m.session)

\* is_reboot's effect: the first message of a sender fills in both channels, a
\* later one its own, and a detected reboot erases the sender's entry.
remember(c, m) ==
    LET new == [session |-> m.session, reboot |-> m.reboot]
    IN  sessions_received' =
          IF sessions_received = {}
          THEN {[d \in Channel |-> IF d = c THEN new ELSE NotReceived]}
          ELSE IF is_reboot(c, m)
               THEN {}
               ELSE {[r EXCEPT ![c] = new] : r \in sessions_received}

\* Mutant: a detected reboot leaves the old entries in place.
expire_forgotten(c, m) == known

\* expire_subscriptions and expire_services, before the entries of the message
\* itself are processed.
expire(c, m) == IF is_reboot(c, m) THEN {} ELSE known

\* on_message: reboot detection, expiry, then the entries of the message.
on_message(c) ==
    /\ net[c] # <<>>
    /\ LET m == Head(net[c])
       IN  /\ remember(c, m)
           /\ known' = expire(c, m) \union {m.incarnation}
           /\ heard' = [heard EXCEPT ![c] = m.incarnation]
    /\ net' = [net EXCEPT ![c] = Tail(@)]
    /\ lost' = lost \ {c}
    /\ UNCHANGED <<sessions_sent, incarnation, reliable>>

\* The receiving process is started again.
RestartReceiver ==
    /\ sessions_received # {}
    /\ sessions_received' = {}
    /\ known' = {}
    /\ heard' = [c \in Channel |-> 0]
    /\ UNCHANGED <<sessions_sent, net, incarnation, lost, reliable>>

-----------------------------------------------------------------------------
Init ==
    /\ sessions_sent = [c \in Channel |-> FirstSession]
    /\ net = [c \in Channel |-> <<>>]
    /\ sessions_received = {}
    /\ known = {}
    /\ incarnation = 1
    /\ heard = [c \in Channel |-> 0]
    /\ lost = {}
    /\ reliable \in BOOLEAN

Next ==
    \/ \E c \in Channel, is_sent \in BOOLEAN : serialize_and_send(c, is_sent)
    \/ \E c \in Channel : Lose(c)
    \/ \E c \in Channel : on_message(c)
    \/ Restart
    \/ RestartReceiver

Spec == Init /\ [][Next]_vars

\* The main phase timer sends offers on the multicast channel again and again;
\* nothing makes the sender use the unicast channel (it answers a FindService or
\* a subscription there).  What is on the wire arrives or is lost.
Fairness ==
    /\ WF_vars(serialize_and_send("multicast", TRUE))
    /\ \A c \in Channel : WF_vars(on_message(c))

FairSpec == Spec /\ Fairness

-----------------------------------------------------------------------------
(* Properties.                                                             *)

TypeOK ==
    /\ sessions_sent \in [Channel -> Session]
    /\ \A c \in Channel : sessions_sent[c].session # 0
    /\ net \in [Channel -> Seq(Message)]
    /\ sessions_received \in SUBSET [Channel -> Session]
    /\ \A r, s \in sessions_received : r = s
    /\ known \in SUBSET (Nat \ {0})
    /\ incarnation \in Nat \ {0}
    /\ heard \in [Channel -> Nat]
    /\ lost \in SUBSET Channel
    /\ reliable \in BOOLEAN

\* No false alarm: whatever is lost, and however often the identifiers wrap, a
\* message is taken for a reboot only if the sender really was restarted since
\* the message recorded for its channel (is_reboot).  A channel not yet heard
\* never triggers the detection, as the comment in is_reboot says.
NoFalseReboot ==
    \A c \in Channel :
        net[c] # <<>> /\ is_reboot(c, Head(net[c]))
            => heard[c] \in 1..(Head(net[c]).incarnation - 1)

\* No missed reboot: when the first message of a later run arrives on a channel
\* that is recorded, is_reboot recognises it, unless messages of that channel
\* were lost in between.
RebootDetected ==
    \A c \in Channel :
        /\ net[c] # <<>>
        /\ Recorded(c)
        /\ heard[c] # Head(net[c]).incarnation
        /\ c \notin lost
        => is_reboot(c, Head(net[c]))

\* An earlier run was recorded on the channel, and the last run was not heard there.
LastHeardEarlier(c) == Recorded(c) /\ heard[c] # MaxIncarnation

\* Once the sender is not restarted any more, the receiver gets rid of
\* everything it learnt from earlier runs (on_message: expire_subscriptions and
\* expire_services after is_reboot), in reliable surroundings.  Excepted is what
\* an earlier run said on the unicast channel if the last run never uses it:
\* is_reboot compares a message only with the session recorded for its channel.
StaleForgotten ==
    reliable /\ <>[](incarnation = MaxIncarnation)
        => <>[](known \subseteq {MaxIncarnation} \/ LastHeardEarlier("unicast"))
=============================================================================
