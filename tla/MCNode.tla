-------------------------------- MODULE MCNode --------------------------------
(***************************************************************************)
(* Three parts of a node that do not interact, checked side by side: the   *)
(* client identifiers of its applications (ClientIds), the callbacks of an *)
(* application (Application) and the answers of its service discovery to   *)
(* subscriptions (SdEntries).  A behaviour is one of the chosen part; the  *)
(* other two stay in an initial state.                                     *)
(***************************************************************************)
EXTENDS ClientIds, TLC

CONSTANTS None, ANY

VARIABLES
    part,
    scenario, offered, state, available, availability, handlers, told, subscription,
    status_handlers, status, doing, calls, loose, unheard,
    inbox, sd, response, pending_remote_subscriptions, targets, initial, notes

-----------------------------------------------------------------------------
(* Client identifiers: two processes p and q, routing_host "none" if no     *)
(* routing manager is configured.                                          *)

\* Two applications, no routing manager configured.
Two ==
    [home |-> [a |-> "p", b |-> "q"], routing_host |-> "none", id |-> [a |-> 0, b |-> 0],
     max_clients |-> 3, crashes |-> 1, segments |-> 1]

\* The segment may be removed while it is in use, and another one created.
TwoSegments == [Two EXCEPT !.crashes = 0, !.segments = 2]

\* Three applications compete for two identifiers, one of them is the routing manager.
Crowded ==
    [home |-> [a |-> "p", b |-> "q", c |-> "q"], routing_host |-> "a",
     id |-> [a |-> 0, b |-> 0, c |-> 0], max_clients |-> 3, crashes |-> 1, segments |-> 1]

\* b and c are both configured to the same identifier.
SameId == [Crowded EXCEPT !.id = [a |-> 0, b |-> 5, c |-> 5]]

\* The top identifier is configured for d, which is not started: the search wraps.
Wrapping ==
    [Two EXCEPT !.max_clients = 7, !.crashes = 0, !.id = [a |-> 0, b |-> 0, d |-> 15]]

Configurations == {Two, TwoSegments, Crowded, SameId, Wrapping}

ASSUME ConfsAssumption == ConfsOK

\* The search for a free identifier finds what its loop finds, in every table of the
\* configuration that is not full (request_client_id).
SearchAsCoded ==
    \A ids \in SUBSET Id, n \in 0..(max_clients - 1) :
        LET S == [LaidOut EXCEPT !.used = FoldSet(LAMBDA c, s : Append(s, c), <<>>, ids),
                                 !.max_assigned = n]
        IN  ~full(S) => search(S) = search_loop(S)

-----------------------------------------------------------------------------
(* Callbacks.  Minor version 2 stands for one that is negative as int32_t. *)

K(s, i, ma, mi) == [service |-> s, instance |-> i, major |-> ma, minor |-> mi]
H(s, i, e) == [service |-> s, instance |-> i, event |-> e]
NoCalls == [register |-> 0, state |-> 0, offer |-> 0, subscribe |-> 0, status |-> 0]

\* Handlers with and without wildcards for versions 0.0 and 1.1.
Wildcards ==
    [keys |-> {K(1, 1, 0, 0), K(1, ANY, ANY, ANY)}, statuses |-> {},
     versions |-> {<<0, 0>>, <<1, 1>>},
     calls |-> [NoCalls EXCEPT !.register = 2, !.state = 1, !.offer = 2]]

Specific == [Wildcards EXCEPT !.keys = {K(1, 2, 1, 1), K(ANY, 1, 1, 0)}]

\* A handler that is registered, told, and registered again in another state.
Again ==
    [Wildcards EXCEPT !.keys = {K(ANY, ANY, ANY, 1)}, !.calls.state = 2,
                      !.versions = {<<0, 0>>, <<0, 1>>, <<1, 2>>}]

\* Status handlers for an event and for any event of any service.
Statuses ==
    [keys |-> {}, statuses |-> {H(1, 1, "e"), H(ANY, 1, ANY)}, versions |-> {<<0, 0>>},
     calls |-> [NoCalls EXCEPT !.register = 2, !.subscribe = 2, !.status = 2]]

LostService ==
    [Statuses EXCEPT !.statuses = {H(1, 1, "e")},
                     !.calls = [@ EXCEPT !.register = 1, !.offer = 1]]

Scenarios == {Wildcards, Specific, Again, Statuses, LostService}

Appl == INSTANCE Application WITH
            Service <- {1}, Instance <- {1, 2}, Major <- {0, 1}, Minor <- {0, 1, 2},
            IntMax <- 1, Event <- {"e"}

-----------------------------------------------------------------------------
(* Subscribe entries.                                                      *)

Option(t, p, n) == [type |-> t, protocol |-> p, port |-> n]
Tcp == Option("ip4", "tcp", 1)
Udp == Option("ip4", "udp", 2)
Configuration == Option("configuration", "none", 0)

Options ==
    <<Tcp, Udp, Configuration, Option("ip6", "udp", 3), Option("ip4", "udp", 0),
      Option("unsupported", "none", 0), Option("multicast", "udp", 4),
      Option("ip4", "none", 5), Udp, Option("unknown", "none", 0), Tcp>>

Sub(ttl, g, c, os) ==
    [type |-> "subscribe", ttl |-> ttl, group |-> g, major |-> 1, counter |-> c, options |-> os]

Msg(es) ==
    [return_code |-> TRUE, multicast |-> FALSE, short |-> FALSE, options |-> Options,
     entries |-> es]

\* g has events of both kinds, h unreliable and k reliable ones; x does not exist.
Groups ==
    [g |-> [major |-> 1, reliable |-> TRUE, unreliable |-> TRUE],
     h |-> [major |-> 1, reliable |-> FALSE, unreliable |-> TRUE],
     k |-> [major |-> 1, reliable |-> TRUE, unreliable |-> FALSE]]

Box(ms, connected, subscribed) ==
    [messages |-> ms, groups |-> Groups, connected |-> connected, targets |-> subscribed]

UdpTarget == {<<"h", Udp>>}

\* Entries with usual options, and with every kind of option that is refused.
Entries ==
    {Sub(1, "g", 0, <<1, 2>>), Sub(1, "k", 0, <<1>>), Sub(1, "h", 0, <<2, 3>>),
     Sub(1, "h", 1, <<2>>), Sub(1, "h", 0, <<2, 4>>), Sub(0, "h", 0, <<2>>),
     Sub(1, "h", 0, <<>>), Sub(1, "x", 0, <<1, 2>>), Sub(1, "h", 0, <<5>>),
     Sub(1, "h", 0, <<6>>), Sub(1, "h", 0, <<2, 7>>), Sub(1, "h", 0, <<8>>),
     Sub(1, "k", 0, <<11>>), Sub(0, "h", 0, <<3>>),
     [Sub(1, "h", 0, <<2>>) EXCEPT !.major = 2],
     [Sub(1, "h", 0, <<3>>) EXCEPT !.type = "ack"]}

Pairs ==
    {Box(<<Msg(<<e, f>>)>>, connected, subscribed) :
        e, f \in Entries, connected \in {{}, {Tcp}}, subscribed \in {{}, UdpTarget}}

\* A late answer and StopSubscribe/Subscribe in one message; two subscriptions of the
\* same endpoints; a repeated entry.
Triples ==
    {Box(<<Msg(es)>>, {Tcp}, subscribed) :
        subscribed \in {{}, UdpTarget},
        es \in {<<Sub(1, "k", 0, <<1>>), Sub(0, "h", 0, <<2>>), Sub(1, "h", 0, <<2>>)>>,
                <<Sub(1, "k", 0, <<1>>), Sub(0, "h", 0, <<2>>), Sub(1, "h", 0, <<9>>)>>,
                <<Sub(1, "g", 0, <<1, 2>>), Sub(1, "g", 1, <<2, 1>>), Sub(1, "h", 0, <<2>>)>>,
                <<Sub(1, "h", 0, <<2>>), Sub(1, "h", 0, <<2>>), Sub(1, "k", 0, <<1, 3>>)>>}}

\* Two messages, the second one while the first one may still wait for answers.
Successive ==
    {Box(<<Msg(<<e>>), Msg(<<f, Sub(1, "h", 0, <<2>>)>>)>>, {Tcp}, {}) :
        e, f \in {Sub(1, "h", 0, <<2>>), Sub(1, "g", 0, <<1, 2>>)}}

\* Messages that are refused as a whole, or whose options cannot be read.
Odd ==
    LET m == Msg(<<Sub(1, "h", 0, <<2>>), Sub(1, "g", 0, <<1>>)>>)
    IN  {Box(<<n>>, {Tcp}, {}) :
            n \in {[m EXCEPT !.return_code = FALSE], [m EXCEPT !.multicast = TRUE],
                   [m EXCEPT !.short = TRUE], [m EXCEPT !.options = <<Configuration>>],
                   [m EXCEPT !.options = <<Option("malformed", "none", 0), Udp>>],
                   [m EXCEPT !.entries[1].type = "other"]}}

Inboxes == Pairs \union Triples \union Successive \union Odd

Sd == INSTANCE SdEntries

-----------------------------------------------------------------------------
applVars ==
    <<scenario, offered, state, available, availability, handlers, told, subscription,
      status_handlers, status, doing, calls, loose, unheard>>
sdVars == <<inbox, sd, response, pending_remote_subscriptions, targets, initial, notes>>

nodeVars == <<part, vars, applVars, sdVars>>

\* SearchAsCoded is asserted once for every configuration.
NodeInit ==
    /\ part \in {"ids", "application", "entries"}
    /\ conf \in IF part = "ids" THEN Confs ELSE {Wrapping}
    /\ scenario \in IF part = "application" THEN Scenarios ELSE {LostService}
    /\ inbox \in IF part = "entries" THEN Inboxes ELSE {CHOOSE x \in Odd : TRUE}
    /\ Init
    /\ Appl!Init
    /\ Sd!Init
    /\ part = "ids" => Assert(SearchAsCoded, "search is not its loop")

\* A step of one part.
IdsOnly == part = "ids" /\ UNCHANGED <<part, applVars, sdVars>>
ApplOnly == part = "application" /\ UNCHANGED <<part, vars, sdVars>>
SdOnly == part = "entries" /\ UNCHANGED <<part, vars, applVars>>

NodeNext ==
    \/ \E a \in App :
          \/ IdsOnly /\ Open(a)
          \/ IdsOnly /\ Create(a)
          \/ IdsOnly /\ Attach(a)
          \/ IdsOnly /\ GiveUp(a)
          \/ IdsOnly /\ Request(a)
          \/ IdsOnly /\ Release(a)
          \/ IdsOnly /\ Exit(a)
          \/ IdsOnly /\ Unlink(a)
          \/ IdsOnly /\ CrashInRequest(a)
          \/ IdsOnly /\ CrashInRelease(a)
          \/ \E c \in Id : IdsOnly /\ Reclaim(a, c)
    \/ \E p \in Process : IdsOnly /\ Crash(p)
    \/ \E k \in scenario.keys :
          \/ ApplOnly /\ Appl!register_availability_handler(k)
          \/ ApplOnly /\ Appl!unregister_availability_handler(k)
    \/ \E new \in BOOLEAN : ApplOnly /\ Appl!on_state(new)
    \/ \E p \in Appl!Place, v \in scenario.versions : ApplOnly /\ Appl!Offer(p, v)
    \/ \E p \in Appl!Place : ApplOnly /\ Appl!StopOffer(p)
    \/ \E h \in scenario.statuses, is \in BOOLEAN :
          ApplOnly /\ Appl!register_subscription_status_handler(h, is)
    \/ \E h \in scenario.statuses : ApplOnly /\ Appl!unregister_subscription_status_handler(h)
    \/ \E e \in {"e", ANY} :
          \/ ApplOnly /\ Appl!subscribe(e)
          \/ ApplOnly /\ Appl!unsubscribe(e)
    \/ \E e \in {"e", ANY}, error \in {"ok", "error"} :
          ApplOnly /\ Appl!on_subscription_status(e, error)
    \/ \E t \in Appl!Thread : ApplOnly /\ Appl!deliver_subscription_state(t)
    \/ ApplOnly /\ Appl!dispatch
    \/ SdOnly /\ Sd!Receive
    \/ SdOnly /\ Sd!ProcessEntry
    \/ SdOnly /\ Sd!Renew
    \/ SdOnly /\ Sd!Ask
    \/ SdOnly /\ Sd!forced_initial_events_add
    \/ SdOnly /\ Sd!Finish
    \/ \E i \in 1..Len(pending_remote_subscriptions), acknowledged \in BOOLEAN :
          SdOnly /\ Sd!Answer(pending_remote_subscriptions[i].key.group,
                             pending_remote_subscriptions[i].endpoint, acknowledged)
    \/ SdOnly /\ Sd!remote_subscription_not_acknowledge_all

NodeSpec == NodeInit /\ [][NodeNext]_nodeVars

-----------------------------------------------------------------------------
(* The properties of the other two parts; IdsAgree and RoleKept are those  *)
(* of ClientIds.                                                           *)

\* Availability and status handlers have heard last what is true, however
\* registrations and changes interleaved (do_register_availability_handler,
\* on_availability, on_subscription_status, deliver_subscription_state).
HandlersAgree ==
    Appl!TypeOK /\ Appl!SeenIsOffered /\ Appl!HandlersAgree /\ Appl!StatusAgrees

\* A response leaves once and answers every Subscribe entry of its message
\* (all_required_acks_contained), whichever thread sends it, and the initial
\* events follow (remote_subscription_acknowledge_subscriber).
ResponseComplete == Sd!SentIsComplete /\ Sd!SentOnce /\ Sd!InitialEventsSent

\* When a message is processed and all answers are there, its response was sent by
\* one of the two threads: counting options instead of answers is right for usual
\* messages (on_message, message_impl::deserialize, decrease_number_required_acks).
NoneForgotten == Sd!TypeOK /\ Sd!NoneForgotten /\ Sd!UsualIsEven
====
