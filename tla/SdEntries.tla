------------------------------ MODULE SdEntries ------------------------------
(***************************************************************************)
(* The answer to a service discovery message that carries SubscribeEvent-  *)
(* group entries (service_discovery_impl, message_impl,                    *)
(* eventgroupentry_impl).  All answers to one message travel in one        *)
(* response.  How many it needs is counted from the options its entries    *)
(* refer to, while the message is read; every answer put into the response *)
(* is counted as well, and whoever makes the counts meet sends it: the     *)
(* thread that handles the message (Receive .. Finish), or the thread that *)
(* brings the late answer of an application (Answer,                       *)
(* remote_subscription_not_acknowledge_all).  Both counters are uint8_t.   *)
(***************************************************************************)
EXTENDS Integers, Sequences, SequencesExt

CONSTANTS
    Inboxes      \* the inputs considered, see inbox

VARIABLES
    inbox,       \* messages: what arrives, in this order; groups: major version,
                 \* reliabilities of the events; connected: TCP endpoints;
                 \* targets: <<group, endpoint>> subscribed before
    sd,          \* the thread in on_message: message, entry in work (0: none), its
                 \* endpoints still to hand on, and those acknowledged but not yet
                 \* among the forced initial events
    response,    \* its_message_response of every message received
    pending_remote_subscriptions,
    targets,     \* <<group, endpoint>>: targets of the event groups
    initial,     \* ghost: <<message, group, endpoint>> given initial events
    notes        \* ghost: <<message, what happened that the properties allow for>>

vars == <<inbox, sd, response, pending_remote_subscriptions, targets, initial, notes>>

UInt8 == 0..255
Marked == 255     \* "set required acks to 0xFF to mark message as sent"
Endpoint == {"ip4", "ip6"}

-----------------------------------------------------------------------------
(* Reading a message.                                                      *)

\* deserialize_option: what cannot be read ends the options, and so does an
\* option of unknown type, which is itself kept.
get_options(m) ==
    LET ends == {i \in 1..Len(m.options) : m.options[i].type \in {"unknown", "malformed"}}
    IN  IF ends = {} THEN m.options
        ELSE LET i == CHOOSE i \in ends : \A j \in ends : i <= j
             IN  SubSeq(m.options, 1, IF m.options[i].type = "unknown" THEN i ELSE i - 1)

\* get_options_length: the field of the message, 12 bytes for IPv4 and 24 for
\* IPv6 endpoints, 8 for load balancing and protection options.
get_options_length(m) ==
    LET size(o) == IF o.type = "ip6" THEN 24
                   ELSE IF o.type \in {"ip4", "multicast"} THEN 12 ELSE 8
        plus(n, o) == n + size(o)
    IN  FoldLeft(plus, 0, m.options)

\* deserialize_entry fails for a type it does not know, and with it the message.
deserialize(m) == \A i \in 1..Len(m.entries) : m.entries[i].type \in {"subscribe", "ack"}

\* The entries without the Subscribe entries that repeat an earlier one.
get_entries(m) ==
    LET repeated(i) == \E j \in 1..(i - 1) : m.entries[j] = m.entries[i]
        plus(s, i) == IF m.entries[i].type = "subscribe" /\ repeated(i) THEN s
                      ELSE Append(s, m.entries[i])
    IN  FoldLeft(plus, <<>>, [i \in 1..Len(m.entries) |-> i])

Wanted(e) == e.type = "subscribe" /\ e.ttl > 0

\* Mutant: repeated entries are counted as well.
number_required_acks_repeated(m) ==
    LET plus(n, e) == IF Wanted(e) THEN (n + Len(e.options)) % 256 ELSE n
    IN  FoldLeft(plus, 0, m.entries)

number_required_acks(m) ==
    LET plus(n, e) == IF Wanted(e) THEN (n + Len(e.options)) % 256 ELSE n
    IN  FoldLeft(plus, 0, get_entries(m))

\* is_matching_subscribe: the same options, or options that name the same
\* endpoints.
is_matching_subscribe(m, e, f) ==
    LET ends(x) == {get_options(m)[i] : i \in {j \in ToSet(x.options) :
                                                get_options(m)[j].type \in Endpoint}}
    IN  /\ e.ttl = 0 /\ f.ttl > 0
        /\ <<e.group, e.major, e.counter>> = <<f.group, f.major, f.counter>>
        /\ \/ e.options = f.options
           \/ /\ Len(e.options) = Len(f.options)
              /\ ends(e) # {} /\ ends(f) # {}
              /\ ends(e) \subseteq ends(f)

check_stop_subscribe_subscribe(m, i) ==
    LET es == get_entries(m)
    IN  /\ i < Len(es)
        /\ es[i].type = "subscribe" /\ es[i].ttl = 0
        /\ es[i + 1].type = "subscribe"
        /\ is_matching_subscribe(m, es[i], es[i + 1])

-----------------------------------------------------------------------------
(* The response.                                                           *)

\* The part of an entry its answer repeats.
Key(e) == [group |-> e.group, major |-> e.major, counter |-> e.counter]

EmptyResponse(required) ==
    [required |-> required, contained |-> 0, acks |-> {}, nacks |-> {}, forced |-> {},
     settled |-> {}, sent |-> 0]

increase_number_required_acks(r) == [r EXCEPT !.required = (@ + 1) % 256]

decrease_number_required_acks(r) == [r EXCEPT !.required = (@ + 255) % 256]
increase_number_contained_acks(r) == [r EXCEPT !.contained = (@ + 1) % 256]
all_required_acks_contained(r) == r.contained >= r.required

\* insert_subscription_ack: one entry for all endpoints of a subscription, with
\* room for one reliable and one unreliable target.
insert_subscription_ack(r, k, target) ==
    LET own == {a \in r.acks : a.key = k}
        room(a) == {t \in target : \A u \in a.target : u.protocol # t.protocol}
        new == IF own = {} THEN {[key |-> k, target |-> target]}
               ELSE {[a EXCEPT !.target = @ \union room(a)] : a \in own}
    IN  [increase_number_contained_acks(r) EXCEPT !.acks = (@ \ own) \union new]

insert_subscription_nack(r, k) ==
    [increase_number_contained_acks(r) EXCEPT !.nacks = @ \union {k}]

\* Mutant: the response is not marked as sent.
sent_unmarked(r) == [r EXCEPT !.sent = @ + 1]

\* serialize_and_send, and the mark that keeps the response from being sent again.
sent(r) == [r EXCEPT !.sent = @ + 1, !.required = Marked]

-----------------------------------------------------------------------------
(* process_eventgroupentry.  The result: the response, the endpoints to be *)
(* handed to the routing manager, the targets after an unsubscription, and *)
(* by how much the entry changed the number of required answers (Reset     *)
(* when it was set to 0).                                                  *)

Reset == 256

Done(r, delta) == [response |-> r, endpoints |-> <<>>, delta |-> delta, targets |-> targets]

Nacked(r, e, delta) ==
    Done(IF e.ttl > 0 THEN insert_subscription_nack(r, Key(e)) ELSE r, delta)

check_layer_four_protocol(o) == o.protocol \in {"tcp", "udp"}

\* check_ipv4_address, and the port: port 0 stands for every unusable address.
check_ipv4_address(o) == o.type = "ip4" => o.port # 0

\* The checks of the message and of the number of options, a set that holds the
\* result if one of them fails.
checked(m, e, r) ==
    IF ~m.return_code THEN {Nacked(r, e, 0)}
    ELSE IF e.type # "subscribe" THEN {}
    ELSE IF m.multicast THEN {Nacked(r, e, 0)}
    ELSE IF e.options = <<>>
    THEN {IF e.ttl > 0 THEN Nacked(increase_number_required_acks(r), e, 1) ELSE Done(r, 0)}
    ELSE IF get_options_length(m) < 12 THEN {Nacked(r, e, 0)}
    ELSE IF Len(get_options(m)) < Len(e.options)
    THEN {IF e.ttl > 0 THEN Nacked([r EXCEPT !.required = 0], e, Reset) ELSE Done(r, 0)}
    ELSE IF m.short /\ e.ttl > 0 THEN {Done(r, 0)}
    ELSE {}

\* An endpoint option: the endpoints found so far grow, or the entry is refused.
\* A third endpoint is passed over.
take_endpoint(e, acc, o) ==
    LET nack == [acc EXCEPT !.done = {Nacked(acc.response, e, acc.delta)}]
    IN  IF e.type # "subscribe" THEN acc
        ELSE IF ~check_layer_four_protocol(o) THEN nack
        ELSE IF Len(acc.endpoints) = 2 THEN acc
        ELSE IF ~check_ipv4_address(o) THEN nack
        ELSE [acc EXCEPT !.endpoints = Append(@, o)]

\* Any other option: a configuration option needs no answer, an unknown one ends
\* the entry.
take_option(e, acc, o) ==
    LET less == decrease_number_required_acks(acc.response)
    IN  IF o.type \in Endpoint THEN take_endpoint(e, acc, o)
        ELSE IF o.type = "multicast" THEN acc
        ELSE IF o.type = "configuration"
        THEN [acc EXCEPT !.response = less, !.delta = @ - 1]
        ELSE IF e.ttl > 0 THEN [acc EXCEPT !.done = {Nacked(less, e, acc.delta - 1)}]
        ELSE acc

read_options(m, e, r) ==
    LET missing(acc) == IF Wanted(e) THEN Nacked(acc.response, e, acc.delta)
                        ELSE Done(acc.response, acc.delta)
        take(acc, i) == IF acc.done # {} THEN acc
                        ELSE IF i > Len(get_options(m)) THEN [acc EXCEPT !.done = {missing(acc)}]
                        ELSE take_option(e, acc, get_options(m)[i])
    IN  FoldLeft(take, [response |-> r, endpoints |-> <<>>, delta |-> 0, done |-> {}],
                 e.options)

Reliable(o) == o.protocol = "tcp"

\* The endpoints do not fit the reliabilities of the event group's events.
reliability_nack(g, ends) ==
    LET has(x) == \E i \in 1..Len(ends) : Reliable(ends[i]) = x
        info == inbox.groups[g]
    IN  /\ g \in DOMAIN inbox.groups
        /\ \/ info.reliable /\ ~info.unreliable /\ ~has(TRUE)
           \/ ~info.reliable /\ info.unreliable /\ ~has(FALSE)
           \/ info.reliable /\ info.unreliable /\ ~(has(TRUE) /\ has(FALSE))

is_tcp_connected(o) == o \in inbox.connected

\* An endpoint without its TCP connection: one refusal for both endpoints.
unconnected_nack(e, r, ends, delta) ==
    IF Len(ends) = 2 THEN Nacked(decrease_number_required_acks(r), e, delta - 1)
    ELSE Nacked(r, e, delta)

\* handle_eventgroup_subscription up to the call of the routing manager.
handle_eventgroup_subscription(e, r, ends, delta) ==
    LET unconnected == \E i \in 1..Len(ends) : Reliable(ends[i]) /\ ~is_tcp_connected(ends[i])
    IN  IF reliability_nack(e.group, ends) /\ e.ttl > 0 THEN Nacked(r, e, delta)
        ELSE IF e.group \notin DOMAIN inbox.groups \/ inbox.groups[e.group].major # e.major
        THEN Nacked(r, e, delta)
        ELSE IF e.ttl > 0 /\ unconnected THEN unconnected_nack(e, r, ends, delta)
        ELSE IF e.ttl = 0
        THEN [Done(r, delta) EXCEPT !.targets =
                 IF check_stop_subscribe_subscribe(inbox.messages[sd.message], sd.entry) THEN @
                 ELSE @ \ {<<e.group, ends[i]>> : i \in 1..Len(ends)}]
        ELSE [Done(r, delta) EXCEPT !.endpoints = ends]

\* An Ack or Nack entry of a remote service has no answer (RemoteService).
process_eventgroupentry(m, e, r) ==
    LET read == read_options(m, e, r)
    IN  IF checked(m, e, r) # {} THEN CHOOSE x \in checked(m, e, r) : TRUE
        ELSE IF read.done # {} THEN CHOOSE x \in read.done : TRUE
        ELSE IF e.type = "subscribe"
        THEN handle_eventgroup_subscription(e, read.response, read.endpoints, read.delta)
        ELSE Done(read.response, read.delta)

-----------------------------------------------------------------------------
(* The thread that handles messages.                                       *)

Message == inbox.messages[sd.message]
Entry == get_entries(Message)[sd.entry]
Response == response[sd.message]

Note(what) == notes' = notes \union {<<sd.message, w>> : w \in what}

\* on_message: deserialization, the response, and the number of answers it needs.
Receive ==
    /\ sd.entry = 0 /\ sd.message < Len(inbox.messages)
    /\ LET m == inbox.messages[sd.message + 1]
       IN  /\ sd' = [sd EXCEPT !.message = @ + 1, !.entry = IF deserialize(m) THEN 1 ELSE 0]
           /\ response' = Append(response, EmptyResponse(number_required_acks(m)))
    /\ UNCHANGED <<inbox, pending_remote_subscriptions, targets, initial, notes>>

\* The entry's share of the required answers is not the number of its answers.
Uneven(e, x) ==
    \/ x.delta = Reset
    \/ LET counted == IF Wanted(e) THEN Len(e.options) ELSE 0
           answers == Len(x.endpoints) + x.response.contained - Response.contained
       IN  counted + x.delta # answers

ProcessEntry ==
    /\ sd.entry > 0 /\ sd.todo = <<>> /\ sd.adding = {}
    /\ sd.entry <= Len(get_entries(Message))
    /\ LET x == process_eventgroupentry(Message, Entry, Response)
       IN  /\ response' = [response EXCEPT ![sd.message] = x.response]
           /\ targets' = x.targets
           /\ sd' = IF x.endpoints = <<>> THEN [sd EXCEPT !.entry = @ + 1]
                    ELSE [sd EXCEPT !.todo = x.endpoints]
           /\ Note(IF Uneven(Entry, x) THEN {"uneven"} ELSE {})
    /\ UNCHANGED <<inbox, pending_remote_subscriptions, initial>>

force_initial_events == sd.entry > 1 /\ check_stop_subscribe_subscribe(Message, sd.entry - 1)

\* The endpoint is handed on, and the next one or the next entry is in turn.
Advanced(adding) ==
    IF Len(sd.todo) = 1 /\ adding = {}
    THEN [sd EXCEPT !.todo = <<>>, !.entry = @ + 1]
    ELSE [sd EXCEPT !.todo = Tail(@), !.adding = adding]

\* on_remote_subscription and its callback: a subscription that exists is
\* renewed at once, any other one waits for the application.
Renew ==
    /\ sd.todo # <<>> /\ sd.adding = {}
    /\ <<Entry.group, Head(sd.todo)>> \in targets
    /\ response' = [response EXCEPT ![sd.message] = insert_subscription_ack(@, Key(Entry), {})]
    /\ sd' = Advanced(IF force_initial_events THEN {Head(sd.todo)} ELSE {})
    /\ UNCHANGED <<inbox, pending_remote_subscriptions, targets, initial, notes>>

Ask ==
    /\ sd.todo # <<>> /\ sd.adding = {}
    /\ <<Entry.group, Head(sd.todo)>> \notin targets
    /\ pending_remote_subscriptions' =
          Append(pending_remote_subscriptions,
                 [message |-> sd.message, key |-> Key(Entry), endpoint |-> Head(sd.todo)])
    /\ sd' = Advanced({})
    /\ UNCHANGED <<inbox, response, targets, initial, notes>>

\* The rest of the callback, after the acknowledgement was inserted.
forced_initial_events_add ==
    /\ sd.adding # {}
    /\ response' = [response EXCEPT ![sd.message].forced =
                        @ \union {<<Entry.group, o>> : o \in sd.adding}]
    /\ Note(IF Response.sent > 0 THEN {"unforced"} ELSE {})
    /\ sd' = [sd EXCEPT !.adding = {}, !.entry = IF sd.todo = <<>> THEN @ + 1 ELSE @]
    /\ UNCHANGED <<inbox, pending_remote_subscriptions, targets, initial>>

Given(n, pairs) == {<<n, p[1], p[2]>> : p \in pairs}

answers_now(r, m) ==
    /\ number_required_acks(m) > 0 \/ r.required > 0
    /\ all_required_acks_contained(r)

\* The end of on_message.  Only the forced initial events are looked after.
Finish ==
    /\ sd.entry > 0 /\ sd.entry = Len(get_entries(Message)) + 1
    /\ IF answers_now(Response, Message)
       THEN /\ response' = [response EXCEPT ![sd.message] = sent(@)]
            /\ initial' = initial \union Given(sd.message, Response.forced)
            /\ Note(IF Response.settled # {} THEN {"overtaken"} ELSE {})
       ELSE UNCHANGED <<response, initial, notes>>
    /\ sd' = [sd EXCEPT !.entry = 0]
    /\ UNCHANGED <<inbox, pending_remote_subscriptions, targets>>

-----------------------------------------------------------------------------
(* The threads that bring late answers.                                    *)

\* The targets of the acknowledgements sent, and the forced ones.
initial_events(r) ==
    r.forced \union UNION {{<<a.key.group, t>> : t \in a.target} : a \in r.acks}

\* Entries without options are not counted before they are processed.
Uncounted(n) ==
    /\ n = sd.message /\ sd.entry > 0
    /\ \E i \in sd.entry..Len(get_entries(Message)) :
          Wanted(get_entries(Message)[i]) /\ get_entries(Message)[i].options = <<>>

\* remote_subscription_acknowledge_subscriber: insert the answer into the
\* response of its message and send it if it is complete, under response_mutex_.
remote_subscription_acknowledge_subscriber(acc, p, acknowledged) ==
    LET r == acc.response[p.message]
        s == IF acknowledged
             THEN [insert_subscription_ack(r, p.key, {p.endpoint}) EXCEPT
                      !.settled = @ \union {<<p.key.group, p.endpoint>>}]
             ELSE insert_subscription_nack(r, p.key)
    IN  IF all_required_acks_contained(s)
        THEN [response |-> [acc.response EXCEPT ![p.message] = sent(s)],
              initial |-> acc.initial \union Given(p.message, initial_events(s)),
              notes |-> acc.notes \union (IF Uncounted(p.message)
                                         THEN {<<p.message, "early">>} ELSE {})]
        ELSE [acc EXCEPT !.response[p.message] = s]

Settle(list, acknowledged) ==
    LET one(acc, p) == remote_subscription_acknowledge_subscriber(acc, p, acknowledged)
        all == FoldLeft(one, [response |-> response, initial |-> initial, notes |-> notes], list)
    IN  response' = all.response /\ initial' = all.initial /\ notes' = all.notes

\* The application's answer for an endpoint settles everything pending for it
\* (on_subscribe_ack, on_subscribe_nack, remote_subscription_acknowledge).
Answer(g, o, acknowledged) ==
    LET of(p) == p.key.group = g /\ p.endpoint = o
        other(p) == ~of(p)
        list == SelectSeq(pending_remote_subscriptions, of)
    IN  /\ list # <<>>
        /\ Settle(list, acknowledged)
        /\ pending_remote_subscriptions' = SelectSeq(pending_remote_subscriptions, other)
        /\ targets' = IF acknowledged THEN targets \union {<<g, o>>} ELSE targets
        /\ UNCHANGED <<inbox, sd>>

\* The service is no longer offered.
remote_subscription_not_acknowledge_all ==
    /\ pending_remote_subscriptions # <<>>
    /\ Settle(pending_remote_subscriptions, FALSE)
    /\ pending_remote_subscriptions' = <<>>
    /\ targets' = {}
    /\ UNCHANGED <<inbox, sd>>

-----------------------------------------------------------------------------
Init ==
    /\ inbox \in Inboxes
    /\ sd = [message |-> 0, entry |-> 0, todo |-> <<>>, adding |-> {}]
    /\ response = <<>>
    /\ pending_remote_subscriptions = <<>>
    /\ targets = inbox.targets
    /\ initial = {}
    /\ notes = {}

Next ==
    \/ Receive
    \/ ProcessEntry
    \/ Renew
    \/ Ask
    \/ forced_initial_events_add
    \/ Finish
    \/ \E p \in ToSet(pending_remote_subscriptions), acknowledged \in BOOLEAN :
          Answer(p.key.group, p.endpoint, acknowledged)
    \/ remote_subscription_not_acknowledge_all

Spec == Init /\ [][Next]_vars

-----------------------------------------------------------------------------
(* Properties.                                                             *)

Noted(n, what) == <<n, what>> \in notes
Received == 1..Len(response)
Waiting(n) == \E p \in ToSet(pending_remote_subscriptions) : p.message = n
InWork(n) == n = sd.message /\ sd.entry > 0

TypeOK ==
    /\ inbox \in Inboxes
    /\ sd.message = Len(response) /\ sd.message <= Len(inbox.messages)
    /\ sd.entry \in Nat /\ (sd.entry = 0 => sd.todo = <<>> /\ sd.adding = {})
    /\ \A n \in Received : response[n].required \in UInt8 /\ response[n].contained \in UInt8
    /\ \A p \in ToSet(pending_remote_subscriptions) : p.message \in Received

\* Whoever sends it, the thread of on_message or the one that brings a late
\* answer, a response that leaves is complete: it answers every Subscribe entry
\* of the message, and no application is still to be heard
\* (all_required_acks_contained).
SentIsComplete ==
    \A n \in Received :
        response[n].sent > 0 /\ ~Noted(n, "uneven") /\ ~Noted(n, "early") =>
            /\ ~Waiting(n)
            /\ \A e \in ToSet(get_entries(inbox.messages[n])) :
                  Wanted(e) => \/ Key(e) \in response[n].nacks
                               \/ \E a \in response[n].acks : a.key = Key(e)

\* The two threads never both send a response: the mark 0xFF in the number of
\* required answers outlives whatever the other one still does to it.
SentOnce ==
    \A n \in Received :
        ~Noted(n, "uneven") /\ ~Noted(n, "early") => response[n].sent <= 1

\* No response is left behind: once the message is processed and all
\* applications have answered, a message with Subscribe entries has had its
\* response, although neither thread knows how far the other one is.
NoneForgotten ==
    \A n \in Received :
        /\ deserialize(inbox.messages[n]) /\ ~InWork(n) /\ ~Waiting(n) /\ ~Noted(n, "uneven")
        /\ \E e \in ToSet(get_entries(inbox.messages[n])) : Wanted(e)
        => response[n].sent > 0

\* A subscriber's usual entry: for a service that is there, one or two usable
\* endpoints that fit its events, and configuration options.
Usual(m, e) ==
    LET opts == [i \in 1..Len(e.options) |-> get_options(m)[e.options[i]]]
        isEnd(o) == o.type \in Endpoint /\ check_layer_four_protocol(o) /\ check_ipv4_address(o)
        ends == SelectSeq(opts, isEnd)
    IN  /\ Wanted(e) /\ m.return_code /\ ~m.multicast /\ ~m.short
        /\ \A i \in ToSet(e.options) : i \in 1..Len(get_options(m))
        /\ \A o \in ToSet(opts) : isEnd(o) \/ o.type = "configuration"
        /\ Len(ends) \in 1..2 /\ Len(opts) <= Len(get_options(m))
        /\ e.group \in DOMAIN inbox.groups /\ inbox.groups[e.group].major = e.major
        /\ ~reliability_nack(e.group, ends)

\* Counting options instead of answers does no harm to a usual message: with
\* the corrections for configuration options and for endpoints that are not
\* connected (decrease_number_required_acks) its counts are even.
UsualIsEven ==
    \A n \in Received :
        Noted(n, "uneven") =>
            \E e \in ToSet(get_entries(inbox.messages[n])) : ~Usual(inbox.messages[n], e)

\* Who was acknowledged late gets the initial values of the fields, and so does
\* who asked for them with StopSubscribe and Subscribe, once the response is
\* sent.  Unless the thread of on_message sends a response with late answers, or
\* a late answer sends it before the request for initial events is noted; an
\* acknowledgement has room for one endpoint of each protocol.
InitialEventsSent ==
    \A n \in Received :
        /\ response[n].sent = 1
        /\ ~\E w \in {"uneven", "early", "overtaken", "unforced"} : Noted(n, w)
        => \A x \in response[n].forced \union response[n].settled :
             \/ <<n, x[1], x[2]>> \in initial
             \/ \E y \in response[n].settled \ {x} :
                   y[1] = x[1] /\ y[2].protocol = x[2].protocol
====
