---------------------------- MODULE RemoteService ----------------------------
(***************************************************************************)
(* How a device uses the services of another one: its routing manager      *)
(* (routing_manager_impl) keeps what is offered, the client endpoints to   *)
(* reach it and who requested it, its service discovery                    *)
(* (service_discovery_impl) searches services, subscribes to their         *)
(* eventgroup and renews the subscription with every offer.  Requests,     *)
(* subscriptions and their ends come from the applications of the device;  *)
(* offers, answers, reboots, connects, broken connections and timers from  *)
(* everywhere else.  The offering device is modelled as far as the service *)
(* discovery there handles a subscription.                                 *)
(*                                                                         *)
(* Every service has one instance and one eventgroup.  A client is an      *)
(* application other than the one that hosts the routing manager.          *)
(***************************************************************************)
EXTENDS Integers, Sequences, FiniteSets, SequencesExt

CONSTANTS
    Service,         \* services of the other device
    Client,          \* local applications, positive numbers
    MaxEndpoint,     \* bound: client endpoints in existence
    MaxSocket,       \* bound: local ports in use or remembered by the other device
    MaxNet,          \* bound: messages on the wire when a FindService is sent
    repetitions_max, \* repetitions of a FindService
    Scenarios        \* what a behaviour may do, see Scenario

ROUTING == 0          \* VSOMEIP_ROUTING_CLIENT, who subscribes for all but the exclusive
Key == Client \union {ROUTING}
Keys == SetToSortSeq(Key, <) \* order of the maps
Proto == {"tcp", "udp"}
Endpoint == 1..MaxEndpoint
Socket == 1..MaxSocket
nullptr == 0

ASSUME ConstantsAssumption ==
    /\ IsFiniteSet(Service) /\ IsFiniteSet(Client) /\ Client \subseteq Nat \ {0}
    /\ MaxEndpoint \in Nat \ {0} /\ MaxSocket \in Nat \ {0} /\ MaxNet \in Nat \ {0}
    /\ repetitions_max \in 0..254

VARIABLES
    scenario,  \* the surroundings, chosen once
    dev,       \* the device, with the requests and subscriptions of its applications
    srv,       \* the other device
    up,        \* SD messages on their way to the other device
    down,      \* SD messages on their way to the device
    left,      \* calls and faults still to come
    irregular  \* ghost: the races the code leaves open that have happened

vars == <<scenario, dev, srv, up, down, left, irregular>>

\* A scenario names the protocols of each service, the remote port of each
\* service, the clients that use an exclusive proxy, whether the other device
\* supports selective broadcasts, whether the eventgroups have a multicast
\* address, the clients and services there are, whether the initial wait phase
\* ends, how many messages are on the wire when a service is offered, and how often each kind of call or fault may happen.
Budgets == {"request", "release", "subscribe", "unsubscribe", "suspend", "diagnosis",
            "lose", "reset", "crash", "stop", "reject", "expire", "slow"}

protos(s) == scenario.protos[s]
port(s) == scenario.port[s]
Ports == {scenario.port[s] : s \in Service}

NoEndpoint == [proto |-> "none", port |-> 0, state |-> "closed", lport |-> 0,
               stopped |-> FALSE]
NoInfo == [known |-> FALSE, ep |-> [p \in Proto |-> nullptr], requesters |-> {}]
NoSubscription == [exists |-> FALSE, acknowledged |-> TRUE, counter |-> 0,
                   ep |-> [p \in Proto |-> nullptr],
                   established |-> [p \in Proto |-> FALSE]]
NoRequest == [exists |-> FALSE, sent_counter |-> 0]

-----------------------------------------------------------------------------
(* Client endpoints.  "connecting" without a local port: a connect or the  *)
(* connect timer is under way; with one: connected, but the routing        *)
(* manager waits 3 ms before it says so.                                   *)

is_connected(D, i) == D.ep[i].state = "established"

get_local_port(D, i) == IF i = nullptr THEN 0 ELSE D.ep[i].lport

\* start, connect.
start(D, i, p, s) ==
    [D EXCEPT !.ep[i] = [NoEndpoint EXCEPT !.proto = p, !.port = port(s),
                                           !.state = "connecting"]]

restart(D, i) ==
    IF i = nullptr \/ D.ep[i].state = "connecting" THEN D
    ELSE [D EXCEPT !.ep[i].state = "connecting", !.ep[i].lport = 0]

\* stop: the socket is closed, state_ is left as it is.
stop(D, i) ==
    IF i = nullptr THEN D
    ELSE [D EXCEPT !.ep[i].stopped = TRUE, !.ep[i].lport = 0]

set_connected(D, i) == [D EXCEPT !.ep[i].state = "established"]

\* Endpoints someone still points to; the others are gone.
Referenced(D) ==
    UNION {{D.remote_services[s][k][p] : k \in Key} \union
           {D.info[s].ep[p]} \union
           {D.subscribed[s][k].ep[p] : k \in Key} : s \in Service, p \in Proto}
    \union {D.by_ip[q][p] : q \in Ports, p \in Proto}
    \union {t[2] : t \in D.timers}

Collected(D) ==
    [D EXCEPT !.ep = [i \in Endpoint |-> IF i \in Referenced(D) THEN D.ep[i] ELSE NoEndpoint]]

Unused(D) == {i \in Endpoint : D.ep[i] = NoEndpoint}

-----------------------------------------------------------------------------
(* routing_manager_impl: the endpoints of remote services.                 *)

\* requested_services_, by service.
RequestersOf(D, s) == {c \in Client : s \in D.requested_services[c]}

\* The endpoint of an earlier user, or that of another service behind the same
\* remote port, which is then stored for this service as well.
find_remote_client(D, s, p, k) ==
    IF D.remote_services[s][k][p] # nullptr \/ k # ROUTING \/ p \notin D.remote_service_info[s]
    THEN D
    ELSE [D EXCEPT !.remote_services[s][ROUTING][p] = D.by_ip[port(s)][p]]

create_remote_client(D, s, p, k) ==
    IF p \notin D.remote_service_info[s] \/ Unused(D) = {} THEN D
    ELSE LET i == CHOOSE j \in Unused(D) : \A l \in Unused(D) : j <= l
             D1 == [start(D, i, p, s) EXCEPT !.remote_services[s][k][p] = i]
         IN  IF k # ROUTING THEN D1
             ELSE [D1 EXCEPT !.by_ip[port(s)][p] = i,
                             !.info[s].ep[p] = IF D.info[s].known THEN i ELSE @]

find_or_create_remote_client(D, s, p, k) ==
    LET found == find_remote_client(D, s, p, k)
    IN  IF found.remote_services[s][k][p] # nullptr THEN found
        ELSE create_remote_client(found, s, p, k)

\* The clients that ever requested the service exclusively.
get_specific_endpoint_clients(D, s) == D.specific_endpoint_clients[s]

\* An operation for some keys, in the order of the maps.
ForKeys(D, S, Op(_, _)) == FoldLeft(LAMBDA E, k : IF k \in S THEN Op(E, k) ELSE E, D, Keys)

\* Mutant: the endpoint is stopped although another service is reached through it.
clear_client_endpoints_regardless(D, s, p) ==
    LET D1 == [D EXCEPT !.remote_services[s] = [k \in Key |-> [@[k] EXCEPT ![p] = nullptr]]]
    IN  ForKeys(D1, Key, LAMBDA E, k : stop(E, D.remote_services[s][k][p]))

\* The endpoint of all but the exclusive clients lives on while another service
\* is reached through it, those of the exclusive clients are stopped.
clear_client_endpoints(D, s, p) ==
    LET generic == D.remote_services[s][ROUTING][p]
        specific == get_specific_endpoint_clients(D, s)
        D1 == [D EXCEPT !.remote_services[s] =
                   [k \in Key |-> IF k \in specific \union {ROUTING}
                                  THEN [@[k] EXCEPT ![p] = nullptr] ELSE @[k]]]
        shared == \E t \in Service, q \in Proto : D1.remote_services[t][ROUTING][q] = generic
        D2 == IF generic = nullptr \/ shared THEN D1
              ELSE [stop(D1, generic) EXCEPT
                        !.by_ip[port(s)][p] = IF @ = generic THEN nullptr ELSE @]
    IN  ForKeys(D2, specific, LAMBDA E, k : stop(E, D.remote_services[s][k][p]))

\* Server endpoint, multicast_info and service_instances_ of the multicast port.
clear_multicast_endpoints(D, s) ==
    IF s \notin D.multicast.info THEN D
    ELSE [D EXCEPT !.multicast = [info |-> D.multicast.info \ {s},
                                  endpoint |-> FALSE, instances |-> {}]]

\* on_subscribe_ack with a multicast address.
on_subscribe_ack_multicast(D, s) ==
    [D EXCEPT !.multicast = [info |-> D.multicast.info \union {s}, endpoint |-> TRUE,
                             instances |-> IF s \in D.multicast.info THEN @.instances
                                           ELSE @.instances \union {s}]]

\* A service whose other protocol has no endpoint is forgotten, otherwise only
\* the endpoint of this protocol is.
clear_service_info(D, s, p) ==
    IF \E q \in Proto \ {p} : D.info[s].ep[q] # nullptr
    THEN [D EXCEPT !.info[s].ep[p] = nullptr]
    ELSE [D EXCEPT !.info[s] = NoInfo]

clear_identified_clients(D, s) == [D EXCEPT !.identified[s] = [p \in Proto |-> {}]]
clear_identifying_clients(D, s) == [D EXCEPT !.identifying[s] = [p \in Proto |-> {}]]

-----------------------------------------------------------------------------
(* routing_manager_impl: identification of exclusive clients.  Only with   *)
(* selective broadcasts support does a client have to be identified.       *)

supports_selective == scenario.selective

has_identified(D, c, s, p) == ~supports_selective \/ c \in D.identified[s][p]

is_identifying(D, c, s, p) == c \in D.identifying[s][p]

\* Sending on a closed socket fails, and the endpoint connects again.
send_identify_message(D, c, s, p) ==
    LET D1 == find_or_create_remote_client(D, s, p, c)
        i == D1.remote_services[s][c][p]
    IN  IF i = nullptr THEN D1
        ELSE [(IF D1.ep[i].state = "closed" THEN restart(D1, i) ELSE D1)
                EXCEPT !.identifying[s][p] = @ \union {c}]

identify_for_subscribe(D, c, s) ==
    LET Identify(E, p) == IF has_identified(E, c, s, p) \/ is_identifying(E, c, s, p) THEN E
                          ELSE send_identify_message(E, c, s, p)
    IN  Identify(Identify(D, "udp"), "tcp")

-----------------------------------------------------------------------------
(* service_discovery_impl: requests.                                       *)

sd_request_service(D, s) ==
    IF D.requests[s].exists THEN D
    ELSE [D EXCEPT !.requests[s] = [NoRequest EXCEPT !.exists = TRUE]]

sd_release_service(D, s) == [D EXCEPT !.requests[s] = NoRequest]

\* A found service is not searched any more.
sent_counter_to_max(D, s) ==
    IF D.requests[s].exists THEN [D EXCEPT !.requests[s].sent_counter = repetitions_max + 1]
    ELSE D

-----------------------------------------------------------------------------
(* service_discovery_impl: subscriptions.                                  *)

\* Send a message with one entry.
Send(D, m) == [D EXCEPT !.out = Append(@, m)]

Subscribe(s, counter, ttl, pair, opt) ==
    [type |-> "subscribe", service |-> s, counter |-> counter, ttl |-> ttl, pair |-> pair,
     port |-> opt]

\* The options an entry for subscription x would have; {} if the endpoints do
\* not fit the offer type.
EntryProtos(D, s, x) ==
    LET here == {p \in D.offer_type[s] : x.ep[p] # nullptr}
    IN  IF here = D.offer_type[s] THEN {p \in here : get_local_port(D, x.ep[p]) # 0} ELSE {}

EntryPorts(D, s, x) ==
    [p \in Proto |-> IF p \in EntryProtos(D, s, x) THEN get_local_port(D, x.ep[p]) ELSE 0]

\* The entry is sent with the options there are; what is returned says whether
\* the last option (UDP, if offered) was there.
insert_subscription(D, s, x, ttl) ==
    IF EntryProtos(D, s, x) = {} THEN D
    ELSE Send(D, Subscribe(s, x.counter, ttl, FALSE, EntryPorts(D, s, x)))

inserted(D, s, x) ==
    (IF "udp" \in D.offer_type[s] THEN "udp" ELSE "tcp") \in EntryProtos(D, s, x)

\* StopSubscribe and Subscribe in one message, for a subscription that was not
\* acknowledged.
insert_nack_subscription_on_resubscribe(D, s, k) ==
    LET x == D.subscribed[s][k]
        fits == {p \in Proto : x.ep[p] # nullptr} = D.offer_type[s]
        cut == {p \in D.offer_type[s] : x.ep[p] # nullptr /\ ~is_connected(D, x.ep[p])}
    IN  IF ~fits \/ D.offer_type[s] = {} THEN D
        ELSE IF cut # {}
        THEN [D EXCEPT !.subscribed[s][k].established =
                  [p \in Proto |-> @[p] /\ p \notin cut]]
        ELSE IF EntryProtos(D, s, x) # D.offer_type[s] THEN D
        ELSE Send(D, Subscribe(s, x.counter, TRUE, TRUE, EntryPorts(D, s, x)))

get_subscription_endpoints(D, s, k) ==
    find_or_create_remote_client(find_or_create_remote_client(D, s, "tcp", k), s, "udp", k)

\* The endpoints of a subscription are looked up again.
RefreshEndpoints(D, s, k) ==
    LET D1 == get_subscription_endpoints(D, s, k)
    IN  [D1 EXCEPT !.subscribed[s][k].ep = D1.remote_services[s][k]]

\* A subscription of an exclusive client waits until the client is identified.
Unidentified(D, s, k) ==
    /\ k # ROUTING
    /\ \E p \in Proto : D.subscribed[s][k].ep[p] # nullptr /\ ~has_identified(D, k, s, p)

\* The counter tells parallel subscriptions apart (the limit of 16 is out of
\* reach here).
sd_subscribe(D, s, k) ==
    IF D.subscribed[s][k].exists THEN D
    ELSE LET count == Cardinality({j \in Key : D.subscribed[s][j].exists})
             D1 == RefreshEndpoints(
                       [D EXCEPT !.subscribed[s][k] =
                            [NoSubscription EXCEPT !.exists = TRUE, !.counter = count]], s, k)
             x == D1.subscribed[s][k]
             here == {p \in Proto : x.ep[p] # nullptr}
             cut == {p \in here : ~is_connected(D1, x.ep[p])}
         IN  IF here = {} \/ here # D1.offer_type[s] \/ Unidentified(D1, s, k) \/ cut # {}
             THEN D1
             ELSE LET D2 == insert_subscription(D1, s, x, TRUE)
                  IN  [D2 EXCEPT !.subscribed[s][k].acknowledged = D2.out = D1.out]

\* Mutant: the other device is not told.
sd_unsubscribe_silent(D, s, k) == [D EXCEPT !.subscribed[s][k] = NoSubscription]

\* unsubscribe, and unsubscribe_client, for one eventgroup.
sd_unsubscribe(D, s, k) ==
    LET x == D.subscribed[s][k]
    IN  IF ~x.exists THEN D
        ELSE insert_subscription([D EXCEPT !.subscribed[s][k] = NoSubscription], s, x, FALSE)

\* The subscriptions stay, to be sent again with the next offer.
unsubscribe_all(D, s) ==
    [D EXCEPT !.subscribed[s] =
         [k \in Key |-> IF @[k].exists
                        THEN [@[k] EXCEPT !.acknowledged = TRUE, !.ep = NoSubscription.ep]
                        ELSE @[k]]]

\* Mutant: a lost connection is not restarted.
renew_subscription_unconnected(D, s, k) ==
    LET D1 == RefreshEndpoints(D, s, k)
        x == D1.subscribed[s][k]
    IN  IF Unidentified(D1, s, k) THEN D1
        ELSE IF ~x.acknowledged THEN insert_nack_subscription_on_resubscribe(D1, s, k)
        ELSE [insert_subscription(D1, s, x, TRUE)
                  EXCEPT !.subscribed[s][k].acknowledged = ~inserted(D1, s, x)]

\* The part of process_offerservice that renews one subscription.
renew_subscription(D, s, k) ==
    LET D1 == RefreshEndpoints(D, s, k)
        x == D1.subscribed[s][k]
        type == D1.offer_type[s]
        Connected(p) == x.ep[p] # nullptr /\ is_connected(D1, x.ep[p])
        sent == insert_subscription(D1, s, x, TRUE)
    IN  IF Unidentified(D1, s, k) THEN D1
        ELSE IF ~x.acknowledged
        THEN LET D2 == insert_nack_subscription_on_resubscribe(D1, s, k)
             IN  IF Connected("tcp") THEN D2 ELSE restart(D2, x.ep["tcp"])
        ELSE IF \A p \in type : Connected(p)
        THEN [sent EXCEPT !.subscribed[s][k].acknowledged = ~inserted(D1, s, x)]
        ELSE IF "tcp" \in type /\ ~Connected("tcp")
        THEN restart([D1 EXCEPT !.subscribed[s][k].established["tcp"] = FALSE], x.ep["tcp"])
        ELSE D1

Subscribed(D, s) == {k \in Key : D.subscribed[s][k].exists}

\* An endpoint is connected: send the subscriptions that wait for it.  The
\* endpoint is compared with the reliable one for both protocols.
on_endpoint_connected(D, s, i) ==
    LET One(E, k) ==
            LET x == E.subscribed[s][k]
                est == [p \in Proto |->
                           \/ x.established[p]
                           \/ /\ x.ep[p] # nullptr
                              /\ is_connected(E, x.ep[p])
                              /\ x.ep["tcp"] = i]
                here == {p \in Proto : x.ep[p] # nullptr}
                E1 == [E EXCEPT !.subscribed[s][k].established = est]
                E2 == RefreshEndpoints(E1, s, k)
            IN  IF \/ Unidentified(E, s, k)
                   \/ \A p \in Proto : x.established[p]
                THEN E
                ELSE IF here # {} /\ \A p \in here : est[p]
                THEN [insert_subscription(E2, s, E2.subscribed[s][k], TRUE)
                          EXCEPT !.subscribed[s][k].acknowledged = FALSE]
                ELSE E1
    IN  ForKeys(D, Subscribed(D, s), One)

\* An exclusive client is identified for p: its subscription is sent, once it is
\* identified for, and connected to, all there is.
send_subscriptions(D, s, c, p) ==
    LET D1 == get_subscription_endpoints(D, s, c)
        D2 == [D1 EXCEPT !.subscribed[s][c].ep[p] = D1.remote_services[s][c][p]]
        here == {q \in Proto : D1.remote_services[s][c][q] # nullptr}
        linked == \A q \in here : is_connected(D1, D1.remote_services[s][c][q])
        D3 == [D2 EXCEPT !.subscribed[s][c].established =
                   [q \in Proto |-> IF q \in here THEN linked ELSE @[q]]]
        D4 == insert_subscription(D3, s, D3.subscribed[s][c], TRUE)
    IN  IF ~D.subscribed[s][c].exists THEN D
        ELSE IF \/ \E q \in here \ {p} : ~has_identified(D1, c, s, q)
                \/ p \notin here
        THEN D2
        ELSE IF ~linked \/ D4.out = D3.out THEN D3
        ELSE [D4 EXCEPT !.subscribed[s][c].acknowledged = FALSE]

-----------------------------------------------------------------------------
(* routing_manager_impl: what the applications are told.                   *)

is_specific_endpoint_client(D, c, s) == c \in D.specific_endpoint_clients[s]

\* The key a client's subscription goes by.
KeyOf(D, c, s) == IF is_specific_endpoint_client(D, c, s) THEN c ELSE ROUTING

\* The clients an answer to the subscription of key k is for.
Audience(D, s, k) == IF k = ROUTING THEN D.subscribers[s] ELSE {k}

\* on_subscribe_ack and on_subscribe_nack: only a change is passed on.
tell_subscribers(D, s, k, answer) ==
    IF D.subscription_state[s][k] = answer THEN D
    ELSE [D EXCEPT !.subscription_state[s][k] = answer,
                   !.told[s] = [c \in Client |-> IF c \in Audience(D, s, k) THEN answer
                                                 ELSE @[c]]]

on_subscribe_ack(D, s, k) == tell_subscribers(D, s, k, "ack")
on_subscribe_nack(D, s, k) == tell_subscribers(D, s, k, "nack")

\* A later subscriber of an acknowledged eventgroup is told at once.
handle_subscription_state(D, s, c) ==
    LET k == KeyOf(D, c, s)
    IN  CASE D.subscription_state[s][k] = "none" ->
                 [D EXCEPT !.subscription_state[s][k] = "subscribing"]
          [] D.subscription_state[s][k] = "ack" -> [D EXCEPT !.told[s][c] = "ack"]
          [] OTHER -> D

\* stub_->on_offer_service: the service is made known to the applications that
\* requested it, whose proxies then send their subscriptions (again).
on_offer_service(D, s) ==
    [D EXCEPT !.reported = @ \union {s},
              !.commands = @ \union {<<c, s>> : c \in {d \in RequestersOf(D, s) :
                                                           s \in D.pending[d]}}]

\* Mutant: the applications are not told.
on_stop_offer_service_silent(D, s) == D

on_stop_offer_service(D, s) == [D EXCEPT !.reported = @ \ {s}]

-----------------------------------------------------------------------------
(* routing_manager_impl: remote services come and go.                      *)

\* The TCP part of add_routing_info, when the TCP port is new ...
add_reliable(D, s) ==
    LET D1 == [D EXCEPT !.remote_service_info[s] = @ \union protos(s)]
        D2 == IF RequestersOf(D, s) = {} THEN D1
              ELSE [find_or_create_remote_client(D1, s, "tcp", ROUTING)
                        EXCEPT !.info[s].requesters = @ \union RequestersOf(D, s)]
    IN  ForKeys(D2, get_specific_endpoint_clients(D, s),
                LAMBDA E, k : find_or_create_remote_client(E, s, "tcp", k))

\* ... and when it is known: the service counts as available.
confirm_reliable(D, s) ==
    IF RequestersOf(D, s) = {} \/ s \in D.reported THEN D
    ELSE LET D1 == on_offer_service(D, s) IN on_endpoint_connected(D1, s, D1.info[s].ep["tcp"])

\* The UDP part, when the UDP port is new.
add_unreliable(D, s, is_reliable_known, udp_inserted) ==
    LET D1 == IF udp_inserted THEN D
              ELSE [D EXCEPT !.remote_service_info[s] = @ \union {"udp"},
                             !.info[s].requesters = @ \union RequestersOf(D, s)]
        D2 == IF is_reliable_known THEN D1 ELSE on_offer_service(D1, s)
    IN  on_endpoint_connected(D2, s, D2.info[s].ep["udp"])

add_routing_info(D, s) ==
    LET known == D.remote_service_info[s]
        D1 == [D EXCEPT !.info[s].known = TRUE]
        D2 == IF "tcp" \notin protos(s) THEN D1
              ELSE IF "tcp" \in known THEN confirm_reliable(D1, s)
              ELSE add_reliable(D1, s)
    IN  IF "udp" \in protos(s) /\ "udp" \notin known
        THEN add_unreliable(D2, s, "tcp" \in known, "tcp" \in protos(s) /\ "tcp" \notin known)
        ELSE D2

clear_remote_service_info(D, s, p) == [D EXCEPT !.remote_service_info[s] = @ \ {p}]

\* Forget the service as far as it was offered over the protocols ps.
del_routing_info(D, s, ps) ==
    LET all == IF ps = {} THEN Proto ELSE ps
        Clear(E, p) == IF p \in ps THEN clear_client_endpoints(E, s, p) ELSE E
        Drop(E, p) == IF p \in all THEN clear_remote_service_info(E, s, p) ELSE E
        Forget(E, p) == IF p \in all THEN clear_service_info(E, s, p) ELSE E
        D1 == clear_identifying_clients(clear_identified_clients(on_stop_offer_service(D, s), s), s)
        D2 == Drop(Clear(Drop(Clear(D1, "tcp"), "tcp"), "udp"), "udp")
    IN  IF ~D.info[s].known THEN D
        ELSE Forget(Forget(clear_multicast_endpoints(D2, s), "tcp"), "udp")

\* expire_services after a reboot of the other device: the services with an
\* endpoint.
expire_services(D) ==
    FoldLeft(LAMBDA E, s : IF \E p \in Proto : E.info[s].ep[p] # nullptr
                           THEN del_routing_info(unsubscribe_all(E, s), s, Proto) ELSE E,
             D, SetToSeq(Service))

-----------------------------------------------------------------------------
(* routing_manager_impl: calls of the applications.                        *)

requested_service_add(D, c, s) == [D EXCEPT !.requested_services[c] = @ \union {s}]
requested_service_remove(D, c, s) == [D EXCEPT !.requested_services[c] = @ \ {s}]

request_service(D, c, s) ==
    LET exclusive == c \in scenario.exclusive
        D1 == requested_service_add(D, c, s)
        D2 == find_or_create_remote_client(
                  [D1 EXCEPT !.info[s].requesters = @ \union {c}], s, "tcp", ROUTING)
        D3 == IF ~D.info[s].known THEN sd_request_service(D1, s)
              ELSE IF exclusive /\ D2.info[s].ep["tcp"] # nullptr
              THEN find_or_create_remote_client(D2, s, "tcp", c) ELSE D2
        D4 == [D3 EXCEPT !.specific_endpoint_clients[s] =
                   IF exclusive THEN @ \union {c} ELSE @]
    IN  \* the stub makes a known service known to the new requester
        IF s \in D.reported /\ s \in D.pending[c]
        THEN [D4 EXCEPT !.commands = @ \union {<<c, s>>}] ELSE D4

unsubscribe_specific_client_at_sd(D, s, c) ==
    IF is_specific_endpoint_client(D, c, s) THEN sd_unsubscribe(D, s, c) ELSE D

\* What release_service does when nobody else requests the service ...
release_last(D, s) ==
    LET D1 == sd_unsubscribe(sd_release_service(D, s), s, ROUTING)
        D2 == clear_client_endpoints(clear_client_endpoints(D1, s, "tcp"), s, "udp")
    IN  clear_identifying_clients(
            clear_identified_clients([D2 EXCEPT !.info[s].ep = NoInfo.ep], s), s)

\* ... and when somebody does: remove_specific_client_endpoint is called with
\* service, instance and client where it expects client, service and instance,
\* and finds nothing to remove.
release_other(D, c, s) ==
    [D EXCEPT !.identified[s] = [p \in Proto |-> @[p] \ {c}],
              !.identifying[s] = [p \in Proto |-> @[p] \ {c}]]

release_service(D, c, s) ==
    LET D1 == [requested_service_remove(D, c, s) EXCEPT !.info[s].requesters = @ \ {c}]
        D2 == unsubscribe_specific_client_at_sd(D1, s, c)
    IN  IF ~D.info[s].known THEN sd_release_service(D1, s)
        ELSE IF D2.info[s].requesters = {} THEN release_last(D2, s)
        ELSE release_other(D2, c, s)

subscribe(D, c, s) ==
    LET k == KeyOf(D, c, s)
        D1 == IF k # ROUTING /\ supports_selective THEN identify_for_subscribe(D, c, s) ELSE D
        D2 == [D1 EXCEPT !.subscribers[s] = @ \union {c}]
    IN  IF c \in D.subscribers[s] THEN D1
        ELSE sd_subscribe(handle_subscription_state(D2, s, c), s, k)

unsubscribe(D, c, s) ==
    LET k == KeyOf(D, c, s)
        D1 == [D EXCEPT !.subscribers[s] = @ \ {c}, !.told[s][c] = "none"]
        D2 == sd_unsubscribe([D1 EXCEPT !.subscription_state[s][k] = "none"], s, k)
        last_subscriber_removed == D1.subscribers[s] = {}
    IN  clear_multicast_endpoints(
            IF k # ROUTING \/ last_subscriber_removed THEN D2 ELSE D1, s)

-----------------------------------------------------------------------------
(* routing_manager_impl: endpoints, identification, routing state.         *)

\* The services whose shared endpoint i is, in remote_services_.
ReachedThrough(D, i) ==
    {s \in Service : \E p \in Proto : D.remote_services[s][ROUTING][p] = i}

\* A connect succeeded: services reached by TCP are reported, and 3 ms later
\* the service discovery is told.
on_connect(D, i) ==
    LET report == ReachedThrough(D, i)
        D1 == IF D.ep[i].proto # "tcp" THEN D
              ELSE FoldLeft(LAMBDA E, s : IF s \in report THEN on_offer_service(E, s) ELSE E,
                            D, SetToSeq(Service))
    IN  IF report = {} \/ \E s \in report : ~D.info[s].known THEN set_connected(D, i)
        ELSE [D1 EXCEPT !.timers = @ \union {<<s, i>> : s \in report}]

call_sd_endpoint_connected(D, s, i) ==
    on_endpoint_connected([set_connected(D, i) EXCEPT !.timers = @ \ {<<s, i>>}], s, i)

on_identify_response(D, c, s, p) ==
    send_subscriptions([D EXCEPT !.identifying[s][p] = @ \ {c},
                                 !.identified[s][p] = @ \union {c}], s, c, p)

\* set_routing_state(RS_SUSPENDED), for one service.
suspend_service(D, s) ==
    LET keys == get_specific_endpoint_clients(D, s) \union {ROUTING}
        D1 == IF D.subscribers[s] = {} THEN D
              ELSE [ForKeys(D, keys, LAMBDA E, k : sd_unsubscribe(E, s, k))
                        EXCEPT !.subscribers[s] = {}]
    IN  IF ~D.info[s].known THEN D
        ELSE del_routing_info(D1, s, {p \in Proto : D.info[s].ep[p] # nullptr})

suspend(D) ==
    FoldLeft(suspend_service, [D EXCEPT !.is_suspended = TRUE], SetToSeq(Service))

\* set_routing_state(RS_RESUMED): service_discovery_impl::start.
resume(D) ==
    [D EXCEPT !.is_suspended = FALSE,
              !.requests = [s \in Service |-> [@[s] EXCEPT !.sent_counter = 0]]]

-----------------------------------------------------------------------------
(* service_discovery_impl: messages from the other device.                 *)

process_offerservice_serviceentry(D, s) ==
    LET D1 == [sent_counter_to_max(D, s) EXCEPT !.offer_type[s] = protos(s)]
        D2 == add_routing_info(D1, s)
    IN  ForKeys(D2, Subscribed(D2, s), LAMBDA E, k : renew_subscription(E, s, k))

\* A StopOffer: the service entry with TTL 0.
process_stopoffer(D, s) ==
    LET D1 == unsubscribe_all([sent_counter_to_max(D, s) EXCEPT !.offer_type[s] = {}], s)
    IN  IF D.is_diagnosis THEN D1 ELSE del_routing_info(D1, s, protos(s))

\* The first subscription with this counter is told; the connection of the
\* shared one is renewed if it is not acknowledged; an exclusive one is erased.
handle_eventgroup_subscription_nack(D, s, counter) ==
    LET match == {k \in Subscribed(D, s) : D.subscribed[s][k].counter = counter}
        k == CHOOSE k \in match : \A j \in match : k <= j
        x == D.subscribed[s][ROUTING]
        D1 == IF match = {} THEN D ELSE on_subscribe_nack(D, s, k)
        D2 == IF x.exists /\ ~x.acknowledged THEN restart(D1, x.ep["tcp"]) ELSE D1
    IN  IF match = {} \/ k = ROUTING THEN D2
        ELSE [D2 EXCEPT !.subscribed[s][k] = NoSubscription]

handle_eventgroup_subscription_ack(D, s, counter, multicast) ==
    LET One(E, k) ==
            LET E1 == IF E.subscribed[s][k].counter # counter THEN E
                      ELSE on_subscribe_ack(
                               [E EXCEPT !.subscribed[s][k].acknowledged = TRUE], s, k)
            IN  IF multicast THEN on_subscribe_ack_multicast(E1, s) ELSE E1
    IN  ForKeys(D, Subscribed(D, s), One)

\* remove_remote_offer_type_by_ip and expire_services, when a reboot of the
\* other device is detected.
reboot_detected(D) ==
    expire_services([D EXCEPT !.offer_type = [s \in Service |-> {}]])

\* on_message: nothing is looked at while suspended.
on_message(D, m) ==
    LET D1 == IF m.incarnation = D.heard THEN D
              ELSE [(IF D.heard = 0 THEN D ELSE reboot_detected(D))
                        EXCEPT !.heard = m.incarnation]
    IN  IF D.is_suspended THEN D
        ELSE CASE m.type = "offer" -> process_offerservice_serviceentry(D1, m.service)
               [] m.type = "stop" -> process_stopoffer(D1, m.service)
               [] m.type = "ack" -> handle_eventgroup_subscription_ack(
                                        D1, m.service, m.counter, scenario.multicast)
               [] m.type = "nack" -> handle_eventgroup_subscription_nack(
                                        D1, m.service, m.counter)

\* Timers of the find phase: the request they hold is the current one, or one
\* that was released meanwhile, which they keep counting.
find_sent(D, s) ==
    [Send(D, [type |-> "find", service |-> s]) EXCEPT !.requests[s].sent_counter = @ + 1]

on_find_debounce_timer_expired(D) ==
    FoldLeft(LAMBDA E, s : IF D.requests[s].exists /\ D.requests[s].sent_counter = 0
                           THEN [find_sent(E, s) EXCEPT !.finds[s] =
                                     Append(@, [own |-> TRUE, sent_counter |-> 0,
                                                repetition |-> 1])]
                           ELSE E,
             D, SetToSeq(Service))

on_find_repetition_phase_timer_expired(D, s, j) ==
    LET x == D.finds[s][j]
        counter == IF x.own THEN D.requests[s].sent_counter ELSE x.sent_counter
        D1 == [D EXCEPT !.finds[s][j].repetition = @ + 1]
    IN  IF x.repetition > repetitions_max THEN [D EXCEPT !.finds[s] = RemoveAt(@, j)]
        ELSE IF ~D.requests[s].exists \/ counter = repetitions_max + 1 THEN D1
        ELSE IF x.own THEN find_sent(D1, s)
        ELSE [Send(D1, [type |-> "find", service |-> s])
                  EXCEPT !.finds[s][j].sent_counter = @ + 1]

-----------------------------------------------------------------------------
(* The other device: its service discovery answers subscriptions.          *)

\* A TCP connection counts once it is accepted.
is_tcp_connected(S, n) == n \in S.connections

\* The endpoint options do not match the reliability of the events.
reliability_nack(m) == \E p \in protos(m.service) : m.port[p] = 0

\* A reliable option without its connection.
Unconnected(S, m) == m.port["tcp"] # 0 /\ ~is_tcp_connected(S, m.port["tcp"])

\* What is wrong with a Subscribe, if anything.
Refused(S, m) ==
    \/ reliability_nack(m) \/ m.service \notin S.offered
    \/ Unconnected(S, m) \/ m.service \notin S.accepting

Held(m) == {<<m.service, p, m.port[p]>> : p \in {q \in Proto : m.port[q] # 0}}

\* The subscribers after a Subscribe, StopSubscribe or the pair of both.
handle_eventgroup_subscription(S, m) ==
    IF ~m.ttl THEN [S EXCEPT !.subscribers = @ \ Held(m)]
    ELSE IF Refused(S, m) THEN S
    ELSE [S EXCEPT !.subscribers = @ \union Held(m)]

Entry(S, type, s, counter) ==
    <<[type |-> type, service |-> s, counter |-> counter, incarnation |-> S.incarnation]>>

insert_subscription_ack(S, m) == Entry(S, "ack", m.service, m.counter)
insert_subscription_nack(S, m) == Entry(S, "nack", m.service, m.counter)

\* A Find is answered by an offer, a Subscribe by its acknowledgement or the opposite.
Answer(S, m) ==
    IF m.type = "find"
    THEN IF m.service \in S.offered THEN Entry(S, "offer", m.service, 0) ELSE <<>>
    ELSE IF ~m.ttl THEN <<>>
    ELSE IF Refused(S, m) THEN insert_subscription_nack(S, m) ELSE insert_subscription_ack(S, m)

-----------------------------------------------------------------------------
Idle(D) == [D EXCEPT !.out = <<>>]

\* The local ports of the device.
LocalPorts(D) == {D.ep[i].lport : i \in Endpoint} \ {0}

\* The other device loses what goes to a port that was closed: it need not be
\* remembered, see Serve for messages that come from such a port.
Reachable(S, D) ==
    [S EXCEPT !.backlog = @ \intersect LocalPorts(D),
              !.connections = @ \intersect LocalPorts(D),
              !.subscribers = {h \in @ : h[3] \in LocalPorts(D)}]

\* The device takes a step that ends in D.
Step(D) ==
    \E E \in {Collected(D)} :
        /\ dev' = Idle(E)
        /\ up' = up \o E.out
        /\ srv' = Reachable(srv, E)
        /\ UNCHANGED scenario

Spend(b) == left[b] > 0 /\ left' = [left EXCEPT ![b] = @ - 1]

Mark(tags) == irregular' = irregular \union tags

\* A second service loses the multicast endpoint as well.
Deaf(D) == IF dev.multicast.endpoint /\ ~D.multicast.endpoint /\ D.multicast.info # {}
           THEN {"deaf"} ELSE {}

Request(c, s) ==
    /\ c \in scenario.clients /\ s \in scenario.services \ dev.requested_services[c]
    /\ Spend("request")
    /\ Step(request_service(dev, c, s))
    /\ UNCHANGED <<down, irregular>>

\* Races of a release: the eventgroup is not unsubscribed before; a service that
\* is not there is not searched any more although others request it; a find
\* timer is running.
Release(c, s) ==
    /\ s \in dev.requested_services[c]
    /\ <<c, s>> \notin dev.commands
    /\ Spend("release")
    /\ \E D \in {release_service(dev, c, s)} :
          LET D1 == IF D.requests[s].exists THEN D
                    ELSE [D EXCEPT !.finds[s] =
                             [j \in DOMAIN @ |-> IF @[j].own
                                 THEN [@[j] EXCEPT !.own = FALSE,
                                                   !.sent_counter = dev.requests[s].sent_counter]
                                 ELSE @[j]]]
          IN  /\ Step([D1 EXCEPT !.pending[c] = @ \ {s}])
              /\ Mark((IF c \in dev.subscribers[s] THEN {"abandoned"} ELSE {}) \union Deaf(D))
    /\ UNCHANGED down

\* The proxy remembers the subscription and sends it if it knows the service.
SubscribeCall(c, s) ==
    /\ s \in dev.requested_services[c] /\ s \notin dev.pending[c]
    /\ Spend("subscribe")
    /\ Step([dev EXCEPT !.pending[c] = @ \union {s},
                        !.commands = IF s \in dev.reported THEN @ \union {<<c, s>>} ELSE @])
    /\ UNCHANGED <<down, irregular>>

\* Counters of other subscriptions and of entries on the wire: an answer cannot
\* be told apart from one to a new subscription that uses the same counter.
CountersInUse(s) ==
    {dev.subscribed[s][k].counter : k \in Subscribed(dev, s)}
    \union {up[i].counter : i \in {j \in DOMAIN up : up[j].type = "subscribe"
                                                   /\ up[j].service = s}}
    \union {down[i].counter : i \in {j \in DOMAIN down : down[j].type \in {"ack", "nack"}
                                                       /\ down[j].service = s}}

\* The SUBSCRIBE command of a proxy arrives.
HandleSubscribe(c, s) ==
    /\ <<c, s>> \in dev.commands
    /\ \E D \in {subscribe([dev EXCEPT !.commands = @ \ {<<c, s>>}], c, s)} :
          LET kinds == {KeyOf(dev, d, s) = ROUTING : d \in D.subscribers[s]}
              new == Subscribed(D, s) \ Subscribed(dev, s)
          IN  /\ Step(D)
              /\ Mark((IF kinds = BOOLEAN THEN {"mixed"} ELSE {})
                      \union (IF \E k \in new : D.subscribed[s][k].counter \in CountersInUse(s)
                              THEN {"collided"} ELSE {}))
    /\ UNCHANGED <<down, left>>

UnsubscribeCall(c, s) ==
    /\ s \in dev.pending[c] /\ <<c, s>> \notin dev.commands
    /\ Spend("unsubscribe")
    /\ \E D \in {unsubscribe([dev EXCEPT !.pending[c] = @ \ {s}], c, s)} :
          Step(D) /\ Mark(Deaf(D))
    /\ UNCHANGED down

Suspend ==
    /\ ~dev.is_suspended
    /\ Spend("suspend")
    /\ \E D \in {suspend(dev)} : Step(D) /\ Mark(Deaf(D))
    /\ UNCHANGED down

Resume ==
    /\ dev.is_suspended
    /\ Step(resume(dev))
    /\ UNCHANGED <<down, left, irregular>>

\* set_routing_state(RS_DIAGNOSIS) and back to RS_RUNNING.
Diagnosis ==
    /\ \/ ~dev.is_diagnosis /\ Spend("diagnosis")
       \/ dev.is_diagnosis /\ UNCHANGED left
    /\ Step([dev EXCEPT !.is_diagnosis = ~@])
    /\ UNCHANGED <<down, irregular>>

FindDebounce ==
    /\ scenario.find
    /\ \E s \in Service : dev.requests[s].exists /\ dev.requests[s].sent_counter = 0
    /\ Len(up) < MaxNet
    /\ Step(on_find_debounce_timer_expired(dev))
    /\ UNCHANGED <<down, left, irregular>>

FindRepetition(s) ==
    /\ Len(up) < MaxNet
    /\ \E j \in DOMAIN dev.finds[s] : Step(on_find_repetition_phase_timer_expired(dev, s, j))
    /\ UNCHANGED <<down, left, irregular>>

-----------------------------------------------------------------------------
(* Connections.                                                            *)

SocketsInUse ==
    LocalPorts(dev)
    \union UNION {{up[i].port[p] : p \in Proto} :
                      i \in {j \in DOMAIN up : up[j].type = "subscribe"}}

Connecting(i) == dev.ep[i].state = "connecting" /\ dev.ep[i].lport = 0

\* The peer accepts the connection later; a UDP socket needs no peer.
ConnectOk(i) ==
    /\ Connecting(i)
    /\ srv.up \/ dev.ep[i].proto = "udp"
    /\ Socket \ SocketsInUse # {}
    /\ LET n == CHOOSE m \in Socket \ SocketsInUse : \A l \in Socket \ SocketsInUse : m <= l
           D == on_connect([dev EXCEPT !.ep[i].lport = n], i)
       IN  /\ dev' = Idle(Collected(D))
           /\ srv' = IF dev.ep[i].proto = "udp" THEN srv
                     ELSE [srv EXCEPT !.backlog = @ \union {n}]
    /\ UNCHANGED <<scenario, up, down, left, irregular>>

\* The 3 ms after a connect are over, whatever became of the connection.
EndpointConnected(s, i) ==
    /\ <<s, i>> \in dev.timers
    /\ Step(call_sd_endpoint_connected(dev, s, i))
    /\ UNCHANGED <<down, left, irregular>>

\* receive_cbk finds the connection closed by the peer.
ReceiveError(i) ==
    /\ dev.ep[i].proto = "tcp" /\ dev.ep[i].lport # 0
    /\ dev.ep[i].lport \notin srv.backlog \union srv.connections
    /\ Step([dev EXCEPT !.ep[i].state = "closed", !.ep[i].lport = 0])
    /\ Mark(IF \E c \in Client, s \in Service : c \in dev.identifying[s]["tcp"]
                                               /\ dev.remote_services[s][c]["tcp"] = i
            THEN {"unanswered"} ELSE {})
    /\ UNCHANGED <<down, left>>

IdentifyResponse(c, s, p) ==
    /\ c \in dev.identifying[s][p]
    /\ dev.remote_services[s][c][p] # nullptr
    /\ is_connected(dev, dev.remote_services[s][c][p])
    /\ srv.up
    /\ Step(on_identify_response(dev, c, s, p))
    /\ UNCHANGED <<down, left, irregular>>

-----------------------------------------------------------------------------
(* The network and the other device.                                       *)

OnMessage ==
    /\ down # <<>>
    /\ \E D \in {on_message(dev, Head(down))} :
          LET gone == \E s \in Service : Subscribed(dev, s) # Subscribed(D, s)
          IN  Step(D) /\ Mark(Deaf(D) \union IF gone THEN {"erased"} ELSE {})
    /\ down' = Tail(down)
    /\ UNCHANGED left

Offering(s) == srv.up /\ s \in srv.offered

\* An offer of s is on its way.
OfferUnderWay(s) == \E i \in DOMAIN down : down[i].type = "offer" /\ down[i].service = s

\* update_routing_info: no offer was received in time.
Expire(s) ==
    /\ dev.info[s].known /\ ~dev.is_suspended
    /\ \/ ~Offering(s) /\ ~OfferUnderWay(s) /\ UNCHANGED left
       \/ Spend("expire")
    /\ \E D \in {del_routing_info(unsubscribe_all(dev, s), s, Proto)} :
          Step(D) /\ Mark(Deaf(D))
    /\ UNCHANGED down

LoseUp ==
    /\ up # <<>> /\ Spend("lose")
    /\ up' = Tail(up)
    /\ UNCHANGED <<scenario, dev, srv, down, irregular>>

LoseDown ==
    /\ down # <<>> /\ Spend("lose")
    /\ down' = Tail(down)
    /\ UNCHANGED <<scenario, dev, srv, up, irregular>>

\* The cyclic offer of the other device.
Offer(s) ==
    /\ Offering(s)
    /\ Len(up) + Len(down) < scenario.net
    /\ ~OfferUnderWay(s)
    /\ down' = down \o Entry(srv, "offer", s, 0)
    /\ UNCHANGED <<scenario, dev, srv, up, left, irregular>>

\* The other device stops offering a service, and forgets its subscribers.
StopOffer(s) ==
    /\ Offering(s) /\ Spend("stop")
    /\ srv' = [srv EXCEPT !.offered = @ \ {s},
                          !.subscribers = {h \in @ : h[1] # s}]
    /\ down' = down \o Entry(srv, "stop", s, 0)
    /\ UNCHANGED <<scenario, dev, up, irregular>>

StartOffer(s) ==
    /\ srv.up /\ s \in scenario.services \ srv.offered
    /\ srv' = [srv EXCEPT !.offered = @ \union {s}]
    /\ UNCHANGED <<scenario, dev, up, down, left, irregular>>

\* Its application accepts or rejects the subscriptions to s from now on.
Decide(s) ==
    /\ \/ s \in srv.accepting /\ Spend("reject")
       \/ s \notin srv.accepting /\ UNCHANGED left
    /\ srv' = [srv EXCEPT !.accepting = IF s \in @ THEN @ \ {s} ELSE @ \union {s}]
    /\ UNCHANGED <<scenario, dev, up, down, irregular>>

Crash ==
    /\ srv.up /\ Spend("crash")
    /\ srv' = [srv EXCEPT !.up = FALSE, !.backlog = {}, !.connections = {}, !.subscribers = {}]
    /\ UNCHANGED <<scenario, dev, up, down, irregular>>

Restart ==
    /\ ~srv.up
    /\ srv' = [srv EXCEPT !.up = TRUE, !.incarnation = @ + 1]
    /\ UNCHANGED <<scenario, dev, up, down, left, irregular>>

Accept(n) ==
    /\ n \in srv.backlog
    /\ srv' = [srv EXCEPT !.backlog = @ \ {n}, !.connections = @ \union {n}]
    /\ UNCHANGED <<scenario, dev, up, down, left, irregular>>

\* The other device, or the network, breaks a connection.
Reset(n) ==
    /\ n \in srv.connections /\ Spend("reset")
    /\ srv' = [srv EXCEPT !.connections = @ \ {n}]
    /\ UNCHANGED <<scenario, dev, up, down, irregular>>

\* The ports the device renews subscription h from.
Renewed(h) ==
    \E k \in Key : LET x == dev.subscribed[h[1]][k]
                   IN  x.exists /\ x.ep[h[2]] # nullptr /\ dev.ep[x.ep[h[2]]].lport = h[3]

\* A subscription that is not renewed expires.
Lapse(h) ==
    /\ h \in srv.subscribers /\ ~Renewed(h)
    /\ srv' = [srv EXCEPT !.subscribers = @ \ {h}]
    /\ UNCHANGED <<scenario, dev, up, down, left, irregular>>

\* A Subscribe overtakes the connection it needs.  The 3 ms the device waits
\* after a connect are meant to exclude this; it happens a bounded number of times.
Early(m) == m.type = "subscribe" /\ m.ttl /\ m.port["tcp"] \in srv.backlog

\* A Subscribe comes from a port that is closed meanwhile, which the other device
\* may know or not.
Outdated(m) == m.type = "subscribe" /\ m.ttl /\ m.port["tcp"] \notin LocalPorts(dev) \union {0}

\* on_message of the other device.
Serve ==
    /\ up # <<>>
    /\ up' = Tail(up)
    /\ IF Early(Head(up)) THEN Spend("slow") ELSE UNCHANGED left
    /\ LET m == Head(up)
       IN  \E S \in {srv} \union
                     (IF Outdated(m)
                      THEN {[srv EXCEPT !.connections = @ \union {m.port["tcp"]}]} ELSE {}) :
              /\ down' = IF srv.up THEN down \o Answer(S, m) ELSE down
              /\ srv' = IF srv.up /\ m.type = "subscribe"
                        THEN Reachable(handle_eventgroup_subscription(S, m), dev) ELSE srv
    /\ UNCHANGED <<scenario, dev, irregular>>

-----------------------------------------------------------------------------
Init ==
    /\ scenario \in Scenarios
    /\ dev = [ep |-> [i \in Endpoint |-> NoEndpoint],
              info |-> [s \in Service |-> NoInfo],
              remote_service_info |-> [s \in Service |-> {}],
              remote_services |-> [s \in Service |-> [k \in Key |-> [p \in Proto |-> nullptr]]],
              by_ip |-> [q \in Ports |-> [p \in Proto |-> nullptr]],
              timers |-> {},
              subscribed |-> [s \in Service |-> [k \in Key |-> NoSubscription]],
              offer_type |-> [s \in Service |-> {}],
              subscription_state |-> [s \in Service |-> [k \in Key |-> "none"]],
              subscribers |-> [s \in Service |-> {}],
              told |-> [s \in Service |-> [c \in Client |-> "none"]],
              requested_services |-> [c \in Client |-> {}],
              specific_endpoint_clients |-> [s \in Service |-> {}],
              identifying |-> [s \in Service |-> [p \in Proto |-> {}]],
              identified |-> [s \in Service |-> [p \in Proto |-> {}]],
              reported |-> {},
              pending |-> [c \in Client |-> {}],
              commands |-> {},
              requests |-> [s \in Service |-> NoRequest],
              finds |-> [s \in Service |-> <<>>],
              multicast |-> [info |-> {}, endpoint |-> FALSE, instances |-> {}],
              is_suspended |-> FALSE, is_diagnosis |-> FALSE,
              heard |-> 0, out |-> <<>>]
    /\ srv = [up |-> TRUE, incarnation |-> 1, offered |-> scenario.services, accepting |-> Service,
              backlog |-> {}, connections |-> {}, subscribers |-> {}]
    /\ up = <<>>
    /\ down = <<>>
    /\ left = scenario.left
    /\ irregular = {}

Calls ==
    \/ \E c \in Client, s \in Service :
          \/ Request(c, s) \/ Release(c, s) \/ SubscribeCall(c, s) \/ UnsubscribeCall(c, s)
          \/ HandleSubscribe(c, s)
    \/ Suspend \/ Resume \/ Diagnosis

Device ==
    \/ FindDebounce
    \/ \E s \in Service : FindRepetition(s) \/ Expire(s)
    \/ \E i \in Endpoint : ConnectOk(i) \/ ReceiveError(i)
    \/ \E s \in Service, i \in Endpoint : EndpointConnected(s, i)
    \/ \E c \in Client, s \in Service, p \in Proto : IdentifyResponse(c, s, p)
    \/ OnMessage

Peer ==
    \/ LoseUp \/ LoseDown
    \/ \E s \in Service : Offer(s) \/ StopOffer(s) \/ StartOffer(s) \/ Decide(s)
    \/ Crash \/ Restart
    \/ \E n \in Socket : Accept(n) \/ Reset(n)
    \/ \E h \in srv.subscribers : Lapse(h)
    \/ Serve

Next == Calls \/ Device \/ Peer

Spec == Init /\ [][Next]_vars

\* What is on the wire arrives, commands are handled, timers expire, connects
\* end, the other device accepts connections, notices broken ones and lets
\* subscriptions expire; suspension, diagnosis and crashes end.  An offered
\* service is offered again and again.
Fairness ==
    /\ []<>(up = <<>>) /\ []<>(down = <<>>)
    /\ []<>(dev.commands = {}) /\ []<>(dev.timers = {})
    /\ []<>(\A i \in Endpoint : ~(Connecting(i) /\ (srv.up \/ dev.ep[i].proto = "udp")))
    /\ []<>(\A i \in Endpoint : dev.ep[i].proto = "tcp" /\ dev.ep[i].lport # 0 =>
                dev.ep[i].lport \in srv.backlog \union srv.connections)
    /\ []<>(\A c \in Client, s \in Service, p \in Proto :
                c \in dev.identifying[s][p] /\ dev.remote_services[s][c][p] # nullptr =>
                    ~is_connected(dev, dev.remote_services[s][c][p]))
    /\ []<>(\A s \in Service : ~dev.info[s].known \/ Offering(s) \/ OfferUnderWay(s))
    /\ []<>(srv.backlog = {})
    /\ []<>(\A h \in srv.subscribers : Renewed(h))
    /\ []<>srv.up /\ []<>(~dev.is_suspended) /\ []<>(~dev.is_diagnosis)
    /\ \A s \in Service : []<>(~Offering(s) \/ OfferUnderWay(s))

FairSpec == Spec /\ Fairness

-----------------------------------------------------------------------------
(* Properties.                                                             *)

EndpointRecord ==
    [proto : Proto \union {"none"}, port : Nat, state : {"closed", "connecting", "established"},
     lport : 0..MaxSocket, stopped : BOOLEAN]

SubscriptionRecord ==
    [exists : BOOLEAN, acknowledged : BOOLEAN, counter : 0..15,
     ep : [Proto -> 0..MaxEndpoint], established : [Proto -> BOOLEAN]]

TypeOK ==
    /\ dev.ep \in [Endpoint -> EndpointRecord]
    /\ \A s \in Service, k \in Key : dev.subscribed[s][k] \in SubscriptionRecord
    /\ dev.subscription_state \in [Service -> [Key -> {"none", "subscribing", "ack", "nack"}]]
    /\ dev.told \in [Service -> [Client -> {"none", "ack", "nack"}]]
    /\ \A s \in Service : dev.info[s].requesters \subseteq Client
                          /\ (~dev.info[s].known => dev.info[s] = NoInfo)
    /\ \A s \in Service : dev.requests[s].sent_counter \in 0..(repetitions_max + 1)
    /\ dev.timers \subseteq Service \X Endpoint
    /\ dev.multicast.instances \subseteq Service
    /\ srv.subscribers \subseteq Service \X Proto \X Socket
    /\ left \in [Budgets -> Nat]

Excused(tags) == irregular \intersect tags # {}

\* No endpoint outlives its services, and no subscription or route refers to an
\* endpoint that was stopped (clear_client_endpoints, shared endpoints included):
\* whatever is stored for a service, its info or a subscription is running, a
\* subscription uses what is stored for its service, and an endpoint kept for
\* reuse is one some service is reached through.
EndpointsAgree ==
    /\ \A s \in Service, k \in Key, p \in Proto :
          LET i == dev.remote_services[s][k][p]
              j == dev.subscribed[s][k].ep[p]
          IN  /\ i # nullptr => ~dev.ep[i].stopped /\ dev.ep[i].proto = p
              /\ j # nullptr => j = i
    /\ \A s \in Service, p \in Proto :
          dev.info[s].ep[p] # nullptr => dev.info[s].ep[p] = dev.remote_services[s][ROUTING][p]
    /\ \A q \in Ports, p \in Proto :
          dev.by_ip[q][p] # nullptr =>
              \E s \in Service : dev.remote_services[s][ROUTING][p] = dev.by_ip[q][p]

\* A known service counts exactly the clients that request it as requesters
\* (request_service, add_routing_info, release_service), so that its endpoints
\* are given up with the last of them, and not before.
RequestersAgree ==
    \A s \in Service : dev.info[s].known => dev.info[s].requesters = RequestersOf(dev, s)

\* A subscriber has been told of the acknowledgement of its eventgroup, whether
\* it subscribed before or after it came (on_subscribe_ack, handle_subscription_state).
AckIsTold ==
    \A s \in Service, c \in Client :
        c \in dev.subscribers[s] /\ dev.subscription_state[s][KeyOf(dev, c, s)] = "ack"
            => dev.told[s][c] = "ack" \/ Excused({"mixed"})

\* A service that is known is not searched (process_offerservice_serviceentry,
\* request_service).
KnownIsNotSought ==
    \A s \in Service :
        dev.info[s].known /\ dev.requests[s].exists
            => dev.requests[s].sent_counter = repetitions_max + 1

\* What the device keeps of a service agrees: its endpoints, its requesters and
\* its search, with endpoints shared between services.
TablesAgree == TypeOK /\ EndpointsAgree /\ RequestersAgree /\ KnownIsNotSought

\* Once the StopSubscribe is delivered, the other device sends events only to
\* ports of the device that a subscription still exists for (unsubscribe,
\* release_service, suspend).
HeldIsWanted ==
    up = <<>> /\ left["lose"] = scenario.left["lose"] =>
        \A h \in srv.subscribers :
            Subscribed(dev, h[1]) # {} \/ Excused({"collided", "erased"})

\* Subscribers, device and other device agree on a subscription: the answer is
\* passed on, and the end too.
SubscriptionsAgree == AckIsTold /\ HeldIsWanted

Wanted(c, s) ==
    /\ s \in dev.requested_services[c] /\ s \in dev.pending[c]
    /\ Offering(s) /\ s \in srv.accepting

\* The other device holds the subscription made for client c.
Holding(c, s) ==
    LET x == dev.subscribed[s][KeyOf(dev, c, s)]
    IN  /\ x.exists
        /\ \A p \in protos(s) : x.ep[p] # nullptr
                                /\ <<s, p, dev.ep[x.ep[p]].lport>> \in srv.subscribers

\* The connection broke in the 3 ms after the connect, and was declared
\* established nevertheless: no subscription is sent from it, and it is not restarted.
DeadConnection(c, s) ==
    LET i == dev.subscribed[s][KeyOf(dev, c, s)].ep["tcp"]
    IN  i # nullptr /\ is_connected(dev, i) /\ dev.ep[i].lport = 0

\* A rejected subscription of an exclusive client is given up.
GivenUp(c, s) == KeyOf(dev, c, s) # ROUTING /\ dev.subscription_state[s][c] = "nack"

\* A subscription to an offered service is in place again and again: lost
\* messages, refused or broken connections, reboots, expired offers and
\* suspension are all recovered from with the next offers (process_offerservice_serviceentry,
\* on_endpoint_connected, handle_eventgroup_subscription_nack).
Served ==
    \A c \in Client, s \in Service :
        []<>(Wanted(c, s) => \/ Holding(c, s) /\ dev.told[s][c] = "ack"
                             \/ DeadConnection(c, s) \/ GivenUp(c, s)
                             \/ Excused({"abandoned", "mixed", "unanswered"}))

\* What the applications know of a service follows the other device: an offered
\* and requested service is reported, a withdrawn one is not, whether it was
\* withdrawn by a StopOffer or its offer expired.
Reported ==
    \A s \in Service :
        /\ []<>(Offering(s) /\ RequestersOf(dev, s) # {} => s \in dev.reported)
        /\ []<>(s \in dev.reported => Offering(s))

\* Events sent by multicast reach a service that is subscribed
\* (on_subscribe_ack, clear_multicast_endpoints).
Heard ==
    \A c \in Client, s \in Service :
        []<>(scenario.multicast /\ "udp" \in protos(s) /\ Wanted(c, s)
                => s \in dev.multicast.instances \/ Excused({"abandoned", "mixed", "deaf"}))

\* A wanted subscription is in place and its events arrive, again and again.
SubscriptionsServed == Served /\ Heard
=============================================================================
