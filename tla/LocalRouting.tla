---------------------------- MODULE LocalRouting ----------------------------
(***************************************************************************)
(* Local routing: one routing manager host (routing_manager_impl and       *)
(* routing_manager_stub, record rm) and the applications of other          *)
(* processes (routing_manager_proxy, records px), connected by local       *)
(* stream sockets.  The applications register, offer, stop offering and    *)
(* request one service instance; the host decides whose offer counts,      *)
(* tells requesters and hosters about each other, pings, and cleans up     *)
(* after applications that left or died.                                   *)
(*                                                                         *)
(* An operator named after a method takes the record of its object and     *)
(* returns the record the method leaves behind.                            *)
(***************************************************************************)
EXTENDS Integers, SequencesExt, FiniteSets

CONSTANTS
    Clients,     \* identifiers of the applications of other processes
    HostClient,  \* identifier of the application in the host's process
    Versions,    \* versions (major, minor) the service is offered in
    Scenarios,   \* configurations and bounds, see scenario
    MaxQueue,    \* bound: pings and registrations waiting when the watchdog pings
    AllowedMissingPongs

ASSUME ConstantsAssumption ==
    /\ Clients \subseteq Nat \ {0} /\ HostClient \in Nat \ ({0} \union Clients)
    /\ Versions \subseteq Nat \ {0}
    /\ MaxQueue \in Nat /\ AllowedMissingPongs \in Nat

VARIABLES
    rm,        \* the routing manager host
    px,        \* the proxy of each client
    used_ids,  \* client identifiers marked as used in shared memory
    scenario,  \* configuration: network ("off": no service discovery; else the service
               \* has a port, "remote", or not, "local"), watchdog, debouncing clients;
               \* who offers which versions and who requests; bounds: calls, starts of an application,
               \* faults and their kinds ("crash", "host", "late")
    calls,     \* counters of calls and faults
    faults,
    irregular  \* ghost: what happened that the guarantees below except

vars == <<rm, px, used_ids, scenario, calls, faults, irregular>>

Ids == Clients \union {HostClient}
NoVersion == -1
DefaultVersion == 0   \* DEFAULT_MAJOR, DEFAULT_MINOR
NoService == [version |-> NoVersion, client |-> 0]
NoOffer == [version |-> NoVersion, client |-> 0, old |-> 0]

Connected == {"connecting", "up"}

\* Commands and routing info entries.
Command(type, v) == [type |-> type, version |-> v]
Entry(type, client, v) == [type |-> type, client |-> client, version |-> v]
PING == Entry("PING", 0, NoVersion)

Ascending(S) == SetToSortSeq(S, <)

-----------------------------------------------------------------------------
(* The proxy.                                                              *)

routing_manager_proxy ==
    [process |-> "off", starts |-> 0, is_started_ |-> FALSE, is_connected_ |-> FALSE,
     state_ |-> "DEREGISTERED", sender_ |-> "none", receiver_ |-> FALSE,
     stopping |-> "no", register_application_timer_ |-> FALSE,
     pending_offers_ |-> NoVersion, requests_ |-> FALSE,
     requests_to_debounce_ |-> FALSE, request_debounce_timer_ |-> FALSE,
     local_services_ |-> NoService, known_clients_ |-> {},
     unsent |-> <<>>, sent |-> <<>>]

\* A command waits in the endpoint until the endpoint is connected; one that is
\* sent over a connection the host has closed is lost.
send(p, m) ==
    IF p.sender_ = "up" THEN [p EXCEPT !.sent = Append(@, m)]
    ELSE IF p.sender_ = "connecting" THEN [p EXCEPT !.unsent = Append(@, m)]
    ELSE p

send_offer_service(p, v) == send(p, Command("OFFER", v))

\* start: also after a stop, which deleted receiver_ and sender_.
start(p) ==
    [p EXCEPT !.is_started_ = TRUE, !.receiver_ = TRUE, !.sender_ = "connecting",
              !.starts = @ + 1]

offer_service(p, v) ==
    LET told == IF p.state_ = "REGISTERED" THEN send_offer_service(p, v) ELSE p
    IN  IF p.pending_offers_ = NoVersion
        THEN [told EXCEPT !.pending_offers_ = v] ELSE told

stop_offer_service(p, v) ==
    LET told == IF p.state_ = "REGISTERED" THEN send(p, Command("STOP_OFFER", v)) ELSE p
    IN  [told EXCEPT !.pending_offers_ = NoVersion]

send_request_services(p) == send(p, Command("REQUEST", NoVersion))

request_service(p, debounced) ==
    IF debounced
    THEN [p EXCEPT !.requests_to_debounce_ = TRUE, !.request_debounce_timer_ = TRUE]
    ELSE [IF p.state_ = "REGISTERED" THEN send_request_services(p) ELSE p
             EXCEPT !.requests_ = TRUE]

\* release_service: the loop that looks for the debounced request runs to the
\* end of the set, so that request stays.  The command sent to the host leaves
\* the routing info and the requests the stub remembers alone.
release_service(p) == [p EXCEPT !.requests_ = FALSE]

request_debounce_timeout_cbk(p) ==
    IF p.requests_to_debounce_ /\ p.state_ # "REGISTERED"
    THEN p
    ELSE [IF p.requests_to_debounce_ THEN send_request_services(p) ELSE p
             EXCEPT !.requests_ = @ \/ p.requests_to_debounce_,
                    !.requests_to_debounce_ = FALSE,
                    !.request_debounce_timer_ = FALSE]

register_application(p) ==
    [send(p, Command("REGISTER", NoVersion))
        EXCEPT !.state_ = "REGISTERING", !.register_application_timer_ = TRUE]

deregister_application(p) ==
    IF p.is_connected_ THEN send(p, Command("DEREGISTER", NoVersion)) ELSE p

\* connect_cbk of the sender and on_connect: what waited in the endpoint goes
\* out after the registration was queued behind it.
on_connect(p) ==
    LET r == [p EXCEPT !.is_connected_ = TRUE]
        q == IF p.is_started_ THEN register_application(r) ELSE r
    IN  [q EXCEPT !.sender_ = "up", !.sent = @ \o q.unsent, !.unsent = <<>>]

on_disconnect(p) == [p EXCEPT !.is_connected_ = FALSE]

send_pong(p) == IF p.is_connected_ THEN send(p, Command("PONG", NoVersion)) ELSE p

send_pending_commands(p) ==
    LET offered == IF p.pending_offers_ # NoVersion
                   THEN send_offer_service(p, p.pending_offers_) ELSE p
    IN  IF p.requests_ THEN send_request_services(offered) ELSE offered

\* routing_manager_base::remove_local, as far as the proxy's services go.
forget_services_of(p, clients) ==
    IF p.local_services_.client \in clients
    THEN [p EXCEPT !.local_services_ = NoService] ELSE p

\* The acknowledgement (send_registered_ack) is only logged by the stub.
on_add_client(p, c, its_client) ==
    LET q == [p EXCEPT !.known_clients_ = @ \union {its_client}]
    IN  IF its_client = c
        THEN [send_pending_commands(q)
                 EXCEPT !.state_ = "REGISTERED", !.register_application_timer_ = FALSE]
        ELSE q

on_del_client(p, c, its_client) ==
    LET q == [p EXCEPT !.known_clients_ = @ \ {its_client}]
    IN  IF its_client = c THEN [q EXCEPT !.state_ = "DEREGISTERED"]
                          ELSE forget_services_of(q, {its_client})

\* The entry's client is not compared with the one the service is known from.
on_del_service(p, e) == [p EXCEPT !.local_services_ = NoService]

on_add_service(p, e) ==
    [p EXCEPT !.known_clients_ = @ \union {e.client},
              !.local_services_ = [version |-> e.version, client |-> e.client]]

on_routing_info(p, c, e) ==
    CASE e.type = "ADD_CLIENT" -> on_add_client(p, c, e.client)
      [] e.type = "DEL_CLIENT" -> on_del_client(p, c, e.client)
      [] e.type = "ADD_SERVICE" -> on_add_service(p, e)
      [] e.type = "DEL_SERVICE" -> on_del_service(p, e)

\* local_client_endpoint_impl::restart: a connection that is being established
\* is left alone, otherwise the queue is cleared and the socket connects anew.
restart(p) ==
    IF p.sender_ \in {"up", "broken"}
    THEN [p EXCEPT !.sender_ = "connecting", !.unsent = <<>>] ELSE p

\* Mutant: the connection is not set up again.
reconnect_without_restart(p) ==
    [forget_services_of(p, p.known_clients_) EXCEPT !.state_ = "DEREGISTERED"]

reconnect(p) ==
    restart([forget_services_of(p, p.known_clients_) EXCEPT !.state_ = "DEREGISTERED"])

handle_client_error_proxy(p) == IF p.is_started_ THEN reconnect(p) ELSE p

register_application_timeout_cbk(p) ==
    LET q == [p EXCEPT !.register_application_timer_ = FALSE]
    IN  IF p.state_ # "REGISTERED" THEN restart([q EXCEPT !.state_ = "DEREGISTERED"]) ELSE q

\* stop, after waiting: receiver and sender are deleted, the endpoints to other
\* clients removed (with what was known of their services), state_ stays.
finish_stop(p, has_endpoint) ==
    [IF has_endpoint THEN forget_services_of(p, Ids) ELSE p
        EXCEPT !.is_started_ = FALSE, !.request_debounce_timer_ = FALSE,
               !.receiver_ = FALSE, !.sender_ = "none", !.unsent = <<>>,
               !.stopping = "no"]

-----------------------------------------------------------------------------
(* The host: routing_manager_stub and routing_manager_impl.                *)

NoInfo == [known |-> FALSE, pongs |-> 0, version |-> NoVersion]

\* A host that was just started: used_client_ids_ is read from shared memory.
routing_manager_stub(watchdog) ==
    [running |-> TRUE,
     routing_info_ |-> [c \in Ids |-> [NoInfo EXCEPT !.known = (c = HostClient)]],
     connection_matrix_ |-> [c \in Ids |-> {}],
     service_requests_ |-> {},
     local_services_ |-> NoService,
     services_ |-> NoVersion,
     offered_ |-> FALSE,
     pending_offers_ |-> NoOffer,
     pinged_clients_ |-> {},
     pending_client_registrations_ |-> [c \in Clients |-> <<>>],
     its_registrations |-> <<>>,
     services_to_report |-> NoVersion,
     step |-> "next",
     used_client_ids_ |-> {},
     client_id_timer_ |-> FALSE,
     watchdog_timer_ |-> watchdog,
     local_endpoints_ |-> [c \in Clients |-> "none"],
     error_handlers |-> {},
     down |-> [c \in Clients |-> <<>>],
     handlers |-> {}]

find_local(r, c) == c \in Clients /\ r.local_endpoints_[c] # "none"

\* Messages wait in an endpoint that is not connected yet; those sent over a
\* connection the client has closed are lost.
send_to(r, c, m) ==
    IF c \in Clients /\ r.local_endpoints_[c] \in Connected
    THEN [r EXCEPT !.down[c] = Append(@, m)] ELSE r

insert_client_routing_info(r, target, e) ==
    [r EXCEPT !.connection_matrix_[target] = @ \union {e.client}]

\* create_client_routing_info, insert_client_routing_info with one entry,
\* send_client_routing_info.
send_client_routing_info(r, target, e) ==
    send_to(insert_client_routing_info(r, target, e), target, e)

is_already_connected(r, source, sink) == sink \in r.connection_matrix_[source]

inform_requesters(r, hoster, v, entry, inform_service) ==
    LET inform(a, its_client) ==
          LET told == IF /\ inform_service /\ hoster # HostClient
                         /\ ~is_already_connected(a, hoster, its_client)
                      THEN send_client_routing_info(a, hoster,
                               Entry("ADD_CLIENT", its_client, NoVersion))
                      ELSE a
          IN  IF its_client # HostClient
              THEN send_client_routing_info(told, its_client, Entry(entry, hoster, v))
              ELSE told
    IN  FoldLeft(inform, r, Ascending(r.service_requests_))

\* routing_manager_stub::on_offer_service; its on_stop_offer_service below.
on_offer_service(r, c, v) ==
    inform_requesters([r EXCEPT !.routing_info_[c].known = TRUE,
                                !.routing_info_[c].version = v],
                      c, v, "ADD_SERVICE", TRUE)

\* Mutant: the requesters are not told.
stub_on_stop_offer_service_silent(r, c, v) ==
    IF r.routing_info_[c].version # NoVersion /\ v \in {r.routing_info_[c].version, DefaultVersion}
    THEN [r EXCEPT !.routing_info_[c].version = NoVersion] ELSE r

stub_on_stop_offer_service(r, c, v) ==
    LET offered == r.routing_info_[c].version
    IN  IF offered # NoVersion /\ v \in {offered, DefaultVersion}
        THEN inform_requesters([r EXCEPT !.routing_info_[c].version = NoVersion],
                               c, v, "DEL_SERVICE", FALSE)
        ELSE r

\* handle_requests: the first client in the map that offers the instance.
handle_requests(r, c) ==
    LET asked == [r EXCEPT !.service_requests_ = @ \union {c}]
        offering == {i \in Ids : r.routing_info_[i].version # NoVersion}
        found == Ascending(offering)[1]
        told == IF found # HostClient /\ ~is_already_connected(asked, found, c)
                THEN send_client_routing_info(asked, found, Entry("ADD_CLIENT", c, NoVersion))
                ELSE asked
    IN  IF offering = {} THEN asked
        ELSE IF c # HostClient
        THEN send_client_routing_info(told, c,
                 Entry("ADD_SERVICE", found, r.routing_info_[found].version))
        ELSE told

\* send_ping: a client that was pinged already is not pinged again.
send_ping(r, c) ==
    IF c \in r.pinged_clients_ THEN r
    ELSE send_to([r EXCEPT !.pinged_clients_ = @ \union {c}], c, PING)

update_registration(r, c, type) ==
    [r EXCEPT !.pending_client_registrations_[c] = Append(@, type),
              !.used_client_ids_ = IF type = "REGISTER" THEN @ ELSE @ \ {c},
              !.error_handlers = IF type = "DEREGISTER" THEN @ \ {c} ELSE @]

\* routing_manager_base::offer_service: whether the offer agrees with the
\* service info that is kept.
base_offer_service(r, v) == r.services_ \in {NoVersion, v}

\* handle_local_offer_service, under local_services_mutex_: the offer is
\* accepted, rejected, or pending until the pinged owner answers or is lost.
handle_local_offer_service(r, c, v) ==
    LET stored == r.local_services_
        accept == IF base_offer_service(r, v)
                  THEN [r EXCEPT !.local_services_ = [version |-> v, client |-> c],
                                 !.services_ = v]
                  ELSE r
        pend == [send_ping(r, stored.client) EXCEPT !.pending_offers_ =
                    [version |-> v, client |-> c, old |-> stored.client]]
    IN  IF stored = NoService THEN accept
        ELSE IF stored.version # v \/ stored.client = c THEN r
        ELSE IF r.pending_offers_ # NoOffer THEN r
        ELSE IF find_local(r, stored.client) THEN pend
        ELSE IF stored.client = HostClient THEN r
        ELSE accept

\* routing_manager_impl::offer_service up to the end of
\* handle_local_offer_service; the rest runs without local_services_mutex_.
impl_offer_service(r, c, v, by) ==
    LET s == handle_local_offer_service(r, c, v)
    IN  IF s.local_services_.client = c /\ r.local_services_.client # c
        THEN [s EXCEPT !.handlers = @ \union
                 {[by |-> by, step |-> "offer", client |-> c, version |-> v]}]
        ELSE s

\* routing_manager_impl::on_stop_offer_service.  The service info of a service
\* without port survives when service discovery is on.
on_stop_offer_service(r, c, v) ==
    LET erased == IF r.local_services_.client = c
                  THEN [r EXCEPT !.local_services_ = NoService] ELSE r
    IN  [erased EXCEPT !.offered_ = @ /\ ~(scenario.network # "off" /\ r.services_ = v),
                       !.services_ = IF scenario.network = "local" THEN @ ELSE NoVersion]

impl_stop_offer_service(r, c, v, by) ==
    [on_stop_offer_service(r, c, v) EXCEPT !.handlers = @ \union
        {[by |-> by, step |-> "stop", client |-> c, version |-> v]}]

\* Mutant: the offer that waited is dropped.
handle_client_error_dropping(r, c) ==
    [update_registration(r, c, "DEREGISTER_ON_ERROR") EXCEPT
        !.pending_offers_ = IF @.old = c THEN NoOffer ELSE @]

\* handle_client_error: deregister the client, then offer again what waited for
\* its answer.
handle_client_error(r, c) ==
    LET s == update_registration(r, c, "DEREGISTER_ON_ERROR")
        o == r.pending_offers_
    IN  IF o.old = c
        THEN impl_offer_service([s EXCEPT !.pending_offers_ = NoOffer], o.client, o.version, 0)
        ELSE s

handle_client_errors(r, S) ==
    FoldLeft(LAMBDA a, c : handle_client_error(a, c), r, Ascending(S))

\* routing_manager_impl::on_pong: the owner is alive, the other offer is dropped.
impl_on_pong(r, c) ==
    IF r.pending_offers_.old = c THEN [r EXCEPT !.pending_offers_ = NoOffer] ELSE r

\* Mutant: the routing manager is not told of the pong.
on_pong_unnoticed(r, c) ==
    [r EXCEPT !.routing_info_[c].pongs = 0, !.pinged_clients_ = @ \ {c}]

on_pong(r, c) ==
    impl_on_pong([r EXCEPT !.routing_info_[c].pongs = 0,
                           !.pinged_clients_ = @ \ {c}], c)

\* find_or_create_local creates the endpoint with its error handler and starts
\* it; connect() fails, and is tried again, when nobody listens.
find_or_create_local(r, c) ==
    IF find_local(r, c) THEN r
    ELSE [r EXCEPT !.local_endpoints_[c] = IF px[c].receiver_ THEN "up" ELSE "connecting",
                   !.error_handlers = @ \union {c}]

\* A client whose endpoint exists is taken to be registered already.
on_register_application(r, c) ==
    IF find_local(r, c) THEN r
    ELSE [find_or_create_local(r, c) EXCEPT !.routing_info_[c].known = TRUE,
                                            !.routing_info_[c].pongs = 0]

\* remove_local: the endpoint is stopped, the client's services are dropped.
remove_local(r, c) ==
    [r EXCEPT !.local_endpoints_[c] = "none",
              !.down[c] = IF r.local_endpoints_[c] = "connecting" THEN <<>> ELSE @,
              !.error_handlers = @ \ {c},
              !.local_services_ = IF @.client = c THEN NoService ELSE @]

\* client_registration_func, deregistration: the client itself is told unless
\* it is dead, and so is everyone connected with it.
inform_of_deregistration(r, c, type) ==
    LET self == IF type = "DEREGISTER"
                THEN send_client_routing_info(r, c, Entry("DEL_CLIENT", c, NoVersion)) ELSE r
        others == self.connection_matrix_[c] \ {c, HostClient}
        told == FoldLeft(LAMBDA a, d : send_client_routing_info(a, d,
                                           Entry("DEL_CLIENT", c, NoVersion)),
                         self, Ascending(others))
    IN  remove_local([told EXCEPT !.connection_matrix_ =
                          [d \in Ids |-> IF d = c THEN {} ELSE @[d] \ {c}],
                                  !.service_requests_ = @ \ {c}], c)

-----------------------------------------------------------------------------
(* Steps of the applications.                                              *)

Proxy(c, p) == px' = [px EXCEPT ![c] = p]

\* The client's end of the host's connection is closed: what was not read yet
\* is lost; an endpoint that is still connecting keeps trying.
close_receiver(r, c) ==
    IF r.local_endpoints_[c] = "connecting" THEN r
    ELSE [r EXCEPT !.local_endpoints_[c] = IF @ = "up" THEN "broken" ELSE @,
                   !.down[c] = <<>>]

\* The host will answer what this client is waiting for.
Answerable(c) ==
    /\ rm.running
    /\ \/ px[c].sent # <<>> \/ rm.down[c] # <<>>
       \/ rm.pending_client_registrations_[c] # <<>>
       \/ \E i \in 1..Len(rm.its_registrations) : rm.its_registrations[i].client = c

Irregular(S) == irregular' = irregular \union S

Fault(kind) ==
    /\ faults < scenario.faults /\ kind \in scenario.kinds
    /\ faults' = faults + 1

\* A timeout strikes although the answer is under way.
TooLate(late) ==
    IF late THEN Fault("late") ELSE UNCHANGED faults

\* A new process takes the identifier, or the application is started again.
Start(c) ==
    /\ px[c].starts < scenario.starts /\ ~px[c].is_started_ /\ px[c].stopping = "no"
    /\ px[c].process = "off" => c \notin used_ids
    /\ Proxy(c, start([px[c] EXCEPT !.process = "on"]))
    /\ used_ids' = used_ids \union {c}
    /\ UNCHANGED <<rm, scenario, calls, faults, irregular>>

Call ==
    /\ calls < scenario.calls
    /\ calls' = calls + 1
    /\ UNCHANGED <<used_ids, scenario, faults>>

ClientCall(c) == Call /\ px[c].process = "on" /\ px[c].stopping = "no"

Offer(c, v) ==
    /\ ClientCall(c) /\ c \in scenario.offering
    /\ Proxy(c, offer_service(px[c], v))
    /\ UNCHANGED <<rm, irregular>>

\* Ghost: the end of an offer that is on its way to the host, or there, while
\* the proxy is not registered and so does not send it.
IsUnsaid(c) ==
    /\ px[c].state_ # "REGISTERED"
    /\ \/ \E v \in Versions : Contains(px[c].sent \o px[c].unsent, Command("OFFER", v))
       \/ c \in {rm.local_services_.client, rm.pending_offers_.client}

StopOffer(c, v) ==
    /\ ClientCall(c) /\ c \in scenario.offering
    /\ Proxy(c, stop_offer_service(px[c], v))
    /\ Irregular(IF IsUnsaid(c) THEN {"mismatch"} ELSE {})
    /\ UNCHANGED rm

Request(c) ==
    /\ ClientCall(c) /\ c \in scenario.requesting
    /\ Proxy(c, request_service(px[c], c \in scenario.debouncing))
    /\ UNCHANGED <<rm, irregular>>

Release(c) ==
    /\ ClientCall(c)
    /\ px[c].requests_ \/ px[c].requests_to_debounce_
    /\ Proxy(c, release_service(px[c]))
    /\ UNCHANGED <<rm, irregular>>

\* stop: cancels the registration timer and waits for the pending registration.
StopBegin(c) ==
    /\ ClientCall(c) /\ px[c].is_started_
    /\ Proxy(c, [px[c] EXCEPT !.stopping = "registering",
                    !.register_application_timer_ = @ /\ px[c].state_ # "REGISTERING"])
    /\ UNCHANGED <<rm, irregular>>

StopDeregister(c) ==
    /\ px[c].stopping = "registering" /\ px[c].state_ = "REGISTERED"
    /\ Proxy(c, [deregister_application(px[c]) EXCEPT !.stopping = "deregistering"])
    /\ UNCHANGED <<rm, used_ids, scenario, calls, faults, irregular>>

\* Either the awaited state was reached or a second went by.
StopFinish(c, has_endpoint, late) ==
    /\ \/ px[c].stopping = "registering" /\ px[c].state_ # "REGISTERED"
       \/ px[c].stopping = "deregistering"
    /\ late = (px[c].state_ # "DEREGISTERED" /\ Answerable(c))
    /\ TooLate(late)
    /\ Proxy(c, finish_stop(px[c], has_endpoint))
    /\ rm' = close_receiver(rm, c)
    /\ Irregular(IF ~has_endpoint /\ px[c].local_services_ # NoService THEN {"kept"} ELSE {})
    /\ UNCHANGED <<used_ids, scenario, calls>>

\* The application ends and gives its identifier back.
Exit(c) ==
    /\ px[c].process = "on" /\ ~px[c].is_started_ /\ px[c].starts > 0
    /\ Proxy(c, [routing_manager_proxy EXCEPT !.starts = px[c].starts, !.sent = px[c].sent])
    /\ used_ids' = used_ids \ {c}
    /\ UNCHANGED <<rm, scenario, calls, faults, irregular>>

\* The process dies; what it sent is still read by the host.
Crash(c) ==
    /\ Fault("crash") /\ px[c].process = "on"
    /\ Proxy(c, [routing_manager_proxy EXCEPT !.starts = px[c].starts, !.sent = px[c].sent])
    /\ rm' = close_receiver(rm, c)
    /\ UNCHANGED <<used_ids, scenario, calls, irregular>>

SenderConnects(c) ==
    /\ px[c].sender_ = "connecting"
    /\ Proxy(c, IF rm.running THEN on_connect(px[c]) ELSE on_disconnect(px[c]))
    /\ UNCHANGED <<rm, used_ids, scenario, calls, faults, irregular>>

\* receive_cbk of the sender finds the connection closed by the host.
SenderBreaks(c) ==
    /\ px[c].sender_ = "broken"
    /\ px[c].is_started_
    /\ Proxy(c, handle_client_error_proxy(px[c]))
    /\ UNCHANGED <<rm, used_ids, scenario, calls, faults, irregular>>

RegisterTimeout(c, late) ==
    /\ px[c].register_application_timer_
    /\ late = Answerable(c)
    /\ TooLate(late)
    /\ Proxy(c, register_application_timeout_cbk(px[c]))
    /\ UNCHANGED <<rm, used_ids, scenario, calls, irregular>>

DebounceTimeout(c) ==
    /\ px[c].request_debounce_timer_
    /\ Proxy(c, request_debounce_timeout_cbk(px[c]))
    /\ UNCHANGED <<rm, used_ids, scenario, calls, faults, irregular>>

\* on_message of the proxy: VSOMEIP_ROUTING_INFO and VSOMEIP_PING.
ProxyReceives(c) ==
    /\ px[c].receiver_ /\ rm.local_endpoints_[c] # "connecting" /\ rm.down[c] # <<>>
    /\ LET e == Head(rm.down[c])
       IN  Proxy(c, IF e = PING THEN send_pong(px[c]) ELSE on_routing_info(px[c], c, e))
    /\ rm' = [rm EXCEPT !.down[c] = Tail(@)]
    /\ UNCHANGED <<used_ids, scenario, calls, faults, irregular>>

-----------------------------------------------------------------------------
(* Steps of the host.  Its threads share the objects: messages of one       *)
(* connection are handled one after the other, those of different           *)
(* connections, timers and the registration thread interleave.              *)

EndpointConnects(c) ==
    /\ rm.running /\ rm.local_endpoints_[c] = "connecting" /\ px[c].receiver_
    /\ rm' = [rm EXCEPT !.local_endpoints_[c] = "up"]
    /\ UNCHANGED <<px, used_ids, scenario, calls, faults, irregular>>

\* receive_cbk finds the connection closed and calls the error handler, if any.
EndpointBreaks(c) ==
    /\ rm.running /\ rm.local_endpoints_[c] = "broken"
    /\ LET r == [rm EXCEPT !.local_endpoints_[c] = "closed"]
       IN  rm' = IF c \in rm.error_handlers THEN handle_client_error(r, c) ELSE r
    /\ UNCHANGED <<px, used_ids, scenario, calls, faults, irregular>>

\* routing_manager_stub::on_message.
stub_on_message(r, c, m) ==
    CASE m.type \in {"REGISTER", "DEREGISTER"} -> update_registration(r, c, m.type)
      [] m.type = "PONG" -> on_pong(r, c)
      [] m.type = "OFFER" -> impl_offer_service(r, c, m.version, c)
      [] m.type = "STOP_OFFER" -> impl_stop_offer_service(r, c, m.version, c)
      [] m.type = "REQUEST" -> handle_requests(r, c)

\* Ghost: the offer of a client without endpoint (deregistered meanwhile); the
\* end of an offer that is not the one accepted (by version or by client); an
\* offer that is rejected, at once or because the owner answers the ping.
IsLate(c, m) == m.type = "OFFER" /\ rm.local_endpoints_[c] # "up"
IsMismatch(c, m) ==
    /\ m.type = "STOP_OFFER"
    /\ \/ rm.services_ # NoVersion /\ rm.local_services_ # [version |-> m.version, client |-> c]
       \/ rm.pending_offers_.client = c
IsRejected(c, m) ==
    \/ m.type = "PONG" /\ rm.pending_offers_.old = c
    \/ /\ m.type = "OFFER" /\ rm.local_services_.client # c
       /\ handle_local_offer_service(rm, c, m.version) = rm

IrregularMessage(c, m) ==
    (IF IsLate(c, m) THEN {"late"} ELSE {}) \union
    (IF IsMismatch(c, m) THEN {"mismatch"} ELSE {}) \union
    (IF IsRejected(c, m) THEN {"rejected"} ELSE {})

StubReceives(c) ==
    /\ rm.running /\ px[c].sent # <<>>
    /\ \A h \in rm.handlers : h.by # c
    /\ rm' = stub_on_message(rm, c, Head(px[c].sent))
    /\ Proxy(c, [px[c] EXCEPT !.sent = Tail(@)])
    /\ Irregular(IrregularMessage(c, Head(px[c].sent)))
    /\ UNCHANGED <<used_ids, scenario, calls, faults>>

IsCrossed(h) ==
    \/ rm.local_services_.client # IF h.step = "offer" THEN h.client ELSE 0
    \/ rm.handlers # {h} \/ rm.step = "report"
IsBelated(h) ==
    /\ h.step = "offer" /\ h.client \in Clients
    /\ rm.local_endpoints_[h.client] # "up" \/ ~rm.routing_info_[h.client].known

\* The second half of routing_manager_impl::offer_service and stop_offer_service.
\* Ghost: since the first half another client's offer was accepted, or the
\* offering client was removed.
FinishHandler(h) ==
    /\ rm.running
    /\ Irregular((IF IsCrossed(h) THEN {"crossed"} ELSE {}) \union
                 (IF IsBelated(h) THEN {"late"} ELSE {}))
    /\ LET r == [rm EXCEPT !.handlers = @ \ {h}]
       IN  rm' = IF h.step = "offer"
                 THEN on_offer_service([r EXCEPT !.offered_ = scenario.network # "off"],
                                       h.client, h.version)
                 ELSE stub_on_stop_offer_service(r, h.client, h.version)
    /\ UNCHANGED <<px, used_ids, scenario, calls, faults>>

\* The application of the host's own process.
HostCall(r) ==
    /\ Call /\ rm.running /\ \A h \in rm.handlers : h.by # HostClient
    /\ rm' = r
    /\ UNCHANGED <<px, irregular>>

HostOffer(v) == HostClient \in scenario.offering /\ HostCall(impl_offer_service(rm, HostClient, v, HostClient))
HostStopOffer(v) == HostClient \in scenario.offering /\ HostCall(impl_stop_offer_service(rm, HostClient, v, HostClient))
HostRequest == HostClient \in scenario.requesting /\ HostCall(handle_requests(rm, HostClient))

\* client_registration_func copies the pending registrations, sorted by client.
TakeRegistrations ==
    /\ rm.running /\ rm.its_registrations = <<>>
    /\ \E c \in Clients : rm.pending_client_registrations_[c] # <<>>
    /\ LET of(c) == [i \in 1..Len(rm.pending_client_registrations_[c]) |->
                       [client |-> c, type |-> rm.pending_client_registrations_[c][i]]]
       IN  rm' = [rm EXCEPT !.pending_client_registrations_ = [c \in Clients |-> <<>>],
                            !.its_registrations =
                                FoldLeft(LAMBDA a, c : a \o of(c), <<>>, Ascending(Clients))]
    /\ UNCHANGED <<px, used_ids, scenario, calls, faults, irregular>>

RegisterClient ==
    /\ rm.running /\ rm.step = "next" /\ rm.its_registrations # <<>>
    /\ Head(rm.its_registrations).type = "REGISTER"
    /\ LET c == Head(rm.its_registrations).client
           r == [rm EXCEPT !.its_registrations = Tail(@)]
       IN  rm' = send_client_routing_info(on_register_application(r, c), c,
                                          Entry("ADD_CLIENT", c, NoVersion))
    /\ UNCHANGED <<px, used_ids, scenario, calls, faults, irregular>>

\* on_deregister_application: the routing info is erased first, then the
\* client's services are stopped, then everybody is informed.
DeregisterClient ==
    /\ rm.running /\ rm.step = "next" /\ rm.its_registrations # <<>>
    /\ Head(rm.its_registrations).type # "REGISTER"
    /\ LET c == Head(rm.its_registrations).client
       IN  /\ rm' = [rm EXCEPT !.services_to_report = rm.routing_info_[c].version,
                            !.routing_info_[c] = NoInfo, !.step = "report"]
           /\ Irregular(IF /\ Head(rm.its_registrations).type = "DEREGISTER_ON_ERROR"
                           /\ px[c].process = "on"
                        THEN {"forsaken"} ELSE {})
    /\ UNCHANGED <<px, used_ids, scenario, calls, faults>>

ReportServices ==
    /\ rm.running /\ rm.step = "report"
    /\ LET r == [rm EXCEPT !.step = "inform", !.services_to_report = NoVersion]
           c == Head(rm.its_registrations).client
       IN  /\ rm' = IF rm.services_to_report = NoVersion THEN r
                    ELSE on_stop_offer_service(r, c, rm.services_to_report)
           /\ Irregular(IF /\ rm.services_to_report # NoVersion
                           /\ rm.local_services_.client # c
                        THEN {"mismatch"} ELSE {})
    /\ UNCHANGED <<px, used_ids, scenario, calls, faults>>

InformOthers ==
    /\ rm.running /\ rm.step = "inform"
    /\ LET b == Head(rm.its_registrations)
       IN  /\ rm' = [inform_of_deregistration(rm, b.client, b.type)
                        EXCEPT !.step = "next", !.its_registrations = Tail(@)]
           /\ used_ids' = IF b.type = "DEREGISTER_ON_ERROR"
                          THEN used_ids \ {b.client} ELSE used_ids
    /\ UNCHANGED <<px, scenario, calls, faults, irregular>>

\* The client's pong, or the ping that asks for it, is under way, or the
\* registration thread is about to remove the client.
Answering(c) ==
    \/ rm.pending_client_registrations_[c] # <<>> \/ rm.its_registrations # <<>>
    \/ Contains(px[c].sent, Command("PONG", NoVersion))
    \/ px[c].receiver_ /\ Contains(rm.down[c], PING)

\* on_ping_timer_expired: the clients whose time is up are lost.
PingTimeout(S, late) ==
    /\ rm.running /\ S # {} /\ S \subseteq rm.pinged_clients_
    /\ late = \E c \in S : Answering(c)
    /\ TooLate(late)
    /\ rm' = handle_client_errors([rm EXCEPT !.pinged_clients_ = @ \ S], S)
    /\ UNCHANGED <<px, used_ids, scenario, calls, irregular>>

\* on_client_id_timer_expired, once after the host was started: identifiers in
\* shared memory whose applications did not register.
ClientIdTimeout(late) ==
    /\ rm.running /\ rm.client_id_timer_
    /\ LET erroneous_clients == {c \in rm.used_client_ids_ : ~rm.routing_info_[c].known}
       IN  /\ late = \E c \in erroneous_clients : px[c].is_started_
           /\ TooLate(late)
           /\ rm' = handle_client_errors([rm EXCEPT !.used_client_ids_ = {},
                                                    !.client_id_timer_ = FALSE],
                                         erroneous_clients)
    /\ UNCHANGED <<px, used_ids, scenario, calls, irregular>>

\* Mutant: missing pongs are not counted.
CheckWatchdogUncounted ==
    /\ rm.running /\ rm.watchdog_timer_ = "start"
    /\ \A c \in Clients : Len(SelectSeq(rm.down[c], LAMBDA e : e = PING)) < MaxQueue
    /\ rm' = FoldLeft(LAMBDA a, c : send_to(a, c, PING),
                      [rm EXCEPT !.watchdog_timer_ = "check"],
                      Ascending({c \in Clients : rm.routing_info_[c].known}))
    /\ UNCHANGED <<px, used_ids, scenario, calls, faults, irregular>>

\* check_watchdog: every pong counter goes up (the model stops counting where
\* it makes no difference any more) and everybody is pinged.
CheckWatchdog ==
    /\ rm.running /\ rm.watchdog_timer_ = "start"
    /\ \A c \in Clients : /\ Len(SelectSeq(rm.down[c], LAMBDA e : e = PING)) < MaxQueue
                          /\ Len(rm.pending_client_registrations_[c]) < MaxQueue
    /\ LET missed(i) == IF i.known /\ i.pongs <= AllowedMissingPongs
                        THEN [i EXCEPT !.pongs = @ + 1] ELSE i
           known == {c \in Clients : rm.routing_info_[c].known}
       IN  rm' = FoldLeft(LAMBDA a, c : send_to(a, c, PING),
                          [rm EXCEPT !.watchdog_timer_ = "check",
                                     !.routing_info_ = [c \in Ids |-> missed(@[c])]],
                          Ascending(known))
    /\ UNCHANGED <<px, used_ids, scenario, calls, faults, irregular>>

WatchdogTimeout(late) ==
    /\ rm.running /\ rm.watchdog_timer_ = "check"
    /\ LET lost == {c \in Clients : rm.routing_info_[c].pongs > AllowedMissingPongs}
       IN  /\ late = \E c \in lost : Answering(c)
           /\ TooLate(late)
           /\ rm' = handle_client_errors([rm EXCEPT !.watchdog_timer_ = "start"], lost)
    /\ UNCHANGED <<px, used_ids, scenario, calls, irregular>>

\* The host's process ends.  What it wrote can still be read.
HostStops ==
    /\ rm.running /\ Fault("host")
    /\ rm' = [routing_manager_stub(rm.watchdog_timer_) EXCEPT !.running = FALSE,
                 !.down = [c \in Clients |-> IF rm.local_endpoints_[c] = "connecting"
                                             THEN <<>> ELSE rm.down[c]]]
    /\ px' = [c \in Clients |-> [px[c] EXCEPT !.sent = <<>>,
                                   !.sender_ = IF @ = "up" THEN "broken" ELSE @]]
    /\ UNCHANGED <<used_ids, scenario, calls, irregular>>

HostStarts ==
    /\ ~rm.running
    /\ rm' = [rm EXCEPT !.running = TRUE, !.used_client_ids_ = used_ids,
                        !.client_id_timer_ = TRUE,
                        !.watchdog_timer_ = IF @ = "off" THEN "off" ELSE "start"]
    /\ UNCHANGED <<px, used_ids, scenario, calls, faults, irregular>>

-----------------------------------------------------------------------------
Init ==
    /\ scenario \in Scenarios
    /\ rm = routing_manager_stub(scenario.watchdog)
    /\ px = [c \in Clients |-> routing_manager_proxy]
    /\ used_ids = {}
    /\ calls = 0 /\ faults = 0 /\ irregular = {}

ClientNext(c) ==
    \/ Start(c) \/ Request(c) \/ Release(c)
    \/ \E v \in scenario.versions : Offer(c, v)
    \/ \E v \in scenario.versions \union {DefaultVersion} : StopOffer(c, v)
    \/ StopBegin(c) \/ StopDeregister(c) \/ Exit(c) \/ Crash(c)
    \/ \E has_endpoint, late \in BOOLEAN : StopFinish(c, has_endpoint, late)
    \/ SenderConnects(c) \/ SenderBreaks(c) \/ DebounceTimeout(c) \/ ProxyReceives(c)
    \/ \E late \in BOOLEAN : RegisterTimeout(c, late)

HostNext ==
    \/ \E c \in Clients : EndpointConnects(c) \/ EndpointBreaks(c) \/ StubReceives(c)
    \/ \E h \in rm.handlers : FinishHandler(h)
    \/ \E v \in scenario.versions : HostOffer(v) \/ HostStopOffer(v)
    \/ HostRequest
    \/ TakeRegistrations \/ RegisterClient \/ DeregisterClient \/ ReportServices
    \/ InformOthers
    \/ \E S \in SUBSET Clients, late \in BOOLEAN : PingTimeout(S, late)
    \/ \E late \in BOOLEAN : ClientIdTimeout(late) \/ WatchdogTimeout(late)
    \/ CheckWatchdog \/ HostStops \/ HostStarts

Next == (\E c \in Clients : ClientNext(c)) \/ HostNext

Spec == Init /\ [][Next]_vars

\* The io threads handle what arrives, the registration thread and the timers run;
\* a timer that strikes before the answer arrives is not relied upon.
Handlers(c) ==
    \/ SenderConnects(c) \/ SenderBreaks(c) \/ DebounceTimeout(c) \/ ProxyReceives(c)
    \/ RegisterTimeout(c, FALSE) \/ StubReceives(c)
Connections(c) == EndpointConnects(c) \/ EndpointBreaks(c)
Registrations ==
    TakeRegistrations \/ RegisterClient \/ DeregisterClient \/ ReportServices \/ InformOthers
OneShotTimers == ClientIdTimeout(FALSE) \/ \E S \in SUBSET Clients : PingTimeout(S, FALSE)

Fairness ==
    /\ \A c \in Clients : WF_vars(Handlers(c)) /\ WF_vars(Connections(c))
    /\ WF_vars((\E h \in rm.handlers : FinishHandler(h)) \/ Registrations \/ OneShotTimers)
    /\ WF_vars(CheckWatchdog \/ WatchdogTimeout(FALSE))

FairSpec == Spec /\ Fairness

-----------------------------------------------------------------------------
(* Properties.                                                             *)

Service == [version : Versions, client : Ids]
ServiceKnown == [version : Versions \union {DefaultVersion}, client : Ids]

\* Besides the types: no offer waits for the client that makes it, and the
\* host's own application is always in routing_info_.
TypeOK ==
    /\ rm.local_services_ \in Service \union {NoService}
    /\ rm.services_ \in Versions \union {NoVersion}
    /\ rm.pending_offers_ = NoOffer \/ rm.pending_offers_.client \in Ids \ {rm.pending_offers_.old}
    /\ rm.connection_matrix_ \in [Ids -> SUBSET Ids]
    /\ rm.service_requests_ \subseteq Ids
    /\ rm.pinged_clients_ \subseteq Clients /\ rm.error_handlers \subseteq Clients
    /\ rm.routing_info_ \in [Ids -> [known : BOOLEAN, pongs : 0..(AllowedMissingPongs + 1),
                                     version : Versions \union {NoVersion}]]
    /\ rm.running => rm.routing_info_[HostClient].known
    /\ \A c \in Clients :
          /\ rm.local_endpoints_[c] \in {"none", "connecting", "up", "broken", "closed"}
          /\ px[c].state_ \in {"DEREGISTERED", "REGISTERING", "REGISTERED"}
          /\ px[c].local_services_ \in ServiceKnown \union {NoService}
          /\ px[c].known_clients_ \subseteq Ids

\* No message, registration or timer that would change the routing is pending.
Quiet ==
    /\ rm.running /\ rm.handlers = {} /\ rm.its_registrations = <<>>
    /\ rm.pending_offers_ = NoOffer /\ ~rm.client_id_timer_
    /\ \A c \in Clients :
          /\ px[c].sent = <<>> /\ rm.down[c] = <<>>
          /\ rm.pending_client_registrations_[c] = <<>>
          /\ rm.local_endpoints_[c] \in {"none", "up", "closed"}
          /\ px[c].sender_ \in {"none", "up"} /\ px[c].stopping = "no"
          /\ ~px[c].register_application_timer_

Regular(S) == Quiet /\ irregular \intersect S = {}
Active(c) == px[c].is_started_ /\ px[c].state_ = "REGISTERED"

\* The stub's routing_info_ and the routing manager's local_services_ name the
\* same offering client whenever things are quiet, although they are changed in
\* separate critical sections by message handlers, the registration thread and
\* the timers.  Excepted: an OFFER handled for a client that is being or was
\* deregistered (it re-creates the client's routing info), the second halves of
\* two calls in the other order than the first ones, a live client that was
\* given up, and a stop that does not name the version offered.
HostAgreement ==
    Regular({"late", "crossed", "forsaken", "mismatch"}) => \A c \in Ids :
        (rm.routing_info_[c].version # NoVersion) <=> (rm.local_services_.client = c)

\* A registered application that requests the service knows who offers it in
\* which version, or that nobody does, once things are quiet: whatever the order
\* of offers, requests, stops, deregistrations, crashes and host restarts.
\* Excepted besides the above: what a stopped and restarted application kept,
\* because stop() only forgets the services of clients it has an endpoint to.
RequesterAgreement ==
    Regular({"late", "crossed", "forsaken", "mismatch", "kept"}) =>
        \A c \in Clients : Active(c) /\ px[c].requests_ =>
            px[c].local_services_ = rm.local_services_

\* If a registered application wants to offer the service then somebody's offer
\* is accepted: an offer that waited for the owner's pong is made again when the
\* owner turns out to be dead (handle_client_error), and offers are repeated
\* after the host was restarted (send_pending_commands).  Excepted: an offer
\* rejected in favour of a live owner is not repeated when that owner leaves.
OfferKept ==
    Regular({"forsaken", "rejected"}) =>
        \A c \in Clients : Active(c) /\ px[c].pending_offers_ # NoVersion =>
            rm.local_services_ # NoService

\* The accepted offer is one its application still makes: offers of
\* applications that stopped offering, deregistered or died are withdrawn.
\* "mismatch" includes the stop of an offer that still waits for a pong, which
\* on_stop_offer_service does not cancel.
NotWithdrawn ==
    Regular({"late", "forsaken", "mismatch"}) =>
        \A c \in Clients : rm.local_services_.client = c =>
            Active(c) /\ px[c].pending_offers_ # NoVersion

\* The offering application knows every registered requester, so that it can
\* answer: inform_requesters and handle_requests tell it exactly when the
\* connection matrix does not show it was told before.
HosterKnowsRequester ==
    Regular({"late", "crossed", "forsaken"}) => \A c, d \in Clients :
        Active(c) /\ Active(d) /\ rm.local_services_.client = c /\ px[d].requests_
            => d \in px[c].known_clients_

\* Service discovery offers the service to the network exactly if a local offer
\* is accepted.
NetworkAgreement ==
    Regular({"late", "crossed", "forsaken", "mismatch"}) /\ scenario.network = "remote"
        => (rm.offered_ <=> rm.local_services_ # NoService)

\* Host and application agree on whether the application is registered.
Registered ==
    Regular({"late", "crossed", "forsaken"}) =>
        \A c \in Clients : Active(c) <=> rm.routing_info_[c].known

\* An offer that waits for its owner's pong does not wait in vain: the owner is
\* among the pinged clients, so its pong or the ping timer resolves the offer.
PendingIsPinged ==
    rm.pending_offers_ # NoOffer => rm.pending_offers_.old \in rm.pinged_clients_

\* The host's tables agree with each other and with the applications, although
\* they are changed one after the other by different threads.
HostTablesAgree ==
    TypeOK /\ HostAgreement /\ NetworkAgreement /\ Registered /\ PendingIsPinged

\* Requesters know the offering application, and it knows them.
RoutingAgreement == RequesterAgreement /\ HosterKnowsRequester

\* Exactly what the applications want to offer is offered: an offer is neither
\* forgotten nor kept too long.
OffersFollow == OfferKept /\ NotWithdrawn

\* A started application becomes registered, at first and again after the host
\* was restarted or a registration timed out, unless it is stopped, the host is
\* down, or the host gave up the live client: nobody tells it then, and it takes
\* itself for registered for ever.
Rejoins ==
    \A c \in Clients :
        px[c].is_started_ /\ px[c].stopping = "no" ~>
            \/ Active(c) /\ rm.routing_info_[c].known
            \/ ~px[c].is_started_ \/ px[c].stopping # "no" \/ ~rm.running
            \/ "forsaken" \in irregular

\* With the watchdog on, the host forgets every application that died and what
\* it offered, also one that died before the host had connected to it and one
\* whose last OFFER was handled after its deregistration.
WatchdogForgets ==
    \A c \in Clients :
        px[c].process = "off" /\ scenario.watchdog # "off" ~>
            px[c].process = "on" \/ ~rm.running \/ rm.routing_info_[c] = NoInfo
=============================================================================
