---------------------------- MODULE LocalEvents ----------------------------
(***************************************************************************)
(* Events between the applications of one device: an application that      *)
(* offers a service with events of one eventgroup, applications that       *)
(* subscribe to it, and the routing manager between them.  Each process    *)
(* has its routing_manager_base with the events it knows (event), the      *)
(* offering and the subscribing processes a routing_manager_proxy, the     *)
(* subscribing ones the subscription state of application_impl, and the    *)
(* routing manager (routing_manager_impl with its stub) the shadow events  *)
(* it serves remote subscribers from.                                      *)
(*                                                                         *)
(* The processes talk over local connections that keep order one by one,   *)
(* but not with respect to each other: a subscriber writes directly to the *)
(* offering process, which learns of the subscriber from the routing       *)
(* manager, and notifications come back on a third connection.             *)
(***************************************************************************)
EXTENDS Integers, FiniteSets, SequencesExt

CONSTANTS
    Client,    \* processes that subscribe
    Remote,    \* subscribers on other devices
    Event,     \* events of the eventgroup
    ANY_EVENT, \* a subscription to the whole eventgroup
    Value,     \* payloads other than the empty one
    Scenarios  \* configurations explored, see Init

VARIABLES
    scenario,  \* the configuration
    hoster,    \* the offering process
    app,       \* the subscribing processes
    host,      \* the routing manager
    net,       \* commands on each connection
    left,      \* bound: API calls and faults still to come
    irregular  \* ghost: races the code does not rule out that have happened

vars == <<scenario, hoster, app, host, net, left, irregular>>

Key == Event \union {ANY_EVENT}
ROUTING_CLIENT == "routing"
NoValue == 0
NoOffer == 0

\* Connections, named by sender and receiver.
FromClient(c) == <<c, "hoster">>
ToClient(c) == <<"hoster", c>>
RoutingInfo(p) == <<"host", p>>
ToHost == <<"hoster", "host">>
Connections == {FromClient(c) : c \in Client} \union {ToClient(c) : c \in Client}
                 \union {RoutingInfo(p) : p \in Client \union {"hoster"}} \union {ToHost}

Command(type, event, value, who) ==
    [type |-> type, event |-> event, value |-> value, who |-> who]

NoEvent == [exists |-> FALSE, placeholder |-> FALSE, field |-> FALSE, provided |-> FALSE,
            set |-> FALSE, value |-> NoValue, grouped |-> FALSE, subs |-> {}]

NoNotifyOne == [event |-> ANY_EVENT, value |-> NoValue, client |-> ROUTING_CLIENT]

-----------------------------------------------------------------------------
(* event and routing_manager_base: events, payloads and subscribers.       *)

changed(e, v) == ~e.field \/ e.value # v

reset_payload(e, v) == [e EXCEPT !.set = TRUE, !.value = v]

set_payload(e, v) == IF e.provided /\ changed(e, v) THEN reset_payload(e, v) ELSE e

set_payload_dont_notify(e, v) ==
    IF e.placeholder \/ changed(e, v) THEN reset_payload(e, v) ELSE e

unset_payload(e, force) ==
    IF force \/ e.provided THEN [e EXCEPT !.set = FALSE, !.value = NoValue] ELSE e

add_subscriber(e, c) == [e EXCEPT !.subs = @ \union {c}]
remove_subscriber(e, c) == [e EXCEPT !.subs = @ \ {c}]

\* find_eventgroup and get_events: the events of the eventgroup this process
\* knows, the stand-in for ANY_EVENT included.
find_eventgroup(events) == {e \in Key : events[e].exists /\ events[e].grouped}

\* register_event for an event that is already registered: other settings are
\* refused, a cache placeholder becomes the real event.
register_existing(old, grouped, is_field, is_provided) ==
    IF old.placeholder
    THEN [unset_payload(old, ~is_field)
             EXCEPT !.field = is_field, !.provided = is_provided, !.placeholder = FALSE,
                    !.grouped = @ \/ grouped]
    ELSE IF old.field = is_field
    THEN [old EXCEPT !.provided = @ \/ is_provided, !.grouped = @ \/ grouped]
    ELSE old

\* register_event: who subscribed to the whole eventgroup before any event of
\* it was known is subscribed to a new event that is offered.
register_event(events, e, grouped, is_field, is_provided, is_cache_placeholder) ==
    LET old == events[e]
        transfer == /\ grouped
                    /\ IF old.exists THEN ~old.placeholder /\ old.field = is_field
                                     ELSE is_provided
        new == IF old.exists THEN register_existing(old, grouped, is_field, is_provided)
               ELSE [NoEvent EXCEPT !.exists = TRUE, !.placeholder = is_cache_placeholder,
                                    !.field = is_field, !.provided = is_provided,
                                    !.grouped = grouped]
    IN  [events EXCEPT ![e] =
            IF transfer THEN [new EXCEPT !.subs = @ \union events[ANY_EVENT].subs] ELSE new]

\* The proxy registers a plain field here: its register_event has no use for
\* the flag that would make it a placeholder.
create_placeholder_event_and_subscribe(events, k, c) ==
    LET with == register_event(events, k, TRUE, TRUE, FALSE, FALSE)
    IN  [with EXCEPT ![k] = add_subscriber(@, c)]

\* What a subscription of c to k touches.
Addressed(events, k) ==
    IF k # ANY_EVENT THEN {k} ELSE find_eventgroup(events)

insert_subscription(events, k, c) ==
    LET found == {e \in Addressed(events, k) : events[e].exists}
    IN  IF found = {}
        THEN [events |-> create_placeholder_event_and_subscribe(events, k, c),
              inserted |-> TRUE, already |-> {}]
        ELSE [events |-> [e \in Key |-> IF e \in found THEN add_subscriber(events[e], c)
                                                       ELSE events[e]],
              inserted |-> \E e \in found : c \notin events[e].subs,
              already |-> {e \in found : c \in events[e].subs}]

\* notify_one_current_value and get_events of notify_remote_initially: the
\* fields a new subscriber is sent at once.
current_values(i, k) ==
    IF ~i.inserted THEN {}
    ELSE {e \in Addressed(i.events, k) \ i.already : i.events[e].field /\ i.events[e].set}

base_unsubscribe(events, k, c) ==
    [e \in Key |-> IF e \in Addressed(events, k) THEN remove_subscriber(events[e], c)
                                                 ELSE events[e]]

base_stop_offer_service(events) ==
    [e \in Key |-> [unset_payload(events[e], FALSE) EXCEPT !.subs = {}]]

-----------------------------------------------------------------------------
(* The offering process.  A step of it works on a record w of its state,   *)
(* the connections and the races seen.                                     *)

put(w, connection, command) == [w EXCEPT !.net[connection] = Append(@, command)]

race(w, name, happens) == IF happens THEN [w EXCEPT !.irregular = @ \union {name}] ELSE w

\* Over the subscriber's endpoint.  Without one the command goes to the routing
\* manager, which has no subscription it belongs to; over a broken connection
\* it is lost.
send_to(w, c, command) ==
    IF c \in w.hoster.local_endpoints_ \ w.hoster.broken
    THEN put(w, ToClient(c), command) ELSE w

find_or_create_local(w, c) ==
    [w EXCEPT !.hoster.local_endpoints_ = @ \union {c},
              !.hoster.broken = IF c \notin w.hoster.local_endpoints_ /\ ~app[c].up
                                THEN @ \union {c} ELSE @]

send_current(w, c, e) ==
    send_to(w, c, Command("SEND", e, w.hoster.events_[e].value, c))

\* send_local_notification and the NOTIFY to the routing manager.
send_notification(w, e) ==
    LET v == w.hoster.events_[e].value
        one(s, a) == IF s = ROUTING_CLIENT THEN put(a, ToHost, Command("NOTIFY", e, v, s))
                                           ELSE send_current(a, s, e)
    IN  FoldSet(one, w, w.hoster.events_[e].subs)

notify(w, e, v) ==
    LET old == w.hoster.events_[e]
        stored == [w EXCEPT !.hoster.events_[e] = set_payload(old, v)]
    IN  IF old.provided /\ changed(old, v) THEN send_notification(stored, e) ELSE w

\* For one subscriber; the payload nevertheless becomes the event's payload.  A
\* client without endpoint counts as a remote one.  A client that is not
\* subscribed yet gets it later, and only the last one is kept.
notify_one(w, e, v, c) ==
    LET old == w.hoster.events_[e]
        stored == [w EXCEPT !.hoster.events_[e] = set_payload(old, v)]
    IN  IF c \in w.hoster.local_endpoints_ /\ c \notin old.subs
        THEN [w EXCEPT !.hoster.pending_notify_ones_ =
                           [event |-> e, value |-> v, client |-> c]]
        ELSE IF old.provided /\ changed(old, v)
        THEN send_current(race(stored, "one", old.field), c, e)
        ELSE w

\* pending_notify_ones_mutex_ is held: if c is not subscribed to the event that
\* waits, notify_one locks it once more and the process hangs.
send_pending_notify_ones(w, c) ==
    LET n == w.hoster.pending_notify_ones_
    IN  IF n = NoNotifyOne THEN w
        ELSE IF c \in w.hoster.local_endpoints_ /\ c \notin w.hoster.events_[n.event].subs
        THEN [w EXCEPT !.hoster.stuck = TRUE]
        ELSE [race(notify_one(w, n.event, n.value, c), "misdirected", n.client # c)
                 EXCEPT !.hoster.pending_notify_ones_ = NoNotifyOne]

\* Mutant: a new subscriber waits for the next change.
base_subscribe_silent(w, k, c) ==
    [w EXCEPT !.hoster.events_ = insert_subscription(w.hoster.events_, k, c).events]

base_subscribe(w, k, c) ==
    LET i == insert_subscription(w.hoster.events_, k, c)
        one(e, a) == send_current(a, c, e)
    IN  FoldSet(one, [w EXCEPT !.hoster.events_ = i.events], current_values(i, k))

send_subscribe_ack(w, k, c) == send_to(w, c, Command("SUBSCRIBE_ACK", k, NoValue, c))
send_subscribe_nack(w, k, c) == send_to(w, c, Command("SUBSCRIBE_NACK", k, NoValue, c))

\* Mutant: a rejected subscriber is inserted all the same.
accept_known_always(w, k, c, accepted) ==
    send_pending_notify_ones(
        base_subscribe(IF accepted THEN send_subscribe_ack(w, k, c)
                                   ELSE send_subscribe_nack(w, k, c), k, c), c)

\* A rejected subscription that repeats an accepted one leaves it in place.
reject(w, k, c) ==
    send_subscribe_nack(
        race(w, "repeated", \E e \in Addressed(w.hoster.events_, k) : c \in w.hoster.events_[e].subs),
        k, c)

\* The answer of the subscription handler, for a subscriber known when its
\* SUBSCRIBE arrived: acknowledged first, then inserted.
accept_known(w, k, c, accepted) ==
    IF accepted
    THEN send_pending_notify_ones(base_subscribe(send_subscribe_ack(w, k, c), k, c), c)
    ELSE reject(w, k, c)

\* For one that became known later: inserted first, and all that waited for
\* this subscriber is forgotten.
accept_pending(w, k, c, accepted) ==
    LET answered == IF accepted
                    THEN send_pending_notify_ones(
                             send_subscribe_ack(base_subscribe(w, k, c), k, c), c)
                    ELSE reject(w, k, c)
    IN  [answered EXCEPT !.hoster.pending_incoming = {p \in @ : p.client # c}]

get_remote_subscriber_count(n, increment) ==
    IF increment THEN n + 1 ELSE IF n > 0 THEN n - 1 ELSE 0

\* notify_remote_initially sends the values to the routing manager.
notify_remote_initially(w, events) ==
    LET one(e, a) == put(a, ToHost,
                         Command("NOTIFY", e, w.hoster.events_[e].value, ROUTING_CLIENT))
    IN  FoldSet(one, w, events)

\* For a remote subscriber: inserted and counted whatever the answer.
accept_remote(w, k, r, accepted) ==
    LET answer == IF accepted THEN "SUBSCRIBE_ACK" ELSE "SUBSCRIBE_NACK"
        answered == put(race(w, "count", ~accepted), ToHost, Command(answer, k, NoValue, r))
        i == insert_subscription(w.hoster.events_, k, ROUTING_CLIENT)
    IN  notify_remote_initially(
            [answered EXCEPT !.hoster.events_ = i.events,
                             !.hoster.remote_subscriber_count_ =
                                 get_remote_subscriber_count(@, TRUE)],
            current_values(i, ANY_EVENT))

accept(w, s, accepted) ==
    CASE s.via = "known" -> accept_known(w, s.event, s.client, accepted)
      [] s.via = "pending" -> accept_pending(w, s.event, s.client, accepted)
      [] s.via = "remote" -> accept_remote(w, s.event, s.client, accepted)

\* application_impl::on_subscription: a handler answers at once, or keeps the
\* callback and answers later.
on_subscription(w, s, accepted) ==
    IF scenario.handler = "async"
    THEN [w EXCEPT !.hoster.callbacks = Append(@, s)]
    ELSE accept(w, s, accepted)

Subscription(via, k, c) == [via |-> via, event |-> k, client |-> c]

\* SUBSCRIBE of a local client that knows the service from its n-th offer.
\* Nobody asks whether that is still the present one.
on_subscribe(w, k, c, n, accepted) ==
    LET seen == race(w, "lagging", ~w.hoster.offered \/ n # w.hoster.offers)
    IN  IF c \in w.hoster.known_clients_
        THEN on_subscription(find_or_create_local(seen, c), Subscription("known", k, c), accepted)
        ELSE [seen EXCEPT !.hoster.pending_incoming =
                              @ \union {Subscription("pending", k, c)}]

\* UNSUBSCRIBE of a local client.  A subscription that still waits, for its
\* client to become known or for the handler, stays.
on_unsubscribe(w, k, c) ==
    [race(w, "outrun", \/ \E p \in w.hoster.pending_incoming : p.client = c
                       \/ \E i \in DOMAIN w.hoster.callbacks : w.hoster.callbacks[i].client = c)
        EXCEPT !.hoster.events_ = base_unsubscribe(@, k, c)]

\* UNSUBSCRIBE of a remote subscriber, forwarded by the routing manager.
on_remote_unsubscribe(w, r) ==
    LET n == get_remote_subscriber_count(w.hoster.remote_subscriber_count_, FALSE)
    IN  put([w EXCEPT !.hoster.remote_subscriber_count_ = n,
                      !.hoster.events_ = IF n = 0
                                         THEN base_unsubscribe(@, ANY_EVENT, ROUTING_CLIENT)
                                         ELSE @],
            ToHost, Command("UNSUBSCRIBE_ACK", ANY_EVENT, NoValue, r))

\* remove_local: the client's subscriptions and endpoint go.
remove_local(w, c) ==
    [w EXCEPT !.hoster.events_ = base_unsubscribe(@, ANY_EVENT, c),
              !.hoster.local_endpoints_ = @ \ {c},
              !.hoster.broken = @ \ {c}]

\* End of on_routing_info: subscriptions of clients that are known by now.
accept_incoming(w, accepted) ==
    LET one(s, a) == on_subscription(find_or_create_local(a, s.client), s, accepted)
    IN  FoldSet(one, w, {s \in w.hoster.pending_incoming :
                            s.client \in w.hoster.known_clients_})

\* A new run of the client may have subscribed already when the end of the
\* previous one is reported.
hoster_on_routing_info(w, m, accepted) ==
    accept_incoming(
        IF m.type = "ADD_CLIENT"
        THEN [w EXCEPT !.hoster.known_clients_ = @ \union {m.who}]
        ELSE remove_local([race(w, "overtaken", app[m.who].pending_subscriptions_ # {})
                               EXCEPT !.hoster.known_clients_ = @ \ {m.who}], m.who),
        accepted)

-----------------------------------------------------------------------------
(* A subscribing process: application_impl on top of its proxy.            *)

\* check_for_active_subscription: the subscription a notification is passed on
\* for, or none.
ActiveSubscription(a, e) ==
    IF a.subscriptions_[e] # "none" THEN {e}
    ELSE IF a.subscriptions_[ANY_EVENT] # "none" /\ a.events_[e].grouped THEN {ANY_EVENT}
    ELSE {}

\* application_impl::on_message for a notification; seen is what the handlers
\* of the application were given last.
deliver(a, e, v) ==
    LET found == ActiveSubscription(a, e)
    IN  IF found = {} THEN a
        ELSE [a EXCEPT !.subscriptions_ = [k \in Key |-> IF k \in found THEN "initial" ELSE @[k]],
                       !.seen[e] = v]

\* cache_event_payload: the subscriber's own copy of a field.
cache_event_payload(a, e, v) ==
    LET known == IF a.events_[e].exists THEN a.events_
                 ELSE register_event(a.events_, e, FALSE, TRUE, FALSE, TRUE)
    IN  IF known[e].field
        THEN [a EXCEPT !.events_ = [known EXCEPT ![e] = set_payload_dont_notify(@, v)]]
        ELSE a

on_notification_received(a, e, v) == deliver(cache_event_payload(a, e, v), e, v)

\* An initial value was received for a subscription that exists already.
check_send_back_cached_event(a, k) == a.subscriptions_[k] = "initial"

\* send_back_cached_event and send_back_cached_eventgroup.
send_back_cached(a, k) ==
    LET one(e, b) == deliver(b, e, b.events_[e].value)
    IN  IF ~check_send_back_cached_event(a, k) THEN a
        ELSE FoldSet(one, a, {e \in Addressed(a.events_, k) \ {ANY_EVENT} :
                                 a.events_[e].field /\ a.events_[e].set})

\* check_subscription_state
should_subscribe(a, k) == a.subscription_state_[k] \in {"none", "nack"}

\* subscribe of the application and of its proxy.
subscribe(a, k) ==
    LET back == send_back_cached(a, k)
        asked == IF a.subscriptions_[k] = "none"
                 THEN [back EXCEPT !.subscriptions_[k] = "asked"] ELSE back
    IN  IF ~should_subscribe(a, k) THEN asked
        ELSE [asked EXCEPT !.subscription_state_[k] = IF @ = "none" THEN "subscribing" ELSE @,
                           !.pending_subscriptions_ = @ \union {k}]

\* A withdrawal for the whole eventgroup covers all its events.
remove_pending_subscription(pending, k) ==
    IF k = ANY_EVENT THEN {} ELSE pending \ {k}

unsubscribe(a, k) ==
    [a EXCEPT !.subscription_state_[k] = "none",
              !.subscriptions_[k] = "none",
              !.seen = [e \in Event |-> IF k \in {e, ANY_EVENT} THEN NoValue ELSE @[e]],
              !.pending_subscriptions_ = remove_pending_subscription(@, k)]

\* on_subscription_status
on_subscription_status(a, e, state) ==
    LET found == {k \in {e, ANY_EVENT} : a.subscription_state_[k] # "none"}
        k == IF e \in found THEN e ELSE ANY_EVENT
    IN  IF found = {} THEN a ELSE [a EXCEPT !.subscription_state_[k] = state]

\* on_subscribe_ack and on_subscribe_nack: the answer for the eventgroup is
\* passed on for each of its events this process registered.
on_answer(a, k, state) ==
    LET one(e, b) == on_subscription_status(b, e, state)
    IN  FoldSet(one, a, Addressed(a.events_, k))

\* Mutant: the subscriptions are not made anew when the service is back.
send_pending_subscriptions_never(a, c, n) == <<>>

\* send_pending_subscriptions: all subscriptions are (re)made with the service.
send_pending_subscriptions(a, c, n) ==
    LET one(k) == Command("SUBSCRIBE", k, n, c)
        keys == SetToSeq(a.pending_subscriptions_)
    IN  [i \in DOMAIN keys |-> one(keys[i])]

on_service_added(a, n) == [a EXCEPT !.service = n]

\* DEL_SERVICE: on_stop_offer_service leaves the cached values of events others
\* provide; application_impl::on_availability resets what it knows.
on_service_deleted(a) ==
    IF a.service = NoOffer THEN a
    ELSE [a EXCEPT !.service = NoOffer,
                   !.seen = [e \in Event |-> NoValue],
                   !.subscriptions_ = [k \in Key |-> IF @[k] = "none" THEN "none" ELSE "asked"],
                   !.subscription_state_ = [k \in Key |-> IF @[k] = "none" THEN "none" ELSE "nack"]]

-----------------------------------------------------------------------------
(* The routing manager: shadow events and remote subscribers.  A step works *)
(* on a record r of its state and the races seen.                          *)

NoShadow == [exists |-> FALSE, field |-> FALSE, set |-> FALSE, value |-> NoValue,
             pending |-> FALSE]

Targets(h) == {t \in Remote : h.remotes[t] = "subscribed"}

\* The notification goes out to every target.
send_to_targets(h, e, v) ==
    [h EXCEPT !.seen = [t \in Remote |-> IF t \in Targets(h) THEN [@[t] EXCEPT ![e] = v]
                                                            ELSE @[t]]]

store(h, e, v) == [h EXCEPT !.events_[e].set = TRUE, !.events_[e].value = v]

\* Mutant: the first value is stored, and nobody who waits for it gets it.
on_notification_stored(h, e, v) ==
    LET s == h.events_[e]
    IN  IF s.set /\ s.value = v /\ s.field THEN h
        ELSE IF s.field /\ ~s.set THEN store(h, e, v)
        ELSE send_to_targets(store(h, e, v), e, v)

\* on_notification.  The first value of a field is only stored, because new
\* subscribers get it from send_initial_events; unless some got none there.
\* Then it goes to each target, and is stored with it.
on_notification(h, e, v) ==
    LET s == h.events_[e]
    IN  IF ~s.exists THEN h
        ELSE IF s.field /\ s.set
        THEN IF s.value = v THEN h ELSE send_to_targets(store(h, e, v), e, v)
        ELSE IF s.field
        THEN IF ~s.pending THEN store(h, e, v)
             ELSE LET sent == [send_to_targets(h, e, v) EXCEPT !.events_[e].pending = FALSE]
                  IN  IF Targets(h) = {} THEN sent ELSE store(sent, e, v)
        ELSE send_to_targets(store(h, e, v), e, v)

\* send_initial_events
send_initial_events(h, t) ==
    [h EXCEPT !.seen[t] = [e \in Event |-> IF h.events_[e].field /\ h.events_[e].set
                                          THEN h.events_[e].value ELSE @[e]],
              !.events_ = [e \in Event |-> IF @[e].exists /\ @[e].field /\ ~@[e].set
                                          THEN [@[e] EXCEPT !.pending = TRUE] ELSE @[e]]]

\* on_subscribe_ack and on_subscribe_nack for a pending remote subscription.
on_remote_answer(h, t, acknowledged) ==
    IF h.remotes[t] # "subscribing" THEN h
    ELSE IF acknowledged
    THEN send_initial_events([h EXCEPT !.remotes[t] = "subscribed"], t)
    ELSE [h EXCEPT !.remotes[t] = "idle"]

on_unsubscribe_ack(h, t) ==
    IF h.remotes[t] = "unsubscribing" THEN [h EXCEPT !.remotes[t] = "idle"] ELSE h

unset_shadows(h) ==
    [h EXCEPT !.events_ = [e \in Event |-> [@[e] EXCEPT !.set = FALSE, !.value = NoValue]]]

\* on_unsubscribe: the target goes at once, and with the last one the values.
on_remote_unsubscription(h, t) ==
    LET gone == [h EXCEPT !.remotes[t] = "unsubscribing",
                          !.seen[t] = [e \in Event |-> NoValue]]
    IN  IF Targets(gone) = {} THEN unset_shadows(gone) ELSE gone

\* on_stop_offer_service and del_routing_info, as far as the events go.
on_stop_offer_service(h) ==
    unset_shadows([h EXCEPT !.offered = NoOffer,
                            !.remotes = [t \in Remote |-> "idle"],
                            !.seen = [t \in Remote |-> [e \in Event |-> NoValue]]])

register_shadow_event(h, e, is_field) ==
    [h EXCEPT !.events_[e].exists = TRUE, !.events_[e].field = is_field]

-----------------------------------------------------------------------------
(* Actions.                                                                *)

\* A call of an application, or a fault, within the scenario's bounds.
Call(kind) == left[kind] > 0 /\ left' = [left EXCEPT ![kind] = @ - 1]

World == [hoster |-> hoster, net |-> net, irregular |-> irregular]

Becomes(w) == hoster' = w.hoster /\ net' = w.net /\ irregular' = w.irregular

HosterIdle == UNCHANGED <<scenario, app, host>> /\ ~hoster.stuck

Answers == IF scenario.handler = "decide" THEN BOOLEAN ELSE {TRUE}

\* The application that offers: offer_service, stop_offer_service, offer_event,
\* notify and notify_one.
OfferService ==
    /\ HosterIdle
    /\ ~hoster.offered
    /\ Becomes(put([World EXCEPT !.hoster.offered = TRUE, !.hoster.offers = @ + 1], ToHost,
                   Command("OFFER_SERVICE", ANY_EVENT, hoster.offers + 1, ROUTING_CLIENT)))
    /\ UNCHANGED left

StopOfferService ==
    /\ HosterIdle
    /\ hoster.offered
    /\ Call("stop")
    /\ Becomes(put([race(race(World, "count", hoster.remote_subscriber_count_ > 0),
                         "lagging", hoster.pending_incoming # {} \/ hoster.callbacks # <<>>)
                       EXCEPT !.hoster.offered = FALSE,
                              !.hoster.events_ = base_stop_offer_service(@)],
                   ToHost, Command("STOP_OFFER_SERVICE", ANY_EVENT, NoValue, ROUTING_CLIENT)))

\* register_event of the proxy and REGISTER_EVENT.
RegisterOffered(w, e) ==
    put([w EXCEPT !.hoster.events_ =
             register_event(@, e, TRUE, e \in scenario.fields, TRUE, FALSE)],
        ToHost, Command("REGISTER_EVENT", e, NoValue, ROUTING_CLIENT))

OfferEvent(e) ==
    /\ HosterIdle
    /\ ~hoster.events_[e].provided
    /\ Call("event")
    /\ Becomes(RegisterOffered(World, e))

Notify(e, v) ==
    /\ HosterIdle
    /\ hoster.offered
    /\ Call("notify")
    /\ Becomes(notify(World, e, v))

NotifyOne(e, v, c) ==
    /\ HosterIdle
    /\ hoster.offered
    /\ Call("one")
    /\ Becomes(notify_one(World, e, v, c))

\* The kept callback of a subscription handler is called.
AnswerSubscription(i, accepted) ==
    /\ HosterIdle
    /\ i \in DOMAIN hoster.callbacks
    /\ Becomes(accept([World EXCEPT !.hoster.callbacks = RemoveAt(@, i)],
                      hoster.callbacks[i], accepted))
    /\ UNCHANGED left

\* routing_manager_proxy::on_message in the offering process, for a command of
\* a subscriber and for one of the routing manager.
HosterReceive(c, accepted) ==
    /\ HosterIdle
    /\ net[FromClient(c)] # <<>>
    /\ LET m == Head(net[FromClient(c)])
           w == [World EXCEPT !.net[FromClient(c)] = Tail(@)]
       IN  Becomes(IF m.type = "SUBSCRIBE" THEN on_subscribe(w, m.event, c, m.value, accepted)
                                           ELSE on_unsubscribe(w, m.event, c))
    /\ UNCHANGED left

HosterRoutingInfo(accepted) ==
    /\ HosterIdle
    /\ net[RoutingInfo("hoster")] # <<>>
    /\ LET m == Head(net[RoutingInfo("hoster")])
           w == [World EXCEPT !.net[RoutingInfo("hoster")] = Tail(@)]
       IN  Becomes(IF m.type = "SUBSCRIBE"
                   THEN on_subscription(race(w, "count", ~hoster.offered),
                                        Subscription("remote", ANY_EVENT, m.who), accepted)
                   ELSE IF m.type = "UNSUBSCRIBE" THEN on_remote_unsubscribe(w, m.who)
                   ELSE hoster_on_routing_info(w, m, accepted))
    /\ UNCHANGED left

\* handle_client_error: the connection to a dead client breaks.
HosterClientError(c) ==
    /\ HosterIdle
    /\ c \in hoster.broken
    /\ Becomes(remove_local(World, c))
    /\ UNCHANGED left

ClientIdle(c) == app[c].up /\ UNCHANGED <<scenario, hoster, host>>

Subscribe(c, k) ==
    /\ ClientIdle(c)
    /\ Call("subscribe")
    /\ app' = [app EXCEPT ![c] = subscribe(@, k)]
    /\ net' = IF should_subscribe(app[c], k) /\ app[c].service # NoOffer
              THEN [net EXCEPT ![FromClient(c)] =
                        Append(@, Command("SUBSCRIBE", k, app[c].service, c))]
              ELSE net
    /\ UNCHANGED irregular

\* Without the service the command goes to the routing manager, which does not
\* pass it on.
Unsubscribe(c, k) ==
    /\ ClientIdle(c)
    /\ app[c].subscriptions_[k] # "none"
    /\ Call("subscribe")
    /\ app' = [app EXCEPT ![c] = unsubscribe(@, k)]
    /\ net' = IF app[c].service # NoOffer
              THEN [net EXCEPT ![FromClient(c)] =
                        Append(@, Command("UNSUBSCRIBE", k, NoValue, c))]
              ELSE net
    /\ UNCHANGED irregular

RequestEvent(c, e) ==
    /\ ClientIdle(c)
    /\ ~app[c].events_[e].grouped
    /\ Call("event")
    /\ app' = [app EXCEPT ![c].events_ =
                   register_event(@, e, TRUE, e \in scenario.fields, FALSE, FALSE)]
    /\ UNCHANGED <<net, irregular>>

\* routing_manager_proxy::on_message in a subscribing process, for a command of
\* the offering process.
ClientReceive(c) ==
    /\ ClientIdle(c)
    /\ net[ToClient(c)] # <<>>
    /\ LET m == Head(net[ToClient(c)])
       IN  app' = [app EXCEPT ![c] =
               IF m.type = "SEND" THEN on_notification_received(@, m.event, m.value)
               ELSE on_answer(@, m.event, IF m.type = "SUBSCRIBE_ACK" THEN "ack" ELSE "nack")]
    /\ net' = [net EXCEPT ![ToClient(c)] = Tail(@)]
    /\ UNCHANGED <<left, irregular>>

\* on_routing_info in a subscribing process.
ClientRoutingInfo(c) ==
    /\ ClientIdle(c)
    /\ net[RoutingInfo(c)] # <<>>
    /\ LET m == Head(net[RoutingInfo(c)])
           added == m.type = "ADD_SERVICE"
           sent == IF added THEN send_pending_subscriptions(app[c], c, m.value) ELSE <<>>
       IN  /\ app' = [app EXCEPT ![c] = IF added THEN on_service_added(@, m.value)
                                                 ELSE on_service_deleted(@)]
           /\ net' = [net EXCEPT ![RoutingInfo(c)] = Tail(@), ![FromClient(c)] = @ \o sent]
           /\ irregular' = irregular \union
                 (IF ~added /\ net[ToClient(c)] # <<>> THEN {"late"} ELSE {})
    /\ UNCHANGED left

FreshApp ==
    [up |-> TRUE, service |-> NoOffer,
     events_ |-> [k \in Key |->
         IF k \in scenario.requested
         THEN [NoEvent EXCEPT !.exists = TRUE, !.grouped = TRUE, !.field = k \in scenario.fields]
         ELSE NoEvent],
     subscriptions_ |-> [k \in Key |-> "none"],
     subscription_state_ |-> [k \in Key |-> "none"],
     pending_subscriptions_ |-> {},
     seen |-> [e \in Event |-> NoValue]]

\* The process ends.  What it has written still arrives.
Crash(c) ==
    /\ app[c].up
    /\ Call("crash")
    /\ app' = [app EXCEPT ![c] = [FreshApp EXCEPT !.up = FALSE]]
    /\ net' = [net EXCEPT ![ToClient(c)] = <<>>, ![RoutingInfo(c)] = <<>>]
    /\ hoster' = [hoster EXCEPT !.broken = @ \union ({c} \intersect hoster.local_endpoints_)]
    /\ irregular' = irregular \union
          (IF \/ net[FromClient(c)] # <<>>
              \/ \E p \in hoster.pending_incoming : p.client = c
              \/ \E i \in DOMAIN hoster.callbacks : hoster.callbacks[i].client = c
           THEN {"leftover"} ELSE {})
    /\ UNCHANGED <<scenario, host>>

\* The routing manager notices.
Deregister(c) ==
    /\ ~app[c].up /\ c \in host.clients
    /\ host' = [host EXCEPT !.clients = @ \ {c}]
    /\ net' = [net EXCEPT ![RoutingInfo("hoster")] =
                   Append(@, Command("DEL_CLIENT", ANY_EVENT, NoValue, c))]
    /\ UNCHANGED <<scenario, hoster, app, left, irregular>>

\* The requesters of the service and its provider are told of each other.
Introduce(n, offer, clients) ==
    LET tell(c, m) ==
          [m EXCEPT ![RoutingInfo("hoster")] = Append(@, Command("ADD_CLIENT", ANY_EVENT, NoValue, c)),
                    ![RoutingInfo(c)] = Append(@, Command("ADD_SERVICE", ANY_EVENT, offer, c))]
    IN  FoldSet(tell, n, clients)

\* It is started again, registers and requests the service.
Restart(c) ==
    /\ ~app[c].up /\ c \notin host.clients /\ c \in scenario.clients
    /\ app' = [app EXCEPT ![c] = FreshApp]
    /\ host' = [host EXCEPT !.clients = @ \union {c}]
    /\ net' = Introduce(net, host.offered, IF host.offered = NoOffer THEN {} ELSE {c})
    /\ UNCHANGED <<scenario, hoster, left, irregular>>

\* routing_manager_stub::on_message, for a command of the offering process.
HostReceive ==
    /\ net[ToHost] # <<>>
    /\ LET m == Head(net[ToHost])
           rest == [net EXCEPT ![ToHost] = Tail(@)]
           withdrawn(c, n) == [n EXCEPT ![RoutingInfo(c)] =
                                   Append(@, Command("DEL_SERVICE", ANY_EVENT, NoValue, c))]
       IN  /\ host' = CASE m.type = "OFFER_SERVICE" -> [host EXCEPT !.offered = m.value]
                        [] m.type = "STOP_OFFER_SERVICE" -> on_stop_offer_service(host)
                        [] m.type = "REGISTER_EVENT" ->
                             register_shadow_event(host, m.event, m.event \in scenario.fields)
                        [] m.type = "NOTIFY" -> on_notification(host, m.event, m.value)
                        [] m.type = "SUBSCRIBE_ACK" -> on_remote_answer(host, m.who, TRUE)
                        [] m.type = "SUBSCRIBE_NACK" -> on_remote_answer(host, m.who, FALSE)
                        [] m.type = "UNSUBSCRIBE_ACK" -> on_unsubscribe_ack(host, m.who)
           /\ net' = CASE m.type = "OFFER_SERVICE" -> Introduce(rest, m.value, host.clients)
                       [] m.type = "STOP_OFFER_SERVICE" -> FoldSet(withdrawn, rest, host.clients)
                       [] OTHER -> rest
           /\ irregular' = irregular \union
                 (IF m.type = "NOTIFY" /\ host.events_[m.event].pending
                        /\ ~host.events_[m.event].set /\ Targets(host) = {}
                  THEN {"dropped"} ELSE {})
    /\ UNCHANGED <<scenario, hoster, app, left>>

\* A remote device subscribes, on_remote_subscription, and unsubscribes.
RemoteSubscribe(t) ==
    /\ host.offered # NoOffer
    /\ \E e \in Event : host.events_[e].exists
    /\ host.remotes[t] = "idle"
    /\ Call("remote")
    /\ host' = [host EXCEPT !.remotes[t] = "subscribing"]
    /\ net' = [net EXCEPT ![RoutingInfo("hoster")] =
                   Append(@, Command("SUBSCRIBE", ANY_EVENT, NoValue, t))]
    /\ UNCHANGED <<scenario, hoster, app, irregular>>

RemoteUnsubscribe(t) ==
    /\ host.remotes[t] = "subscribed"
    /\ Call("remote")
    /\ host' = on_remote_unsubscription(host, t)
    /\ net' = [net EXCEPT ![RoutingInfo("hoster")] =
                   Append(@, Command("UNSUBSCRIBE", ANY_EVENT, NoValue, t))]
    /\ irregular' = irregular \union
          (IF Targets(host) = {t} /\ \E o \in Remote : host.remotes[o] = "subscribing"
           THEN {"unset"} ELSE {})
    /\ UNCHANGED <<scenario, hoster, app>>

-----------------------------------------------------------------------------
\* A scenario says which events are fields, which are offered and requested
\* from the start, what clients subscribe to, how the subscription handler
\* answers, who takes part and how often each kind of call is made.  The
\* application does not mix subscriptions to single events with subscriptions
\* to their eventgroup.
InitScenario(s) ==
    /\ scenario = s
    /\ hoster = [offered |-> FALSE, offers |-> 0,
                 events_ |-> [k \in Key |->
                     IF k \in s.offered
                     THEN [NoEvent EXCEPT !.exists = TRUE, !.grouped = TRUE, !.provided = TRUE,
                                          !.field = k \in s.fields]
                     ELSE NoEvent],
                 known_clients_ |-> {}, local_endpoints_ |-> {}, broken |-> {},
                 pending_incoming |-> {}, pending_notify_ones_ |-> NoNotifyOne,
                 callbacks |-> <<>>, remote_subscriber_count_ |-> 0, stuck |-> FALSE]
    /\ app = [c \in Client |-> [FreshApp EXCEPT !.up = c \in s.clients]]
    /\ host = [offered |-> NoOffer, clients |-> s.clients,
               events_ |-> [e \in Event |-> IF e \in s.offered
                               THEN [NoShadow EXCEPT !.exists = TRUE, !.field = e \in s.fields]
                               ELSE NoShadow],
               remotes |-> [t \in Remote |-> "idle"],
               seen |-> [t \in Remote |-> [e \in Event |-> NoValue]]]
    /\ net = [i \in Connections |-> <<>>]
    /\ left = s.calls
    /\ irregular = {}

Init == \E s \in Scenarios : InitScenario(s)

Receive ==
    \/ \E accepted \in Answers :
          \/ \E c \in Client : HosterReceive(c, accepted)
          \/ HosterRoutingInfo(accepted)
          \/ \E i \in DOMAIN hoster.callbacks : AnswerSubscription(i, accepted)
    \/ HostReceive
    \/ \E c \in Client : ClientReceive(c) \/ ClientRoutingInfo(c)

Next ==
    \/ Receive
    \/ OfferService
    \/ StopOfferService
    \/ \E e \in Event : OfferEvent(e)
    \/ \E e \in Event, v \in Value : Notify(e, v)
    \/ \E e \in Event, v \in Value, c \in Client : NotifyOne(e, v, c)
    \/ \E c \in Client : HosterClientError(c)
    \/ \E c \in Client, k \in scenario.keys : Subscribe(c, k)
    \/ \E c \in Client, k \in scenario.keys : Unsubscribe(c, k)
    \/ \E c \in Client, e \in Event : RequestEvent(c, e)
    \/ \E c \in Client : Crash(c)
    \/ \E c \in Client : Deregister(c)
    \/ \E c \in Client : Restart(c)
    \/ \E t \in Remote : RemoteSubscribe(t)
    \/ \E t \in Remote : RemoteUnsubscribe(t)

Spec == Init /\ [][Next]_vars

\* Receive is enabled.
Unread ==
    \/ net[ToHost] # <<>>
    \/ ~hoster.stuck /\ (hoster.callbacks # <<>> \/ net[RoutingInfo("hoster")] # <<>>)
    \/ \E c \in Client :
          \/ ~hoster.stuck /\ net[FromClient(c)] # <<>>
          \/ app[c].up /\ (net[ToClient(c)] # <<>> \/ net[RoutingInfo(c)] # <<>>)

\* Every process reads its connections, and a kept callback is called some day.
\* As each call leads to finitely many commands, this is weak fairness of
\* Receive: it is disabled again and again.
Fairness == []<>~Unread

FairSpec == Spec /\ Fairness

-----------------------------------------------------------------------------
(* Properties.                                                             *)

TypeOK ==
    /\ scenario \in Scenarios
    /\ hoster.known_clients_ \subseteq Client
    /\ hoster.broken \subseteq hoster.local_endpoints_
    /\ hoster.remote_subscriber_count_ \in Nat
    /\ \A k \in Key : /\ hoster.events_[k].subs \subseteq Client \union {ROUTING_CLIENT}
                      /\ hoster.events_[k].set = (hoster.events_[k].value # NoValue)
                      /\ hoster.events_[k].set => hoster.events_[k].provided
    /\ \A c \in Client : /\ app[c].subscriptions_ \in [Key -> {"none", "asked", "initial"}]
                         /\ app[c].subscription_state_ \in [Key -> {"none", "subscribing", "ack", "nack"}]
                         /\ app[c].pending_subscriptions_ \subseteq Key
    /\ host.remotes \in [Remote -> {"idle", "subscribing", "subscribed", "unsubscribing"}]
    /\ \A e \in Event : host.events_[e].set = (host.events_[e].value # NoValue)
    /\ irregular \subseteq {"one", "misdirected", "lagging", "outrun", "overtaken", "leftover",
                            "late", "count", "dropped", "unset", "repeated"}

Regular(races) == irregular \intersect races = {}

\* Nothing is under way, and no client's end is still to be noticed.
Quiet ==
    /\ \A i \in Connections : net[i] = <<>>
    /\ hoster.callbacks = <<>> /\ ~hoster.stuck
    /\ hoster.broken = {} /\ \A c \in host.clients : app[c].up

Covers(k, e) == k \in {e, ANY_EVENT}

\* When nothing is under way, the clients subscribed in the offering process are
\* those whose application wants the event and was told so: an acknowledged
\* subscription is in place, and one that was withdrawn or rejected is gone.
SubscribersAgree ==
    Quiet /\ hoster.offered /\ Regular({"lagging", "outrun", "overtaken", "leftover", "repeated"}) =>
        \A c \in Client, e \in Event :
            hoster.events_[e].provided =>
                (c \in hoster.events_[e].subs <=>
                    \E k \in app[c].pending_subscriptions_ :
                        Covers(k, e) /\ app[c].subscription_state_[k] = "ack")

\* The state is well formed, and both ends agree on the subscriptions.
SubscriptionsAgree == TypeOK /\ SubscribersAgree

\* When nothing is under way, the application of an acknowledged subscriber has
\* been given the present value of the field last (base_subscribe sends it, and
\* notify each change), however subscriptions and changes interleaved.
LocalCurrent ==
    Quiet /\ hoster.offered /\ Regular({"lagging", "outrun", "overtaken", "leftover", "one"}) =>
        \A c \in Client, e \in Event, k \in Key :
            /\ k \in app[c].pending_subscriptions_ /\ Covers(k, e)
            /\ app[c].subscription_state_[k] = "ack"
            /\ hoster.events_[e].field /\ hoster.events_[e].set
            => app[c].seen[e] = hoster.events_[e].value

\* What a second subscribe call sends back from the cache (send_back_cached) is
\* the present value, not one of the service's previous run.
CacheCurrent ==
    Quiet /\ hoster.offered /\ Regular({"lagging", "outrun", "overtaken", "leftover", "one", "late"}) =>
        \A c \in Client, e \in Event :
            /\ app[c].subscriptions_[e] = "initial" /\ app[c].subscription_state_[e] = "ack"
            /\ app[c].events_[e].field /\ app[c].events_[e].set
            => app[c].events_[e].value = hoster.events_[e].value

\* Local subscribers and their caches have the present values.
ValuesCurrent == LocalCurrent /\ CacheCurrent

\* When nothing is under way, a remote subscriber has been sent the present
\* value of the field last: by send_initial_events, by the first NOTIFY it
\* waited for, or by a change.
RemoteCurrent ==
    Quiet /\ hoster.offered /\ Regular({"count", "dropped", "unset", "one"}) =>
        \A t \in Remote, e \in Event :
            /\ host.remotes[t] = "subscribed"
            /\ hoster.events_[e].field /\ hoster.events_[e].set
            => host.seen[t][e] = hoster.events_[e].value

\* A subscription is answered as long as the service is offered, whichever of
\* the subscriber's command and its introduction by the routing manager reaches
\* the offering process first (pending_incoming_subscripitons_).
Answered ==
    \A c \in Client, k \in Key :
        app[c].subscription_state_[k] = "subscribing" /\ hoster.offered
            ~> \/ app[c].subscription_state_[k] # "subscribing"
               \/ ~hoster.offered \/ hoster.stuck \/ ~Regular({"overtaken"})
=============================================================================
