----------------------------- MODULE Application -----------------------------
(***************************************************************************)
(* The callbacks an application registers with application_impl, and what  *)
(* they are told: availability handlers, with wildcards for service,       *)
(* instance and version, and subscription status handlers.  The routing    *)
(* manager calls on_state, on_availability and on_subscription_status from *)
(* its threads, the user's thread registers handlers and subscribes, and   *)
(* the reports wait in handlers_ for the dispatcher.  One application, one *)
(* eventgroup.                                                             *)
(***************************************************************************)
EXTENDS Integers, Sequences, FiniteSetsExt, SequencesExt

CONSTANTS
    Service, Instance,  \* the services and instances offered, numbers
    Major, Minor,       \* the versions offered; Minor holds numbers of uint32_t
    Event,              \* the events of the eventgroup of subscription
    Scenarios,          \* the scenarios considered
    IntMax,             \* largest std::int32_t
    None,               \* no value
    ANY                 \* ANY_SERVICE, ANY_INSTANCE, ANY_MAJOR, ANY_MINOR, ANY_EVENT

VARIABLES
    scenario,       \* calls: how often each operation may be called; keys and
                    \* statuses: the handlers that may be registered; versions:
                    \* those that are offered
    offered,        \* per service instance: the version offered, or none
    state,          \* state_: registered with the routing manager
    available,      \* available_: per service instance, minor version per major
    availability,   \* availability_: per key, the handler and whether it was told
    handlers,       \* handlers_: reports that wait for the dispatcher
    told,           \* what each availability handler heard last of each instance
    subscription,   \* subscription_state_ per event subscribed to
    status_handlers,\* subscription_status_handlers_: per key, the handler
    status,         \* what each status handler heard last of each event
    doing,          \* per thread: a report of a subscription status still to be queued
    calls,          \* calls left
    loose,          \* ghost: <<handler, instance>> told of another version at registration
    unheard         \* ghost: events whose state changed without, or against, a report

vars == <<scenario, offered, state, available, availability, handlers, told, subscription,
          status_handlers, status, doing, calls, loose, unheard>>

Place == Service \X Instance
Version == Major \X Minor
Thread == {"io", "user"}
TheGroup == CHOOSE p \in Place : \A q \in Place : p[1] <= q[1] /\ p[2] <= q[2]

DEFAULT_MAJOR == 0
DEFAULT_MINOR == 0

-----------------------------------------------------------------------------
(* Availability.                                                           *)

Present(p) == \E m \in Major : available[p][m] # None

MinorOk(minor, m) == minor \in {ANY, DEFAULT_MINOR} \/ minor <= m

\* check_major_minor: an entry of the major version asked for, or of any if it is a
\* wildcard, with at least the minor version asked for.
check_major_minor(p, major, minor) ==
    IF major \in Major /\ available[p][major] # None
    THEN MinorOk(minor, available[p][major])
    ELSE /\ major \in {ANY, DEFAULT_MAJOR}
         /\ \E m \in Major : available[p][m] # None /\ MinorOk(minor, available[p][m])

is_available(service, instance, major, minor) ==
    \E p \in Place :
        /\ service \in {p[1], ANY}
        /\ instance \in {p[2], ANY}
        /\ Present(p)
        /\ check_major_minor(p, major, minor)

\* are_available: services are chosen by service and minor version; of these all
\* instances with the instance, the major or the minor version asked for are
\* reported.  Without any, the wildcards themselves are, as unavailable.
are_available(k) ==
    LET minor(p) == \E m \in Major : available[p][m] # None /\ MinorOk(k.minor, available[p][m])
        major(p) == k.major \in {ANY, DEFAULT_MAJOR}
                        \/ (k.major \in Major /\ available[p][k.major] # None)
        services == {s \in Service : k.service \in {s, ANY} /\
                                     \E p \in Place : p[1] = s /\ minor(p)}
    IN  {p \in Place : /\ p[1] \in services
                       /\ Present(p)
                       /\ k.instance \in {p[2], ANY} \/ major(p) \/ minor(p)}

\* What do_register_availability_handler makes the dispatcher report.
registration_reports(k) ==
    IF are_available(k) = {} THEN {[place |-> <<k.service, k.instance>>, is_available |-> FALSE]}
    ELSE {[place |-> p, is_available |-> TRUE] : p \in are_available(k)}

\* The version is one the handler was registered for.
Wanted(k, v) ==
    /\ k.major \in {v[1], ANY}
    /\ k.minor = ANY \/ k.minor <= v[2]

\* The loop of on_availability counts down from the minor version in an int32_t.
Reaches(k, v) == k.minor = ANY \/ (v[2] <= IntMax /\ k.minor \in 0..v[2])

Concerns(k, p) == k.service \in {p[1], ANY} /\ k.instance \in {p[2], ANY}

Report(k, n, r) == [type |-> "availability", key |-> k, number |-> n, place |-> r.place,
                    is_available |-> r.is_available]

Reports(k, n) == SetToSeq({Report(k, n, r) : r \in registration_reports(k)})

Loose(k) == {<<k, p>> : p \in {q \in are_available(k) : Concerns(k, q) /\
                               ~(Wanted(k, offered[q]) /\ Reaches(k, offered[q]))}}

\* register_availability_handler: report at once, or when registered.
register_availability_handler(k) ==
    /\ k \in scenario.keys
    /\ calls.register > 0
    /\ LET n == availability[k].number + 1
       IN  /\ availability' = [availability EXCEPT ![k] = [number |-> n, told |-> state, is |-> TRUE]]
           /\ handlers' = IF state THEN handlers \o Reports(k, n) ELSE handlers
    /\ told' = [told EXCEPT ![k] = [p \in Place |-> None]]
    /\ loose' = {l \in loose : l[1] # k} \union (IF state THEN Loose(k) ELSE {})
    /\ calls' = [calls EXCEPT !.register = @ - 1]
    /\ UNCHANGED <<scenario, offered, state, available, subscription, status_handlers, status,
                   doing, unheard>>

unregister_availability_handler(k) ==
    /\ k \in scenario.keys
    /\ availability[k].is
    /\ availability' = [availability EXCEPT ![k].is = FALSE]
    /\ UNCHANGED <<scenario, offered, state, available, handlers, told, subscription,
                   status_handlers, status, doing, calls, loose, unheard>>

\* on_state: once registered, the handlers that wait are told.
on_state(new) ==
    LET waiting == {k \in scenario.keys : availability[k].is /\ ~availability[k].told}
    IN  /\ calls.state > 0
        /\ state # new
        /\ state' = new
        /\ IF new
           THEN /\ availability' = [k \in scenario.keys |->
                       IF k \in waiting THEN [availability[k] EXCEPT !.told = TRUE]
                       ELSE availability[k]]
                /\ handlers' = FoldSet(LAMBDA k, q : q \o Reports(k, availability[k].number),
                                       handlers, waiting)
                /\ loose' = {l \in loose : l[1] \notin waiting}
                                \union UNION {Loose(k) : k \in waiting}
           ELSE UNCHANGED <<availability, handlers, loose>>
        /\ calls' = [calls EXCEPT !.state = @ - 1]
        /\ UNCHANGED <<scenario, offered, available, told, subscription, status_handlers, status,
                       doing, unheard>>

\* find_matching_handler: the handlers to be told of a change of p in version v.
find_matching_handler(p, v) ==
    {k \in scenario.keys : /\ availability[k].is
                           /\ Concerns(k, p)
                           /\ k.major \in {v[1], ANY}
                           /\ Reaches(k, v)}

withdrawn(p, v) ==
    IF available[p][v[1]] = v[2] THEN [available EXCEPT ![p] = [m \in Major |-> None]]
    ELSE available

\* on_availability: nothing new is ignored; a change is noted and queued for every
\* matching handler; subscriptions to a lost service are no longer acknowledged.
on_availability(p, is, v) ==
    LET matching == find_matching_handler(p, v)
        r == [place |-> p, is_available |-> is]
    IN  IF is = is_available(p[1], p[2], v[1], v[2])
        THEN UNCHANGED <<available, handlers, subscription, loose, unheard>>
        ELSE /\ available' = IF is THEN [available EXCEPT ![p][v[1]] = v[2]] ELSE withdrawn(p, v)
             /\ handlers' = handlers \o
                    SetToSeq({Report(k, availability[k].number, r) : k \in matching})
             /\ loose' = {l \in loose : ~(l[1] \in matching /\ l[2] = p)}
             /\ IF ~is /\ p = TheGroup
                THEN /\ subscription' = [e \in DOMAIN subscription |->
                            IF subscription[e] = None THEN None ELSE "nack"]
                     /\ unheard' = unheard \union DOMAIN subscription
                ELSE UNCHANGED <<subscription, unheard>>

\* The routing manager reports an offer, once more or for the first time, or its end.
Offer(p, v) ==
    /\ calls.offer > 0
    /\ offered[p] \in {None, v}
    /\ offered' = [offered EXCEPT ![p] = v]
    /\ on_availability(p, TRUE, v)
    /\ calls' = [calls EXCEPT !.offer = @ - 1]
    /\ UNCHANGED <<scenario, state, availability, told, status_handlers, status, doing>>

StopOffer(p) ==
    /\ offered[p] # None
    /\ offered' = [offered EXCEPT ![p] = None]
    /\ on_availability(p, FALSE, offered[p])
    /\ UNCHANGED <<scenario, state, availability, told, status_handlers, status, doing, calls>>

-----------------------------------------------------------------------------
(* The status of subscriptions to the eventgroup of TheGroup.              *)

\* The handler registered for the event, else the one for any event.
chosen(service, instance, e) ==
    LET exact == [service |-> service, instance |-> instance, event |-> e]
        any == [exact EXCEPT !.event = ANY]
    IN  IF exact \in DOMAIN status_handlers THEN {exact}
        ELSE {any} \intersect DOMAIN status_handlers

Chosen(e) == UNION {chosen(s, i, e) : s \in {TheGroup[1], ANY}, i \in {TheGroup[2], ANY}}

\* Mutant: errors are told to those who did not ask for them.
status_recipients_swapped(e, error) ==
    {h \in Chosen(e) : error = "ok" \/ ~status_handlers[h].is_selective}

\* deliver_subscription_state: one handler for each combination of the service or
\* any and the instance or any; errors only to selective ones.
status_recipients(e, error) ==
    {h \in Chosen(e) : error = "ok" \/ status_handlers[h].is_selective}

\* register_subscription_status_handler, with a handler or without one.
register_subscription_status_handler(h, is_selective) ==
    /\ h \in scenario.statuses
    /\ calls.register > 0
    /\ status_handlers' = [x \in DOMAIN status_handlers \union {h} |->
          IF x = h THEN [is_selective |-> is_selective, number |-> calls.register]
          ELSE status_handlers[x]]
    /\ status' = [status EXCEPT ![h] = [e \in DOMAIN subscription |-> None]]
    /\ calls' = [calls EXCEPT !.register = @ - 1]
    /\ UNCHANGED <<scenario, offered, state, available, availability, handlers, told,
                   subscription, doing, loose, unheard>>

unregister_subscription_status_handler(h) ==
    /\ h \in DOMAIN status_handlers
    /\ status_handlers' = [x \in DOMAIN status_handlers \ {h} |-> status_handlers[x]]
    \* a handler for any event takes over where it may not have heard the last report
    /\ unheard' = unheard \union {h.event}
    /\ UNCHANGED <<scenario, offered, state, available, availability, handlers, told,
                   subscription, status, doing, calls, loose>>

\* check_subscription_state, called by subscribe: a known acknowledgement is to be
\* reported again, after the lock is given up.
subscribe(e) ==
    /\ calls.subscribe > 0
    /\ doing["user"] = None
    /\ subscription' = IF subscription[e] = None THEN [subscription EXCEPT ![e] = "subscribing"]
                       ELSE subscription
    /\ doing' = IF subscription[e] = "ack"
                THEN [doing EXCEPT !["user"] = [event |-> e, error |-> "ok"]] ELSE doing
    /\ calls' = [calls EXCEPT !.subscribe = @ - 1]
    /\ UNCHANGED <<scenario, offered, state, available, availability, handlers, told,
                   status_handlers, status, loose, unheard>>

\* remove_subscription, called by unsubscribe.
unsubscribe(e) ==
    /\ subscription[e] # None
    /\ doing["user"] = None
    /\ subscription' = [subscription EXCEPT ![e] = None]
    /\ UNCHANGED <<scenario, offered, state, available, availability, handlers, told,
                   status_handlers, status, doing, calls, loose, unheard>>

\* The subscription a status is about: to the event, else to any event.
status_entry(e) ==
    IF subscription[e] # None THEN {e}
    ELSE IF subscription[ANY] # None THEN {ANY} ELSE {}

\* on_subscription_status: note the state; a status without subscribe is ignored.
on_subscription_status(e, error) ==
    /\ calls.status > 0
    /\ doing["io"] = None
    /\ status_entry(e) # {}
    /\ subscription' = [x \in DOMAIN subscription |->
          IF x \notin status_entry(e) THEN subscription[x]
          ELSE IF error = "ok" THEN "ack" ELSE "nack"]
    /\ unheard' = unheard \union {x \in status_entry(e) : x # e}
    /\ doing' = [doing EXCEPT !["io"] = [event |-> e, error |-> error]]
    /\ calls' = [calls EXCEPT !.status = @ - 1]
    /\ UNCHANGED <<scenario, offered, state, available, availability, handlers, told,
                   status_handlers, status, loose>>

\* deliver_subscription_state, after the state was noted.
deliver_subscription_state(t) ==
    /\ doing[t] # None
    /\ LET e == doing[t].event
           error == doing[t].error
       IN  /\ handlers' = handlers \o
                 SetToSeq({[type |-> "status", key |-> h, number |-> status_handlers[h].number,
                            event |-> e, error |-> error] : h \in status_recipients(e, error)})
           \* meanwhile the other thread noted something else
           /\ unheard' = IF subscription[e] = (IF error = "ok" THEN "ack" ELSE "nack")
                         THEN unheard \ {e} ELSE unheard \union {e}
    /\ doing' = [doing EXCEPT ![t] = None]
    /\ UNCHANGED <<scenario, offered, state, available, availability, told, subscription,
                   status_handlers, status, calls, loose>>

-----------------------------------------------------------------------------
\* The dispatcher calls the handlers in the order of the queue.
dispatch ==
    /\ handlers # <<>>
    /\ handlers' = Tail(handlers)
    /\ LET r == Head(handlers)
       IN  IF r.type = "availability"
           THEN /\ told' = IF availability[r.key].number = r.number /\ r.place \in Place
                           THEN [told EXCEPT ![r.key][r.place] = r.is_available] ELSE told
                /\ UNCHANGED status
           ELSE /\ status' = IF /\ r.key \in DOMAIN status_handlers
                                /\ status_handlers[r.key].number = r.number
                             THEN [status EXCEPT ![r.key][r.event] = r.error] ELSE status
                /\ UNCHANGED told
    /\ UNCHANGED <<scenario, offered, state, available, availability, subscription,
                   status_handlers, doing, calls, loose, unheard>>

Init ==
    /\ scenario \in Scenarios
    /\ offered = [p \in Place |-> None]
    /\ state = FALSE
    /\ available = [p \in Place |-> [m \in Major |-> None]]
    /\ availability = [k \in scenario.keys |-> [number |-> 0, told |-> FALSE, is |-> FALSE]]
    /\ handlers = <<>>
    /\ told = [k \in scenario.keys |-> [p \in Place |-> None]]
    /\ subscription = [e \in Event \union {ANY} |-> None]
    /\ status_handlers = <<>>
    /\ status = [h \in scenario.statuses |-> [e \in Event \union {ANY} |-> None]]
    /\ doing = [t \in Thread |-> None]
    /\ calls = scenario.calls
    /\ loose = {}
    /\ unheard = {}

Next ==
    \/ \E k \in scenario.keys :
          register_availability_handler(k) \/ unregister_availability_handler(k)
    \/ \E new \in BOOLEAN : on_state(new)
    \/ \E p \in Place, v \in scenario.versions : Offer(p, v)
    \/ \E p \in Place : StopOffer(p)
    \/ \E h \in scenario.statuses : \/ \E is \in BOOLEAN :
                                          register_subscription_status_handler(h, is)
                                    \/ unregister_subscription_status_handler(h)
    \/ \E e \in Event \union {ANY} :
          subscribe(e) \/ unsubscribe(e) \/ \E error \in {"ok", "error"} :
                                                on_subscription_status(e, error)
    \/ \E t \in Thread : deliver_subscription_state(t)
    \/ dispatch

Spec == Init /\ [][Next]_vars

-----------------------------------------------------------------------------
(* Properties.                                                             *)

TypeOK ==
    /\ scenario \in Scenarios
    /\ offered \in [Place -> Version \union {None}]
    /\ state \in BOOLEAN
    /\ available \in [Place -> [Major -> Minor \union {None}]]
    /\ availability \in [scenario.keys -> [number : Nat, told : BOOLEAN, is : BOOLEAN]]
    /\ told \in [scenario.keys -> [Place -> BOOLEAN \union {None}]]
    /\ subscription \in [Event \union {ANY} -> {None, "subscribing", "ack", "nack"}]
    /\ DOMAIN status_handlers \subseteq scenario.statuses
    /\ status \in [scenario.statuses -> [Event \union {ANY} -> {None, "ok", "error"}]]
    /\ DOMAIN doing = Thread

\* available_ is exact: an application sees an instance in precisely the version the
\* routing manager reported last (on_availability erases the whole instance).
SeenIsOffered ==
    \A p \in Place, v \in Version : (available[p][v[1]] = v[2]) <=> (offered[p] = v)

\* When the queue is empty, every availability handler has heard last of each instance
\* it concerns what is true of it, whenever it was registered: the report at
\* registration (do_register_availability_handler) and those of changes
\* (on_availability) neither contradict nor overtake each other.  Not so where
\* are_available looked at less than the version, and for minor versions that are
\* negative as an int32_t.
HandlersAgree ==
    handlers = <<>> =>
        \A k \in scenario.keys, p \in Place :
            /\ availability[k].is /\ availability[k].told
            /\ Concerns(k, p)
            /\ <<k, p>> \notin loose
            => (told[k][p] = TRUE) <=> (/\ offered[p] # None
                                        /\ Wanted(k, offered[p])
                                        /\ Reaches(k, offered[p]))

\* When nothing is under way, no status handler is left with a status that
\* subscription_state_ contradicts: after an acknowledgement none that concerns the
\* event heard last of an error, after a rejection no selective one of success
\* (on_subscription_status, deliver_subscription_state), although the state is
\* noted and reported in two steps.  Who did not ask for errors never hears of one.
StatusAgrees ==
    handlers = <<>> /\ (\A t \in Thread : doing[t] = None) =>
        \A e \in DOMAIN subscription \ unheard : \A h \in Chosen(e) :
            /\ subscription[e] = "ack" => status[h][e] # "error"
            /\ subscription[e] = "nack" /\ status_handlers[h].is_selective =>
                  status[h][e] # "ok"
            /\ ~status_handlers[h].is_selective => status[h][e] # "error"
====
