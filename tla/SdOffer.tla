------------------------------- MODULE SdOffer -------------------------------
(***************************************************************************)
(* The life of one locally offered service in the service discovery: an    *)
(* offer is collected, sent when the debounce timer expires, repeated in   *)
(* the repetition phase and announced cyclically in the main phase         *)
(* (service_discovery_impl), until the application stops offering it or    *)
(* the routing is suspended (routing_manager_impl).  A serviceinfo object  *)
(* is identified by its number; the discovery keeps such objects alive     *)
(* after routing has dropped them.  The handlers of the timers, of a       *)
(* received FindService and the calls of the application run on different  *)
(* threads and only share the locks of the single containers.  One remote  *)
(* node listens; offers use the default time to live, "forever".           *)
(***************************************************************************)
EXTENDS Integers, Sequences, FiniteSets

CONSTANTS
    RepetitionsMax, \* repetitions_max_
    MaxInfos,       \* bound: serviceinfo objects alive at the same time
    MaxSuspends,    \* bound: suspensions of the routing
    MaxInFlight     \* bound: messages on the wire

ASSUME ConstantsAssumption ==
    /\ RepetitionsMax \in Nat
    /\ MaxInfos \in Nat \ {0}
    /\ MaxSuspends \in Nat
    /\ MaxInFlight \in Nat \ {0}

VARIABLES
    offered,          \* local_services_ has the service
    services,         \* services_: the serviceinfo of the service, 0 for none
    ttl,              \* serviceinfo::ttl_ > 0
    mainphase,        \* serviceinfo::is_in_mainphase_
    app,              \* what the application's call is doing
    stopping,         \* the serviceinfo held by on_stop_offer_service
    collected_offers, \* the serviceinfo in collected_offers_, 0 for none
    debounce,         \* on_offer_debounce_timer_expired: {} or {its local state}
    repetition_phase_timers, \* serviceinfo and repetition of every timer
    building,         \* message filled but not yet sent, per thread: {} or {entry}
    is_suspended,
    suspends,         \* bound counter of suspensions
    irregular,        \* ghost: how a stop crossed another thread, see the Tags
    net,              \* entries on the wire
    remote_known      \* the remote node holds the service

routing == <<offered, services, ttl, mainphase, app, stopping>>
discovery == <<collected_offers, debounce, repetition_phase_timers, building,
               is_suspended, suspends, irregular>>
remote == <<net, remote_known>>
vars == <<routing, discovery, remote>>

Info == 1..MaxInfos
Entry == {"offer", "stop"}
Thread == {"main", "find"}

\* "found": a FindService was answered for an offer that was not sent before;
\* "filled": the offer was stopped while a message announcing it waited to be sent;
\* "taken": it was stopped while on_offer_debounce_timer_expired was busy with it.
Tags == {"found", "filled", "taken"}

\* "taken" excuses whatever the others excuse.
noted(tags) ==
    IF "taken" \in irregular \union tags THEN {"taken"} ELSE irregular \union tags

\* The handlers and calls that are not at their end.
Busy == {t \in {"app"} : app # "idle"} \union {t \in {"debounce"} : debounce # {}}
            \union {t \in Thread : building[t] # {}}

Filled(t) == IF t = "debounce" THEN UNION {d.entries : d \in debounce} ELSE building[t]
Taken(i) == \E d \in debounce : d.info = i

\* Serviceinfo i is being stopped.
CrossedBy(i) ==
    {g \in {"filled"} : \E t \in Thread \union {"debounce"} : "offer" \in Filled(t)}
        \union {g \in {"taken"} : Taken(i)}

-----------------------------------------------------------------------------
(* Messages.                                                               *)

\* insert_offer_service: the time to live of the entry is read from the
\* serviceinfo when the message is filled.
entry_of(i) == IF ttl[i] THEN "offer" ELSE "stop"

\* insert_offer_service: an entry with time to live 0 also deletes the routing
\* information of the service, whichever serviceinfo that is by now.
del_routing_info(i) == IF ttl[i] \/ is_suspended THEN services ELSE 0

\* insert_offer_entries puts nothing into the message while suspended.
filled(i) == IF is_suspended THEN {} ELSE {entry_of(i)}
services_after_fill(i) == IF is_suspended THEN services ELSE del_routing_info(i)

\* serialize_and_send_messages: a message without entries is not sent.
Sent(entries) ==
    /\ Len(net) < MaxInFlight
    /\ net' = IF entries = {} THEN net
              ELSE Append(net, CHOOSE e \in entries : TRUE)

-----------------------------------------------------------------------------
(* The application's calls (routing_manager_impl).                         *)

\* The serviceinfo objects somebody still refers to.
Alive == ({services, stopping, collected_offers} \ {0})
             \union {d.info : d \in debounce}
             \union {t.info : t \in repetition_phase_timers}

\* offer_service, first part: handle_local_offer_service reuses the serviceinfo
\* of the service or creates one, and init_service_info gives it its endpoint.
offer_service ==
    /\ app = "idle"
    /\ ~offered
    /\ \E i \in IF services # 0 THEN {services} ELSE Info \ Alive :
          /\ services' = i
          /\ ttl' = [ttl EXCEPT ![i] = TRUE]
          /\ mainphase' = IF services # 0 THEN mainphase ELSE mainphase \ {i}
    /\ offered' = TRUE
    /\ app' = "offering"
    /\ UNCHANGED <<stopping, discovery, remote>>

\* service_discovery_impl::offer_service.
collected_with(i) == IF collected_offers = 0 THEN i ELSE collected_offers

\* offer_service, second part: hand the serviceinfo to the discovery.
offer_service_collect ==
    /\ app = "offering"
    /\ collected_offers' = IF services # 0 THEN collected_with(services)
                                           ELSE collected_offers
    /\ app' = "idle"
    /\ UNCHANGED <<offered, services, ttl, mainphase, stopping, debounce,
                   repetition_phase_timers, building, is_suspended, suspends, remote, irregular>>

\* on_stop_offer_service up to the discovery: the time to live becomes 0.
stop_offer_service ==
    /\ app = "idle"
    /\ offered
    /\ offered' = FALSE
    /\ stopping' = services
    /\ ttl' = IF services # 0 THEN [ttl EXCEPT ![services] = FALSE] ELSE ttl
    /\ app' = IF services # 0 THEN "stop_collected" ELSE "idle"
    /\ irregular' = noted(CrossedBy(services))
    /\ UNCHANGED <<services, mainphase, collected_offers, debounce, repetition_phase_timers,
                   building, is_suspended, suspends, remote>>

\* service_discovery_impl::stop_offer_service: delete from the initial phase.
stop_offer_collected ==
    /\ app = "stop_collected"
    /\ collected_offers' = IF collected_offers = stopping THEN 0 ELSE collected_offers
    /\ app' = "stop_repetition"
    /\ irregular' = noted({g \in {"taken"} : Taken(stopping)})
    /\ UNCHANGED <<offered, services, ttl, mainphase, stopping, debounce,
                   repetition_phase_timers, building, is_suspended, suspends, remote>>

\* Mutant: only offers of the main phase need a StopOffer.
stop_offer_required_in_main(i) == i \in mainphase

stop_offer_required(i) ==
    \/ i \in mainphase
    \/ \E t \in repetition_phase_timers : t.info = i

\* ... delete from the repetition phase, and decide whether to send a StopOffer.
stop_offer_repetition ==
    /\ app = "stop_repetition"
    /\ repetition_phase_timers' = {t \in repetition_phase_timers : t.info # stopping}
    /\ app' = IF stop_offer_required(stopping) THEN "stop_send" ELSE "stop_clear"
    /\ UNCHANGED <<offered, services, ttl, mainphase, stopping, collected_offers,
                   debounce, building, is_suspended, suspends, remote, irregular>>

\* send_stop_offer.
send_stop_offer ==
    /\ app = "stop_send"
    /\ Sent({entry_of(stopping)})
    /\ services' = del_routing_info(stopping)
    /\ app' = "stop_clear"
    /\ UNCHANGED <<offered, ttl, mainphase, stopping, discovery, remote_known>>

\* on_stop_offer_service, at its end: clear_service_info.
clear_service_info ==
    /\ app = "stop_clear"
    /\ ~offered
    /\ services' = 0
    /\ app' = "idle"
    /\ stopping' = 0
    /\ UNCHANGED <<offered, ttl, mainphase, discovery, remote>>

\* set_routing_state(RS_SUSPENDED), first part: the discovery stops.
suspend ==
    /\ app = "idle"
    /\ ~is_suspended
    /\ suspends < MaxSuspends
    /\ is_suspended' = TRUE
    /\ suspends' = suspends + 1
    /\ app' = "suspending"
    /\ UNCHANGED <<offered, services, ttl, mainphase, stopping, collected_offers,
                   debounce, repetition_phase_timers, building, irregular, remote>>

\* ... the time to live of every offered service becomes 0, and the discovery
\* stops it like one that is not offered any more (stop_offer_collected,
\* stop_offer_repetition and send_stop_offer above).
suspend_services ==
    /\ app = "suspending"
    /\ stopping' = services
    /\ ttl' = IF services # 0 THEN [ttl EXCEPT ![services] = FALSE] ELSE ttl
    /\ app' = IF services # 0 THEN "stop_collected" ELSE "idle"
    /\ irregular' = noted(CrossedBy(services))
    /\ UNCHANGED <<offered, services, mainphase, collected_offers, debounce,
                   repetition_phase_timers, building, is_suspended, suspends, remote>>

\* ... at its end the service is still in local_services_ and in services_.
suspend_end ==
    /\ app = "stop_clear"
    /\ offered
    /\ app' = "idle"
    /\ stopping' = 0
    /\ UNCHANGED <<offered, services, ttl, mainphase, discovery, remote>>

\* Mutant: the time to live of the services is not restored.
resume_without_ttl ==
    /\ app = "idle"
    /\ is_suspended
    /\ mainphase' = mainphase \ {services}
    /\ app' = "resuming"
    /\ UNCHANGED <<offered, services, ttl, stopping, discovery, remote>>

\* set_routing_state(RS_RESUMED), first part: every offered service starts over.
resume ==
    /\ app = "idle"
    /\ is_suspended
    /\ ttl' = IF services # 0 THEN [ttl EXCEPT ![services] = TRUE] ELSE ttl
    /\ mainphase' = mainphase \ {services}
    /\ app' = "resuming"
    /\ UNCHANGED <<offered, services, stopping, discovery, remote>>

\* ... the discovery is started, and is then handed the services
\* (offer_service_collect above).
resume_start ==
    /\ app = "resuming"
    /\ is_suspended' = FALSE
    /\ app' = "offering"
    /\ UNCHANGED <<offered, services, ttl, mainphase, stopping, collected_offers,
                   debounce, repetition_phase_timers, building, suspends, irregular, remote>>

-----------------------------------------------------------------------------
(* The timers of the discovery.                                            *)

\* on_offer_debounce_timer_expired, first part: take over the collected offers.
debounce_take ==
    /\ debounce = {}
    /\ collected_offers # 0
    /\ debounce' = {[info |-> collected_offers, filled |-> FALSE, entries |-> {}]}
    /\ collected_offers' = 0
    /\ UNCHANGED <<routing, repetition_phase_timers, building, is_suspended, suspends,
                   remote, irregular>>

\* ... fill the message.
debounce_fill ==
    /\ \E d \in debounce :
          /\ ~d.filled
          /\ debounce' = {[info |-> d.info, filled |-> TRUE, entries |-> filled(d.info)]}
          /\ services' = services_after_fill(d.info)
    /\ UNCHANGED <<offered, ttl, mainphase, app, stopping, collected_offers,
                   repetition_phase_timers, building, is_suspended, suspends, remote, irregular>>

\* The repetition a new timer starts with; 0 waits for the main phase.
first_timer(i) ==
    {[info |-> i, repetition |-> IF RepetitionsMax > 0 THEN 1 ELSE 0]}

\* ... send it, and start a timer of the repetition phase.
debounce_send ==
    /\ \E d \in debounce :
          /\ d.filled
          /\ Sent(d.entries)
          /\ repetition_phase_timers' = repetition_phase_timers \union first_timer(d.info)
    /\ debounce' = {}
    /\ UNCHANGED <<routing, collected_offers, building, is_suspended, suspends,
                   remote_known, irregular>>

\* Mutant: the timer is erased before its offers are moved.
repetition_to_main_forgotten ==
    /\ \E t \in repetition_phase_timers :
          /\ t.repetition = 0
          /\ repetition_phase_timers' = repetition_phase_timers \ {t}
    /\ UNCHANGED <<routing, collected_offers, debounce, building, is_suspended, suspends,
                   remote, irregular>>

\* on_repetition_phase_timer_expired, under repetition_phase_timers_mutex_: the
\* wait for the main phase is over.
repetition_to_main ==
    /\ \E t \in repetition_phase_timers :
          /\ t.repetition = 0
          /\ repetition_phase_timers' = repetition_phase_timers \ {t}
          /\ mainphase' = mainphase \union {t.info}
    /\ UNCHANGED <<offered, services, ttl, app, stopping, collected_offers,
                   debounce, building, is_suspended, suspends, remote, irregular>>

\* The repetition the timer is started with again; the timer waits for the main
\* phase after repetitions_max_ repetitions.
next_repetition(t) == IF t.repetition <= RepetitionsMax THEN t.repetition + 1 ELSE 0

\* ... the offer is sent once more; after the last repetition the service moves
\* on, at once if a cyclic offer was sent a short while ago.
repetition_send ==
    /\ \E t \in repetition_phase_timers, is_recent \in BOOLEAN :
          /\ t.repetition # 0
          /\ Sent(filled(t.info))
          /\ services' = services_after_fill(t.info)
          /\ LET again == [t EXCEPT !.repetition = next_repetition(t)]
             IN  IF t.repetition > RepetitionsMax /\ is_recent
                 THEN /\ repetition_phase_timers' = repetition_phase_timers \ {t}
                      /\ mainphase' = mainphase \union {t.info}
                 ELSE /\ repetition_phase_timers' =
                             (repetition_phase_timers \ {t}) \union {again}
                      /\ UNCHANGED mainphase
    /\ UNCHANGED <<offered, ttl, app, stopping, collected_offers, debounce,
                   building, is_suspended, suspends, remote_known, irregular>>

\* on_main_phase_timer_expired: fill a message with the services of the main phase.
main_fill ==
    /\ building["main"] = {}
    /\ services \in mainphase
    /\ ~is_suspended
    /\ building' = [building EXCEPT !["main"] = filled(services)]
    /\ services' = services_after_fill(services)
    /\ UNCHANGED <<offered, ttl, mainphase, app, stopping, collected_offers,
                   debounce, repetition_phase_timers, is_suspended, suspends, remote, irregular>>

\* process_findservice_serviceentry: fill an answer with the service asked for,
\* in whatever phase it is.
find_fill ==
    /\ building["find"] = {}
    /\ ~remote_known
    /\ services # 0
    /\ ~is_suspended
    /\ building' = [building EXCEPT !["find"] = {entry_of(services)}]
    /\ services' = del_routing_info(services)
    /\ irregular' = noted({g \in {"found"} : ~stop_offer_required(services)})
    /\ UNCHANGED <<offered, ttl, mainphase, app, stopping, collected_offers,
                   debounce, repetition_phase_timers, is_suspended, suspends, remote>>

\* Both: send what was filled.
send_filled(t) ==
    /\ building[t] # {}
    /\ Sent(building[t])
    /\ building' = [building EXCEPT ![t] = {}]
    /\ UNCHANGED <<routing, collected_offers, debounce, repetition_phase_timers,
                   is_suspended, suspends, remote_known, irregular>>

-----------------------------------------------------------------------------
(* The remote node: add_routing_info and del_routing_info.                 *)

receive ==
    /\ net # <<>>
    /\ remote_known' = (Head(net) = "offer")
    /\ net' = Tail(net)
    /\ UNCHANGED <<routing, discovery>>

-----------------------------------------------------------------------------
Init ==
    /\ offered = FALSE
    /\ services = 0
    /\ ttl = [i \in Info |-> FALSE]
    /\ mainphase = {}
    /\ app = "idle"
    /\ stopping = 0
    /\ collected_offers = 0
    /\ debounce = {}
    /\ repetition_phase_timers = {}
    /\ building = [t \in Thread |-> {}]
    /\ is_suspended = FALSE
    /\ suspends = 0
    /\ irregular = {}
    /\ net = <<>>
    /\ remote_known = FALSE

App ==
    \/ offer_service
    \/ offer_service_collect
    \/ stop_offer_service
    \/ stop_offer_collected
    \/ stop_offer_repetition
    \/ send_stop_offer
    \/ clear_service_info
    \/ suspend
    \/ suspend_services
    \/ suspend_end
    \/ resume
    \/ resume_start

Timers ==
    \/ debounce_take
    \/ debounce_fill
    \/ debounce_send
    \/ repetition_to_main
    \/ repetition_send
    \/ main_fill
    \/ find_fill
    \/ \E t \in Thread : send_filled(t)

Next == App \/ Timers \/ receive

Spec == Init /\ [][Next]_vars

\* The timers expire, the application's calls return, and what was sent arrives.
Fairness ==
    /\ WF_vars(offer_service_collect \/ stop_offer_collected \/ stop_offer_repetition
                  \/ send_stop_offer \/ clear_service_info \/ suspend_services
                  \/ suspend_end \/ resume_start)
    /\ WF_vars(debounce_take \/ debounce_fill \/ debounce_send)
    /\ WF_vars(repetition_to_main \/ repetition_send)
    /\ WF_vars(main_fill \/ send_filled("main"))
    /\ WF_vars(send_filled("find"))
    /\ WF_vars(receive)

FairSpec == Spec /\ Fairness

-----------------------------------------------------------------------------
(* Properties.                                                             *)

TypeOK ==
    /\ offered \in BOOLEAN
    /\ services \in 0..MaxInfos
    /\ ttl \in [Info -> BOOLEAN]
    /\ mainphase \in SUBSET Info
    /\ app \in {"idle", "offering", "stop_collected", "stop_repetition", "stop_send",
                "stop_clear", "suspending", "resuming"}
    /\ stopping \in 0..MaxInfos
    /\ collected_offers \in 0..MaxInfos
    /\ debounce \in SUBSET [info : Info, filled : BOOLEAN, entries : SUBSET Entry]
    /\ Cardinality(debounce) <= 1
    /\ repetition_phase_timers \in
          SUBSET [info : Info, repetition : 0..(RepetitionsMax + 1)]
    /\ building \in [Thread -> SUBSET Entry]
    /\ is_suspended \in BOOLEAN
    /\ suspends \in 0..MaxSuspends
    /\ irregular \subseteq Tags
    /\ net \in Seq(Entry)
    /\ remote_known \in BOOLEAN

\* Some phase of the discovery takes care of the serviceinfo.
InSomePhase(i) ==
    \/ collected_offers = i
    \/ \E d \in debounce : d.info = i
    \/ \E t \in repetition_phase_timers : t.info = i
    \/ i \in mainphase

Regular(tags) == irregular \intersect tags = {}

\* An offer is never lost between the phases: as long as the application offers
\* the service and the routing is not suspended, routing holds a serviceinfo with
\* a time to live, and the discovery has it collected, in its first message, in
\* the repetition phase or in the main phase.  Excepted are the consequences of a
\* stop during on_offer_debounce_timer_expired: the handler starts a timer for the
\* stopped serviceinfo, which deletes the routing information of its successor.
OfferUnderWay ==
    offered /\ app = "idle" /\ ~is_suspended /\ Regular({"taken"})
        => services # 0 /\ ttl[services] /\ InSomePhase(services)

\* What is on the wire or about to be sent, the last entry counting.
LastHeard ==
    IF net # <<>> THEN net[Len(net)] = "offer" ELSE remote_known

\* After the application has stopped the service (or the routing was suspended)
\* the last the remote node hears of it is a StopOffer: stop_offer_service may
\* leave the message out for a collected offer, because "all services instances
\* contained in the collected offers weren't broadcasted yet".  That is so unless
\* a FindService was answered for the offer before, or the stop crosses a handler
\* that has filled its message, or taken the collected offers, and not yet sent it.
StopReachesRemote ==
    Busy = {} /\ (~offered \/ is_suspended) /\ Regular(Tags) => ~LastHeard

\* "set flag on all serviceinfos bound to this timer that they will be included
\* in the cyclic offers from now on" (move_offers_into_main_phase): a serviceinfo
\* with the flag and a time to live is the one send(true) gets from routing, with
\* the exception of OfferUnderWay.
MainPhaseIsCyclic ==
    Regular({"taken"}) => \A i \in mainphase : ttl[i] => services = i

\* Routing and the phases of the discovery agree on the serviceinfo in use.
PhasesAgree == TypeOK /\ OfferUnderWay /\ MainPhaseIsCyclic

\* A service that stays offered, with the routing running, is eventually known
\* to the remote node for good, although it was stopped and offered before, with
\* the exception of OfferUnderWay.
OfferAnnounced ==
    <>[](offered /\ ~is_suspended /\ Regular({"taken"})) => <>[]remote_known
=============================================================================
