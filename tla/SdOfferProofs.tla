---------------------------- MODULE SdOfferProofs ----------------------------
(***************************************************************************)
(* Proofs about SdOffer, for any number of repetitions, serviceinfos,      *)
(* suspensions and messages on the wire: routing and the phases of the     *)
(* discovery agree on the serviceinfo in use, and the remote node is told  *)
(* of the end of every offer it heard of.                                  *)
(***************************************************************************)
EXTENDS SdOffer, FiniteSetTheorems, TLAPS

-----------------------------------------------------------------------------
(* The inductive invariant.                                                *)

\* stop_offer_service of the discovery runs, for a stopped or a suspended service.
Stopping == app \in {"stop_collected", "stop_repetition", "stop_send", "stop_clear"}

\* The serviceinfo the discovery may be busy with: the one being stopped, if any,
\* or the one routing holds.
Current == IF Stopping THEN stopping ELSE services

\* Routing holds a serviceinfo exactly as long as the application offers the
\* service; on_stop_offer_service keeps the old one while it stops it, and a
\* suspension leaves it in place.
RoutingAgrees ==
    /\ ~Stopping => stopping = 0 /\ (offered <=> services # 0)
    /\ app \in {"offering", "resuming"} /\ offered => ttl[services]
    /\ app \in {"suspending", "resuming"} => is_suspended
    /\ Stopping => stopping \in Info /\ services \in {0, stopping} /\ ~ttl[stopping]
    /\ Stopping /\ offered => services = stopping /\ is_suspended

\* The phases before the main phase know only the current serviceinfo, and forget
\* it one after the other while it is stopped.
PhasesFollow ==
    /\ collected_offers # 0 => collected_offers = Current
    /\ \A d \in debounce : d.info = Current
    /\ \A t \in repetition_phase_timers : t.info = Current
    /\ Stopping /\ app # "stop_collected" => collected_offers = 0 /\ debounce = {}
    /\ app \in {"stop_send", "stop_clear"} => repetition_phase_timers = {}

\* Only the serviceinfo routing holds has a time to live.
OneIsAlive == \A i \in Info : ttl[i] => services = i

\* An offer that is not being stopped or suspended is announced by some phase.
Announced ==
    offered /\ app = "idle" /\ ~is_suspended => ttl[services] /\ InSomePhase(services)

\* All this as long as no stop crossed on_offer_debounce_timer_expired.
PInv == Regular({"taken"}) => RoutingAgrees /\ PhasesFollow /\ OneIsAlive /\ Announced

\* An offer is in a message that one of the threads is about to send.
OfferFilled == \E t \in Thread : "offer" \in building[t]
OfferTaken == \E d \in debounce : "offer" \in d.entries

\* Nothing is offered, or the suspension has stopped what is offered.
Silenced == ~offered \/ (is_suspended /\ app # "suspending")

\* A StopOffer is required as long as somebody has heard, or is about to hear, of
\* the offer, and nothing but the StopOffer is heard when the stop is over; while
\* nothing is offered, no offer is heard or about to be sent.
Told ==
    /\ ~Stopping /\ ~Silenced =>
          (LastHeard \/ OfferFilled => stop_offer_required(services))
    /\ Stopping => ~OfferFilled /\ ~OfferTaken
    /\ app \in {"stop_collected", "stop_repetition"} =>
          (LastHeard => stop_offer_required(stopping))
    /\ app = "stop_clear" => ~LastHeard
    /\ ~Stopping /\ Silenced => ~LastHeard /\ ~OfferFilled /\ ~OfferTaken

\* All this as long as no stop crossed another thread.
StopInv == Regular(Tags) => Told

-----------------------------------------------------------------------------
(* Types.                                                                  *)

Debounce == [info : Info, filled : BOOLEAN, entries : SUBSET Entry]
Timer == [info : Info, repetition : 0..(RepetitionsMax + 1)]
Small(S) == S \subseteq Debounce /\ Cardinality(S) <= 1

\* on_offer_debounce_timer_expired is busy with one serviceinfo, or with none.
LEMMA OneDebounce ==
    /\ Small({})
    /\ \A d \in Debounce : Small({d})
<1>1. Cardinality({}) = 0 /\ \A d : Cardinality({d}) = 1
  BY FS_EmptySet, FS_Singleton, Zenon
<1> QED BY <1>1 DEF Small

\* What is filled into a message is an offer or the end of one.
LEMMA FilledType ==
    ASSUME NEW i
    PROVE  entry_of(i) \in Entry /\ filled(i) \subseteq Entry
BY Zenon DEF entry_of, filled, Entry

\* The new timer of the repetition phase.
LEMMA FirstTimer ==
    ASSUME NEW i \in Info
    PROVE  first_timer(i) \subseteq Timer /\ \A t \in first_timer(i) : t.info = i
BY ConstantsAssumption DEF first_timer, Timer

\* Sending puts at most one entry behind the others.
LEMMA SentType ==
    ASSUME NEW S \in SUBSET Entry, net \in Seq(Entry), Sent(S)
    PROVE  net' \in Seq(Entry)
<1>1. S # {} => (CHOOSE e \in S : TRUE) \in Entry
  BY Zenon
<1> QED BY <1>1 DEF Sent

\* The tags of a stop that crossed another thread are kept.
LEMMA Noted ==
    ASSUME NEW tags, irregular' = noted(tags)
    PROVE  /\ Regular({"taken"})' => Regular({"taken"}) /\ "taken" \notin tags
           /\ irregular \subseteq Tags /\ tags \subseteq Tags =>
                 /\ irregular' \subseteq Tags
                 /\ Regular(Tags)' => Regular(Tags) /\ tags = {}
BY Zenon DEF noted, Regular, Tags

\* Whatever fills a message leaves routing its serviceinfo, or none.
LEMMA AfterFill ==
    ASSUME NEW i
    PROVE  /\ del_routing_info(i) \in {0, services} /\ services_after_fill(i) \in {0, services}
           /\ ttl[i] => del_routing_info(i) = services
           /\ ttl[i] \/ is_suspended => services_after_fill(i) = services
BY Zenon DEF del_routing_info, services_after_fill

\* At the start the variables have their types.
LEMMA InitType == Init => TypeOK
<1> SUFFICES ASSUME Init PROVE TypeOK
  BY Zenon
<1>1. Small(debounce)
  BY OneDebounce, Zenon DEF Init
<1>2. 0 \in 0 .. MaxInfos /\ 0 \in 0 .. MaxSuspends /\ net \in Seq(Entry)
  BY ConstantsAssumption DEF Init
<1>3. ttl \in [Info -> BOOLEAN] /\ building \in [Thread -> SUBSET Entry]
  BY Zenon DEF Init
<1> QED BY <1>1, <1>2, <1>3, Zenon DEF Init, TypeOK, Small, Debounce

\* Every step keeps the types; debounce is a single offer.
LEMMA StepType == TypeOK /\ [Next]_vars => TypeOK'
<1> SUFFICES ASSUME TypeOK, [Next]_vars PROVE TypeOK'
  BY Zenon
<1> USE ConstantsAssumption
<1>t. /\ debounce \in SUBSET Debounce /\ Cardinality(debounce) <= 1
      /\ repetition_phase_timers \in SUBSET Timer /\ net \in Seq(Entry)
      /\ Info \subseteq 0 .. MaxInfos /\ services \in 0 .. MaxInfos
      /\ \A i \in 0 .. MaxInfos : i # 0 => i \in Info
      /\ ttl \in [Info -> BOOLEAN]
  BY DEF TypeOK, Debounce, Timer, Info
<1>n. \A tags : tags \subseteq Tags /\ irregular' = noted(tags) => irregular' \subseteq Tags
  BY Zenon DEF noted, Tags, TypeOK
<1>c. \A i : CrossedBy(i) \subseteq Tags
  BY Zenon DEF CrossedBy, Tags
<1>1. CASE offer_service
  <2>1. PICK i \in Info : services' = i /\ ttl' = [ttl EXCEPT ![i] = TRUE]
                          /\ (mainphase' = mainphase \/ mainphase' = mainphase \ {i})
    BY <1>1, <1>t, Zenon DEF offer_service
  <2> QED BY <1>1, <1>t, <2>1, Zenon DEF offer_service, TypeOK, discovery, remote
<1>2. CASE offer_service_collect
  BY <1>2, <1>t, Zenon DEF offer_service_collect, collected_with, TypeOK, remote
<1>3. CASE stop_offer_service
  <2>1. irregular' \subseteq Tags
    BY <1>3, <1>n, <1>c, Zenon DEF stop_offer_service
  <2> QED BY <1>3, <1>t, <2>1, Zenon DEF stop_offer_service, TypeOK, remote
<1>4. CASE stop_offer_collected
  <2>1. irregular' \subseteq Tags
    BY <1>4, <1>n, Zenon DEF stop_offer_collected, Tags
  <2>2. collected_offers' \in 0 .. MaxInfos
    BY <1>4 DEF stop_offer_collected, TypeOK
  <2> QED BY <1>4, <2>1, <2>2, Zenon DEF stop_offer_collected, TypeOK, remote
<1>5. CASE stop_offer_repetition
  BY <1>5, <1>t, Zenon DEF stop_offer_repetition, TypeOK, remote
<1>6. CASE send_stop_offer
  <2>1. net' \in Seq(Entry)
    BY <1>6, <1>t, FilledType, SentType, Zenon DEF send_stop_offer
  <2>2. services' \in 0 .. MaxInfos
    BY <1>6, <1>t, AfterFill DEF send_stop_offer
  <2> QED BY <1>6, <2>1, <2>2, Zenon DEF send_stop_offer, TypeOK, discovery
<1>7. CASE clear_service_info
  BY <1>7, <1>t DEF clear_service_info, TypeOK, discovery, remote
<1>8. CASE suspend
  <2>1. suspends' \in 0 .. MaxSuspends
    BY <1>8 DEF suspend, TypeOK
  <2> QED BY <1>8, <2>1, Zenon DEF suspend, TypeOK, remote
<1>20. CASE suspend_services
  <2>1. irregular' \subseteq Tags
    BY <1>20, <1>n, <1>c, Zenon DEF suspend_services
  <2> QED BY <1>20, <1>t, <2>1, Zenon DEF suspend_services, TypeOK, remote
<1>21. CASE suspend_end
  <2>1. stopping' \in 0 .. MaxInfos
    BY <1>21 DEF suspend_end
  <2> QED BY <1>21, <2>1, Zenon DEF suspend_end, TypeOK, discovery, remote
<1>9. CASE resume
  BY <1>9, <1>t, Zenon DEF resume, TypeOK, discovery, remote
<1>22. CASE resume_start
  BY <1>22, Zenon DEF resume_start, TypeOK, remote
<1>10. CASE debounce_take
  <2>1. collected_offers \in Info
    BY <1>10, <1>t, Zenon DEF debounce_take, TypeOK
  <2>2. [info |-> collected_offers, filled |-> FALSE, entries |-> {}] \in Debounce
    BY <2>1, Zenon DEF Debounce
  <2>3. Small(debounce')
    BY <1>10, <2>2, OneDebounce, Zenon DEF debounce_take
  <2> QED BY <1>10, <2>3 DEF debounce_take, TypeOK, routing, remote, Small, Debounce
<1>11. CASE debounce_fill
  <2>1. PICK d \in debounce :
           /\ debounce' = {[info |-> d.info, filled |-> TRUE, entries |-> filled(d.info)]}
           /\ services' = services_after_fill(d.info)
    BY <1>11, Zenon DEF debounce_fill
  <2>2. [info |-> d.info, filled |-> TRUE, entries |-> filled(d.info)] \in Debounce
    BY <1>t, FilledType, Zenon DEF Debounce
  <2>3. Small(debounce')
    BY <2>1, <2>2, OneDebounce, Zenon
  <2>4. services' \in 0 .. MaxInfos
    BY <1>t, <2>1, AfterFill
  <2> QED BY <1>11, <2>3, <2>4, Zenon DEF debounce_fill, TypeOK, remote, Small, Debounce
<1>12. CASE debounce_send
  <2>1. PICK d \in debounce :
           /\ Sent(d.entries)
           /\ repetition_phase_timers' = repetition_phase_timers \union first_timer(d.info)
    BY <1>12, Zenon DEF debounce_send
  <2>2. d.info \in Info /\ d.entries \in SUBSET Entry
    BY <1>t, Zenon DEF Debounce
  <2>3. net' \in Seq(Entry) /\ repetition_phase_timers' \in SUBSET Timer
    BY <1>t, <2>1, <2>2, SentType, FirstTimer, Zenon
  <2>4. Small(debounce')
    BY <1>12, OneDebounce, Zenon DEF debounce_send
  <2> QED BY <1>12, <2>3, <2>4, Zenon DEF debounce_send, TypeOK, routing, Small, Debounce, Timer
<1>13. CASE repetition_to_main
  <2>1. PICK t \in repetition_phase_timers :
           /\ repetition_phase_timers' = repetition_phase_timers \ {t}
           /\ mainphase' = mainphase \union {t.info}
    BY <1>13, Zenon DEF repetition_to_main
  <2>2. t.info \in Info
    BY <1>t, Zenon DEF Timer
  <2> QED BY <1>13, <2>1, <2>2, Zenon DEF repetition_to_main, TypeOK, remote
<1>14. CASE repetition_send
  <2>1. PICK t \in repetition_phase_timers, b \in BOOLEAN :
           /\ t.repetition # 0
           /\ Sent(filled(t.info))
           /\ services' = services_after_fill(t.info)
           /\ LET again == [t EXCEPT !.repetition = next_repetition(t)]
              IN  IF t.repetition > RepetitionsMax /\ b
                  THEN /\ repetition_phase_timers' = repetition_phase_timers \ {t}
                       /\ mainphase' = mainphase \union {t.info}
                  ELSE /\ repetition_phase_timers' =
                              (repetition_phase_timers \ {t}) \union {again}
                       /\ UNCHANGED mainphase
    BY <1>14, Zenon DEF repetition_send
  <2>2. t \in Timer /\ t.info \in Info /\ next_repetition(t) \in 0 .. (RepetitionsMax + 1)
    BY <1>t DEF Timer, next_repetition
  <2>3. [t EXCEPT !.repetition = next_repetition(t)] \in Timer
    BY <2>2, Zenon DEF Timer
  <2>4. net' \in Seq(Entry) /\ services' \in 0 .. MaxInfos
    BY <1>t, <2>1, FilledType, SentType, AfterFill
  <2>5. repetition_phase_timers' \in SUBSET Timer /\ mainphase' \in SUBSET Info
    BY <1>t, <2>1, <2>2, <2>3, Zenon DEF TypeOK
  <2> QED BY <1>14, <2>4, <2>5, Zenon DEF repetition_send, TypeOK, Timer
<1>15. CASE main_fill
  <2>1. services' \in 0 .. MaxInfos /\ filled(services) \in SUBSET Entry
    BY <1>15, <1>t, AfterFill, FilledType DEF main_fill
  <2> QED BY <1>15, <2>1, Zenon DEF main_fill, TypeOK, remote, Thread
<1>16. CASE find_fill
  <2>1. services' \in 0 .. MaxInfos /\ {entry_of(services)} \in SUBSET Entry
    BY <1>16, <1>t, AfterFill, FilledType DEF find_fill
  <2>2. irregular' \subseteq Tags
    BY <1>16, <1>n, Zenon DEF find_fill, Tags
  <2> QED BY <1>16, <2>1, <2>2, Zenon DEF find_fill, TypeOK, remote, Thread
<1>17. ASSUME NEW t \in Thread, send_filled(t) PROVE TypeOK'
  <2>1. net' \in Seq(Entry)
    BY <1>17, <1>t, SentType, Zenon DEF send_filled, TypeOK
  <2> QED BY <1>17, <2>1, Zenon DEF send_filled, TypeOK, routing
<1>18. CASE receive
  <2>1. net' \in Seq(Entry) /\ remote_known' \in BOOLEAN
    BY <1>18, <1>t DEF receive
  <2> QED BY <1>18, <2>1, Zenon DEF receive, TypeOK, routing, discovery
<1>19. CASE UNCHANGED vars
  BY <1>19, Zenon DEF vars, routing, discovery, remote, TypeOK
<1> QED
  BY <1>1, <1>2, <1>3, <1>4, <1>5, <1>6, <1>7, <1>8, <1>9, <1>10, <1>11, <1>12, <1>13, <1>14,
     <1>15, <1>16, <1>17, <1>18, <1>19, <1>20, <1>21, <1>22, Zenon
  DEF Next, App, Timers

-----------------------------------------------------------------------------
(* Routing and the phases.                                                 *)

\* What the proofs about the phases start from.
Sound == RoutingAgrees /\ PhasesFollow /\ OneIsAlive /\ Announced

\* The irregularities so far, if the step adds none.
LEMMA StaysRegular ==
    ASSUME PInv, Regular({"taken"})', UNCHANGED irregular
    PROVE  Sound
BY Zenon DEF PInv, Sound, Regular

\* ... if the step adds tags.
LEMMA StaysNoted ==
    ASSUME PInv, Regular({"taken"})', NEW tags, irregular' = noted(tags)
    PROVE  Sound /\ "taken" \notin tags
BY Noted, Zenon DEF PInv, Sound

\* The types the proofs about the phases use.
Types ==
    /\ offered \in BOOLEAN /\ is_suspended \in BOOLEAN
    /\ services \in Info \union {0} /\ 0 \notin Info
    /\ ttl \in [Info -> BOOLEAN] /\ mainphase \subseteq Info
    /\ app \in {"idle", "offering", "suspending", "resuming", "stop_collected",
                "stop_repetition", "stop_send", "stop_clear"}
    /\ collected_offers \in Info \union {0}
    /\ \A d \in debounce : d.info \in Info
    /\ \A t \in repetition_phase_timers : t.info \in Info

\* The types follow from TypeOK, before and after a step.
LEMMA TypesHold == (TypeOK => Types) /\ (TypeOK' => Types')
<1>1. 0 .. MaxInfos = Info \union {0} /\ 0 \notin Info
  BY ConstantsAssumption DEF Info
<1> QED BY <1>1, Zenon DEF TypeOK, Types

\* A serviceinfo that the discovery fills into a message has a time to live, or is
\* being stopped, or nothing is filled as long as the routing is suspended.
LEMMA FillKeeps ==
    ASSUME Types, Sound, NEW i, i = Current, services' \in {0, services},
           ttl[i] \/ is_suspended => services' = services,
           UNCHANGED <<offered, ttl, app, stopping, is_suspended>>
    PROVE  /\ RoutingAgrees' /\ OneIsAlive'
           /\ ~Stopping => services' = services
           /\ Current' = Current /\ Stopping' = Stopping
<1>1. ~Stopping /\ i # 0 => ttl[i] \/ is_suspended
  BY Zenon DEF Sound, RoutingAgrees, Announced, Current, Stopping, Types
<1>2. ~Stopping => services' = services
  BY <1>1, Zenon DEF Current
<1>3. Stopping' = Stopping /\ Current' = Current
  BY <1>2, Zenon DEF Stopping, Current
<1>4. RoutingAgrees'
  BY <1>2, <1>3, Zenon DEF Sound, RoutingAgrees
<1>5. OneIsAlive'
  BY <1>2, Zenon DEF Sound, RoutingAgrees, OneIsAlive
<1> QED BY <1>2, <1>3, <1>4, <1>5, Zenon

\* Every step keeps routing and the phases in agreement.
LEMMA StepPhases == TypeOK /\ PInv /\ [Next]_vars => PInv'
<1> SUFFICES ASSUME TypeOK, PInv, [Next]_vars, Regular({"taken"})' PROVE Sound'
  BY Zenon DEF PInv, Sound
<1>t. Types /\ Types'
  BY StepType, TypesHold, Zenon
<1>1. CASE offer_service
  <2>1. Sound /\ ~Stopping /\ app' = "offering" /\ offered' = TRUE /\ ~offered /\ app = "idle"
        /\ UNCHANGED <<stopping, collected_offers, debounce, repetition_phase_timers, is_suspended>>
    BY <1>1, StaysRegular, Zenon DEF offer_service, discovery, Stopping
  <2>2. services = 0 /\ stopping = 0
    BY <1>t, <2>1, Zenon DEF Sound, RoutingAgrees, Types
  <2>3. PICK i \in Info \ Alive : services' = i /\ ttl' = [ttl EXCEPT ![i] = TRUE]
    BY <1>1, <2>2, Zenon DEF offer_service
  <2>4. ~Stopping' /\ Current = 0 /\ Current' = i
    BY <2>1, <2>2, <2>3, Zenon DEF Stopping, Current
  <2>5. collected_offers = 0 /\ debounce = {} /\ repetition_phase_timers = {}
    BY <1>t, <2>1, <2>4, Zenon DEF Sound, PhasesFollow, Types
  <2>6. PhasesFollow'
    BY <2>1, <2>4, <2>5, Zenon DEF PhasesFollow, Stopping
  <2>7. RoutingAgrees'
    BY <1>t, <2>1, <2>2, <2>3, <2>4, Zenon DEF RoutingAgrees, Types
  <2>8. OneIsAlive'
    BY <1>t, <2>1, <2>2, <2>3, Zenon DEF Sound, OneIsAlive, Types
  <2>9. Announced'
    BY <2>1, Zenon DEF Announced
  <2> QED BY <2>6, <2>7, <2>8, <2>9, Zenon DEF Sound
<1>2. CASE offer_service_collect
  <2>1. /\ Sound /\ app = "offering" /\ app' = "idle" /\ ~Stopping /\ ~Stopping'
        /\ UNCHANGED <<offered, services, ttl, stopping, debounce, repetition_phase_timers,
                       is_suspended, mainphase>>
    BY <1>2, StaysRegular, Zenon DEF offer_service_collect, Stopping
  <2>2. offered => ttl[services] /\ services # 0 /\ collected_offers' = services
    BY <1>2, <1>t, <2>1, Zenon
       DEF Sound, RoutingAgrees, PhasesFollow, offer_service_collect, collected_with, Current
  <2>3. ~offered => UNCHANGED collected_offers
    BY <1>2, <2>1, Zenon DEF Sound, RoutingAgrees, offer_service_collect
  <2>4. Current' = services /\ Current = services
    BY <2>1, Zenon DEF Current
  <2>5. PhasesFollow'
    BY <2>1, <2>2, <2>3, <2>4, Zenon DEF Sound, PhasesFollow
  <2> QED BY <2>1, <2>2, <2>5, Zenon
          DEF Sound, RoutingAgrees, OneIsAlive, Announced, InSomePhase
<1>3. CASE stop_offer_service
  <2>1. /\ Sound /\ "taken" \notin CrossedBy(services) /\ app = "idle" /\ ~Stopping /\ offered
        /\ offered' = FALSE /\ stopping' = services
        /\ UNCHANGED <<services, collected_offers, debounce, repetition_phase_timers,
                       is_suspended, mainphase>>
    BY <1>3, StaysNoted, Zenon DEF stop_offer_service, Stopping
  <2>2. services \in Info /\ stopping = 0
    BY <1>t, <2>1, Zenon DEF Sound, RoutingAgrees, Types
  <2>3. app' = "stop_collected" /\ ttl' = [ttl EXCEPT ![services] = FALSE] /\ Stopping'
    BY <1>3, <1>t, <2>2, Zenon DEF stop_offer_service, Stopping, Types
  <2>4. Current = services /\ Current' = services
    BY <2>1, <2>3, Zenon DEF Current
  <2>5. RoutingAgrees'
    BY <1>t, <2>1, <2>2, <2>3, Zenon DEF RoutingAgrees, Types
  <2>6. PhasesFollow'
    BY <2>1, <2>3, <2>4, Zenon DEF Sound, PhasesFollow
  <2>7. OneIsAlive'
    BY <1>t, <2>1, <2>2, <2>3, Zenon DEF Sound, OneIsAlive, Types
  <2>8. Announced'
    BY <2>1, Zenon DEF Announced
  <2> QED BY <2>5, <2>6, <2>7, <2>8, Zenon DEF Sound
<1>4. CASE stop_offer_collected
  <2>1. /\ Sound /\ ~Taken(stopping) /\ app = "stop_collected" /\ app' = "stop_repetition"
        /\ Stopping /\ Stopping'
        /\ collected_offers' = IF collected_offers = stopping THEN 0 ELSE collected_offers
        /\ UNCHANGED <<offered, services, ttl, stopping, debounce, repetition_phase_timers,
                       is_suspended, mainphase>>
    BY <1>4, StaysNoted, Zenon DEF stop_offer_collected, Stopping
  <2>2. Current = stopping /\ Current' = stopping
    BY <2>1, Zenon DEF Current
  <2>3. debounce = {} /\ collected_offers' = 0
    BY <2>1, <2>2, Zenon DEF Sound, PhasesFollow, Taken
  <2> QED BY <2>1, <2>2, <2>3, Zenon DEF Sound, RoutingAgrees, PhasesFollow, OneIsAlive, Announced
<1>5. CASE stop_offer_repetition
  <2>1. /\ Sound /\ app = "stop_repetition" /\ app' \in {"stop_send", "stop_clear"}
        /\ Stopping /\ Stopping'
        /\ repetition_phase_timers' = {t \in repetition_phase_timers : t.info # stopping}
        /\ UNCHANGED <<offered, services, ttl, stopping, debounce, collected_offers,
                       is_suspended, mainphase>>
    BY <1>5, StaysRegular, Zenon DEF stop_offer_repetition, Stopping
  <2>2. Current = stopping /\ Current' = stopping
    BY <2>1, Zenon DEF Current
  <2>3. repetition_phase_timers' = {}
    BY <2>1, <2>2, Zenon DEF Sound, PhasesFollow
  <2> QED BY <2>1, <2>2, <2>3, Zenon DEF Sound, RoutingAgrees, PhasesFollow, OneIsAlive, Announced
<1>6. CASE send_stop_offer
  <2>1. /\ Sound /\ app = "stop_send" /\ app' = "stop_clear" /\ Stopping /\ Stopping'
        /\ services' \in {0, services} /\ (is_suspended => services' = services)
        /\ UNCHANGED <<offered, ttl, stopping, debounce, collected_offers,
                       repetition_phase_timers, is_suspended, mainphase>>
    BY <1>6, StaysRegular, AfterFill, Zenon
       DEF send_stop_offer, discovery, Stopping, del_routing_info
  <2>2. Current = stopping /\ Current' = stopping
    BY <2>1, Zenon DEF Current
  <2>3. OneIsAlive'
    BY <1>t, <2>1, Zenon DEF Sound, OneIsAlive, RoutingAgrees
  <2> QED BY <2>1, <2>2, <2>3, Zenon DEF Sound, RoutingAgrees, PhasesFollow, Announced
<1>7. CASE clear_service_info
  <2>1. /\ Sound /\ app = "stop_clear" /\ app' = "idle" /\ Stopping /\ ~Stopping'
        /\ services' = 0 /\ stopping' = 0 /\ ~offered
        /\ UNCHANGED <<offered, ttl, debounce, collected_offers,
                       repetition_phase_timers, is_suspended, mainphase>>
    BY <1>7, StaysRegular, Zenon DEF clear_service_info, discovery, Stopping
  <2>2. collected_offers = 0 /\ debounce = {} /\ repetition_phase_timers = {}
    BY <2>1, Zenon DEF Sound, PhasesFollow
  <2>3. OneIsAlive'
    BY <1>t, <2>1, Zenon DEF Sound, OneIsAlive, RoutingAgrees
  <2> QED BY <2>1, <2>2, <2>3, Zenon DEF RoutingAgrees, PhasesFollow, Announced, Sound
<1>8. CASE suspend
  <2>1. /\ Sound /\ app = "idle" /\ app' = "suspending" /\ ~Stopping /\ ~Stopping'
        /\ is_suspended' = TRUE
        /\ UNCHANGED <<offered, services, ttl, stopping, collected_offers, debounce,
                       repetition_phase_timers>>
    BY <1>8, StaysRegular, Zenon DEF suspend, Stopping
  <2>2. Current' = Current
    BY <2>1, Zenon DEF Current
  <2> QED BY <2>1, <2>2, Zenon DEF Sound, RoutingAgrees, PhasesFollow, OneIsAlive, Announced
<1>18. CASE suspend_services
  <2>1. /\ Sound /\ "taken" \notin CrossedBy(services) /\ app = "suspending" /\ ~Stopping
        /\ is_suspended /\ stopping' = services
        /\ UNCHANGED <<offered, services, collected_offers, debounce, repetition_phase_timers,
                       is_suspended, mainphase>>
    BY <1>18, StaysNoted, Zenon DEF suspend_services, Stopping, Sound, RoutingAgrees
  <2>2. CASE services = 0
    <3>1. ~offered /\ app' = "idle" /\ ~Stopping' /\ UNCHANGED ttl /\ stopping = 0
      BY <1>18, <2>1, <2>2, Zenon DEF suspend_services, Sound, RoutingAgrees, Stopping
    <3>2. Current' = Current
      BY <2>1, <3>1, Zenon DEF Current
    <3> QED BY <2>1, <2>2, <3>1, <3>2, Zenon
            DEF Sound, RoutingAgrees, PhasesFollow, OneIsAlive, Announced
  <2>3. CASE services # 0
    <3>1. /\ services \in Info /\ offered /\ app' = "stop_collected" /\ Stopping'
          /\ ttl' = [ttl EXCEPT ![services] = FALSE]
      BY <1>18, <1>t, <2>1, <2>3, Zenon
         DEF suspend_services, Sound, RoutingAgrees, Stopping, Types
    <3>2. Current = services /\ Current' = services
      BY <2>1, <3>1, Zenon DEF Current
    <3>3. RoutingAgrees'
      BY <1>t, <2>1, <3>1, Zenon DEF RoutingAgrees, Types
    <3>4. PhasesFollow'
      BY <2>1, <3>1, <3>2, Zenon DEF Sound, PhasesFollow
    <3>5. OneIsAlive'
      BY <1>t, <2>1, <3>1, Zenon DEF Sound, OneIsAlive, Types
    <3>6. Announced'
      BY <2>1, Zenon DEF Announced
    <3> QED BY <3>3, <3>4, <3>5, <3>6, Zenon DEF Sound
  <2> QED BY <2>2, <2>3, Zenon
<1>19. CASE suspend_end
  <2>1. /\ Sound /\ app = "stop_clear" /\ app' = "idle" /\ Stopping /\ ~Stopping'
        /\ offered /\ stopping' = 0
        /\ UNCHANGED <<offered, services, ttl, debounce, collected_offers,
                       repetition_phase_timers, is_suspended, mainphase>>
    BY <1>19, StaysRegular, Zenon DEF suspend_end, discovery, Stopping
  <2>2. collected_offers = 0 /\ debounce = {} /\ repetition_phase_timers = {}
    BY <2>1, Zenon DEF Sound, PhasesFollow
  <2>3. is_suspended /\ services # 0
    BY <1>t, <2>1, Zenon DEF Sound, RoutingAgrees, Types
  <2> QED BY <2>1, <2>2, <2>3, Zenon DEF RoutingAgrees, PhasesFollow, OneIsAlive, Announced, Sound
<1>9. CASE resume
  <2>1. /\ Sound /\ app = "idle" /\ app' = "resuming" /\ ~Stopping /\ ~Stopping'
        /\ is_suspended /\ ttl' = IF services # 0 THEN [ttl EXCEPT ![services] = TRUE] ELSE ttl
        /\ UNCHANGED <<offered, services, stopping, collected_offers, debounce,
                       repetition_phase_timers, is_suspended>>
    BY <1>9, StaysRegular, Zenon DEF resume, discovery, Stopping
  <2>2. Current' = Current
    BY <2>1, Zenon DEF Current
  <2>3. (services # 0 => ttl'[services]) /\ \A i \in Info : ttl'[i] => i = services \/ ttl[i]
    BY <1>t, <2>1, Zenon DEF Types
  <2>4. OneIsAlive'
    BY <2>1, <2>3, Zenon DEF Sound, OneIsAlive
  <2> QED BY <2>1, <2>2, <2>3, <2>4, Zenon DEF Sound, RoutingAgrees, PhasesFollow, Announced
<1>20. CASE resume_start
  <2>1. /\ Sound /\ app = "resuming" /\ app' = "offering" /\ ~Stopping /\ ~Stopping'
        /\ UNCHANGED <<offered, services, ttl, stopping, collected_offers, debounce,
                       repetition_phase_timers>>
    BY <1>20, StaysRegular, Zenon DEF resume_start, Stopping
  <2>2. Current' = Current
    BY <2>1, Zenon DEF Current
  <2> QED BY <2>1, <2>2, Zenon DEF Sound, RoutingAgrees, PhasesFollow, OneIsAlive, Announced
<1>10. CASE debounce_take
  <2>1. /\ Sound /\ Stopping' = Stopping /\ Current' = Current /\ collected_offers # 0
        /\ debounce' = {[info |-> collected_offers, filled |-> FALSE, entries |-> {}]}
        /\ collected_offers' = 0
        /\ UNCHANGED <<offered, services, ttl, app, stopping, repetition_phase_timers,
                       is_suspended, mainphase>>
    BY <1>10, StaysRegular, Zenon DEF debounce_take, routing, Stopping, Current
  <2>2. \A d \in debounce' : d.info = collected_offers
    BY <2>1
  <2>3. \E d \in debounce' : d.info = collected_offers
    BY <2>1, Zenon
  <2>4. PhasesFollow'
    BY <2>1, <2>2, Zenon DEF Sound, PhasesFollow
  <2>5. RoutingAgrees' /\ OneIsAlive'
    BY <2>1, Zenon DEF Sound, RoutingAgrees, OneIsAlive
  <2>6. Announced'
    BY <1>10, <2>1, <2>3 DEF Sound, Announced, InSomePhase, debounce_take
  <2> QED BY <2>4, <2>5, <2>6, Zenon DEF Sound
<1>11. CASE debounce_fill
  <2>1. PICK d \in debounce :
           /\ debounce' = {[info |-> d.info, filled |-> TRUE, entries |-> filled(d.info)]}
           /\ services' = services_after_fill(d.info)
    BY <1>11, Zenon DEF debounce_fill
  <2>2. /\ Sound
        /\ UNCHANGED <<offered, ttl, app, stopping, collected_offers, repetition_phase_timers,
                       is_suspended, mainphase>>
    BY <1>11, StaysRegular, Zenon DEF debounce_fill
  <2>3. d.info = Current
    BY <2>2, Zenon DEF Sound, PhasesFollow
  <2>4. /\ RoutingAgrees' /\ OneIsAlive' /\ (~Stopping => services' = services)
        /\ Current' = Current /\ Stopping' = Stopping
    BY <1>t, <2>1, <2>2, <2>3, AfterFill, FillKeeps, Zenon
  <2>5. (\A e \in debounce' : e.info = d.info) /\ (\E e \in debounce' : e.info = d.info)
    BY <2>1
  <2>6. PhasesFollow'
    BY <2>2, <2>3, <2>4, <2>5, Zenon DEF Sound, PhasesFollow
  <2>7. Announced'
    BY <2>2, <2>3, <2>4, <2>5, Zenon DEF Sound, Announced, InSomePhase, Stopping, Current
  <2> QED BY <2>4, <2>6, <2>7, Zenon DEF Sound
<1>12. CASE debounce_send
  <2>1. PICK d \in debounce :
           repetition_phase_timers' = repetition_phase_timers \union first_timer(d.info)
    BY <1>12, Zenon DEF debounce_send
  <2>2. /\ Sound /\ debounce' = {}
        /\ UNCHANGED <<offered, services, ttl, app, stopping, collected_offers, is_suspended, mainphase>>
    BY <1>12, StaysRegular, Zenon DEF debounce_send, routing
  <2>3. d.info = Current /\ d.info \in Info
    BY <1>t, <2>2, Zenon DEF Sound, PhasesFollow, Types
  <2>4. Current' = Current /\ Stopping' = Stopping
    BY <2>2, Zenon DEF Stopping, Current
  <2>5. (\A t \in first_timer(d.info) : t.info = d.info) /\ first_timer(d.info) # {}
    BY DEF first_timer
  <2>6. PhasesFollow'
    BY <2>1, <2>2, <2>3, <2>4, <2>5, Zenon DEF Sound, PhasesFollow, Stopping
  <2>7. RoutingAgrees' /\ OneIsAlive'
    BY <2>2, <2>4, Zenon DEF Sound, RoutingAgrees, OneIsAlive
  <2>8. \E t \in repetition_phase_timers' : t.info = d.info
    BY <2>1, <2>5, Zenon
  <2>9. Announced'
    BY <2>2, <2>3, <2>8, Zenon DEF Sound, Announced, InSomePhase, Stopping, Current
  <2> QED BY <2>6, <2>7, <2>9, Zenon DEF Sound
<1>13. CASE repetition_to_main
  <2>1. PICK t \in repetition_phase_timers :
           /\ repetition_phase_timers' = repetition_phase_timers \ {t}
           /\ mainphase' = mainphase \union {t.info}
    BY <1>13, Zenon DEF repetition_to_main
  <2>2. /\ Sound
        /\ UNCHANGED <<offered, services, ttl, app, stopping, collected_offers, debounce, is_suspended>>
    BY <1>13, StaysRegular, Zenon DEF repetition_to_main
  <2>3. Current' = Current /\ Stopping' = Stopping
    BY <2>2, Zenon DEF Stopping, Current
  <2>4. PhasesFollow'
    BY <2>1, <2>2, <2>3, Zenon DEF Sound, PhasesFollow
  <2>5. RoutingAgrees' /\ OneIsAlive'
    BY <2>2, <2>3, Zenon DEF Sound, RoutingAgrees, OneIsAlive
  <2>6. Announced'
    BY <2>1, <2>2, Zenon DEF Sound, Announced, InSomePhase
  <2> QED BY <2>4, <2>5, <2>6 DEF Sound
<1>14. CASE repetition_send
  <2>1. PICK t \in repetition_phase_timers :
           /\ services' = services_after_fill(t.info)
           /\ \/ /\ repetition_phase_timers' = repetition_phase_timers \ {t}
                 /\ mainphase' = mainphase \union {t.info}
              \/ /\ repetition_phase_timers' = (repetition_phase_timers \ {t})
                        \union {[t EXCEPT !.repetition = next_repetition(t)]}
                 /\ mainphase' = mainphase
    BY <1>14, Zenon DEF repetition_send
  <2>2. /\ Sound
        /\ UNCHANGED <<offered, ttl, app, stopping, collected_offers, debounce, is_suspended>>
    BY <1>14, StaysRegular, Zenon DEF repetition_send
  <2>3. t.info = Current
    BY <2>2, Zenon DEF Sound, PhasesFollow
  <2>4. /\ RoutingAgrees' /\ OneIsAlive' /\ (~Stopping => services' = services)
        /\ Current' = Current /\ Stopping' = Stopping
    BY <1>t, <2>1, <2>2, <2>3, AfterFill, FillKeeps, Zenon
  <2>5. [t EXCEPT !.repetition = next_repetition(t)].info = t.info
    BY Zenon DEF TypeOK
  <2>6. PhasesFollow'
    BY <2>1, <2>2, <2>3, <2>4, <2>5, Zenon DEF Sound, PhasesFollow, Stopping
  <2>7. t.info \in mainphase' \/ \E u \in repetition_phase_timers' : u.info = t.info
    BY <2>1, <2>5, Zenon
  <2>8. Announced'
    BY <2>2, <2>3, <2>4, <2>7, Zenon DEF Announced, Sound, InSomePhase, Stopping, Current
  <2> QED BY <2>4, <2>6, <2>8 DEF Sound
<1>15. ASSUME main_fill \/ find_fill PROVE Sound'
  <2>1. /\ services # 0 /\ ~is_suspended
        /\ services' \in {services_after_fill(services), del_routing_info(services)}
        /\ UNCHANGED <<offered, ttl, app, stopping, collected_offers, debounce,
                       repetition_phase_timers, is_suspended, mainphase>>
    BY <1>15, <1>t, Zenon DEF main_fill, find_fill, Types
  <2>2. Sound
    BY <1>15, StaysRegular, StaysNoted, Zenon DEF main_fill, find_fill
  <2>3. services' \in {0, services} /\ (ttl[services] => services' = services)
    BY <2>1, AfterFill, Zenon
  <2>4. services = Current
    BY <2>1, <2>2, Zenon DEF Sound, RoutingAgrees, Current
  <2>5. /\ RoutingAgrees' /\ OneIsAlive' /\ (~Stopping => services' = services)
        /\ Current' = Current /\ Stopping' = Stopping
    BY <1>t, <2>1, <2>2, <2>3, <2>4, FillKeeps, Zenon
  <2>6. PhasesFollow'
    BY <2>1, <2>2, <2>5, Zenon DEF Sound, PhasesFollow
  <2>7. Announced'
    BY <2>1, <2>2, <2>5, Zenon DEF Sound, Announced, InSomePhase, Stopping
  <2> QED BY <2>5, <2>6, <2>7, Zenon DEF Sound
<1>16. ASSUME UNCHANGED <<routing, collected_offers, debounce, repetition_phase_timers,
                          is_suspended, irregular>>
       PROVE  Sound'
  <2>1. Sound
    BY <1>16, StaysRegular, Zenon
  <2> QED BY <1>16, <2>1, Zenon DEF Sound, RoutingAgrees, PhasesFollow, OneIsAlive, Announced,
             InSomePhase, Current, Stopping, routing
<1>17. (\E t \in Thread : send_filled(t)) \/ receive \/ UNCHANGED vars => Sound'
  BY <1>16, Zenon DEF send_filled, receive, vars, discovery
<1> QED
  BY <1>1, <1>2, <1>3, <1>4, <1>5, <1>6, <1>7, <1>8, <1>9, <1>10, <1>11, <1>12, <1>13, <1>14,
     <1>15, <1>17, <1>18, <1>19, <1>20, Zenon
  DEF Next, App, Timers

-----------------------------------------------------------------------------
(* The remote node.                                                        *)

\* Nothing but a sent offer makes the remote node hear of one.
LEMMA HeardSent ==
    ASSUME NEW S \in SUBSET Entry, net \in Seq(Entry), Sent(S), UNCHANGED remote_known
    PROVE  /\ LastHeard' => LastHeard \/ "offer" \in S
           /\ S # {} /\ "offer" \notin S => ~LastHeard'
<1>1. CASE S = {}
  BY <1>1, Zenon DEF Sent, LastHeard
<1>2. CASE S # {}
  <2> DEFINE e == CHOOSE x \in S : TRUE
  <2>1. e \in S /\ net' = Append(net, e)
    BY <1>2, Zenon DEF Sent
  <2> HIDE DEF e
  <2>2. net' # <<>> /\ net'[Len(net')] = e
    BY <2>1
  <2> QED BY <1>2, <2>1, <2>2, Zenon DEF LastHeard
<1> QED BY <1>1, <1>2, Zenon

\* What arrives was on the wire.
LEMMA HeardReceived == net \in Seq(Entry) /\ receive => LastHeard' = LastHeard
<1> SUFFICES ASSUME net \in Seq(Entry), receive PROVE LastHeard' = LastHeard
  BY Zenon
<1>1. net # <<>> /\ net' = Tail(net) /\ remote_known' = (Head(net) = "offer")
  BY Zenon DEF receive
<1>2. CASE Len(net) = 1
  <2>1. net' = <<>> /\ Head(net) = net[1]
    BY <1>1, <1>2
  <2> QED BY <1>1, <1>2, <2>1, Zenon DEF LastHeard
<1>3. CASE Len(net) > 1
  <2>1. net' \in Seq(Entry) /\ Len(net') = Len(net) - 1 /\ Len(net) \in Nat
    BY <1>1
  <2>2. net'[Len(net) - 1] = net[Len(net)]
    BY <1>1, <1>3, <2>1
  <2>3. net' # <<>>
    BY <1>3, <2>1
  <2> QED BY <1>1, <2>1, <2>2, <2>3, Zenon DEF LastHeard
<1>4. Len(net) = 1 \/ Len(net) > 1
  <2>1. Len(net) \in Nat /\ Len(net) # 0
    BY <1>1
  <2>2. \A n \in Nat : n # 0 => n = 1 \/ n > 1
    OBVIOUS
  <2> QED BY <2>1, <2>2, Zenon
<1> QED BY <1>2, <1>3, <1>4, Zenon

\* The irregularities so far: none at all.
LEMMA StaysQuiet ==
    ASSUME TypeOK, PInv, PInv', StopInv, Regular(Tags)'
    PROVE  /\ Sound'
           /\ UNCHANGED irregular => Sound /\ Told
           /\ \A tags \in SUBSET Tags : irregular' = noted(tags) => Sound /\ Told /\ tags = {}
<1>1. Regular(Tags)' => Regular({"taken"})'
  BY Zenon DEF Regular, Tags
<1>2. Regular(Tags) => Regular({"taken"})
  BY Zenon DEF Regular, Tags
<1>3. Regular(Tags) => Sound /\ Told
  BY <1>2, Zenon DEF PInv, StopInv, Sound
<1>4. UNCHANGED irregular => Regular(Tags)
  BY Zenon DEF Regular
<1>5. ASSUME NEW tags \in SUBSET Tags, irregular' = noted(tags) PROVE Regular(Tags) /\ tags = {}
  <2>1. irregular \subseteq Tags
    BY Zenon DEF TypeOK
  <2> QED BY <1>5, <2>1, Noted, Zenon
<1> QED BY <1>1, <1>3, <1>4, <1>5, Zenon DEF PInv, Sound

\* A step that changes neither who offers nor the course of a stop keeps what the
\* remote node is told, if it requires StopOffers for what it makes it hear of.
LEMMA ToldKept ==
    ASSUME Sound, Told, ~Stopping => services' = services,
           UNCHANGED <<offered, app, stopping, is_suspended>>,
           ~Stopping /\ ~Silenced =>
              (LastHeard' \/ OfferFilled' =>
                  LastHeard \/ OfferFilled \/ stop_offer_required(services)'),
           Stopping => (LastHeard' => LastHeard) /\ (OfferFilled' \/ OfferTaken' => OfferFilled \/ OfferTaken),
           stop_offer_required(Current) => stop_offer_required(Current)',
           ~Stopping /\ Silenced =>
              (LastHeard' \/ OfferFilled' \/ OfferTaken' => LastHeard \/ OfferFilled \/ OfferTaken)
    PROVE  Told'
<1>1. Stopping' = Stopping /\ Silenced' = Silenced
  BY Zenon DEF Stopping, Silenced
<1>2. ~Stopping => Current = services
  BY Zenon DEF Current
<1>3. Stopping => Current = stopping
  BY Zenon DEF Current
<1>4. (~Stopping /\ ~Silenced => (LastHeard \/ OfferFilled => stop_offer_required(services)))'
  <2> SUFFICES ASSUME ~Stopping, ~Silenced, LastHeard' \/ OfferFilled'
               PROVE  stop_offer_required(services)'
    BY <1>1, Zenon
  <2>1. ~Stopping /\ services' = services
    BY <1>1, Zenon
  <2>2. stop_offer_required(Current) \/ stop_offer_required(services)'
    BY <1>2, <2>1, Zenon DEF Told
  <2>3. Current' = services
    BY <1>1, <2>1, Zenon DEF Current
  <2> QED BY <1>2, <2>1, <2>2, <2>3, Zenon
<1>5. (Stopping => ~OfferFilled /\ ~OfferTaken)'
  BY <1>1, Zenon DEF Told
<1>6. (app \in {"stop_collected", "stop_repetition"} => (LastHeard => stop_offer_required(stopping)))'
  <2> SUFFICES ASSUME app \in {"stop_collected", "stop_repetition"}, LastHeard'
               PROVE  stop_offer_required(stopping)'
    BY Zenon
  <2>1. Stopping
    BY Zenon DEF Stopping
  <2>2. stop_offer_required(Current)
    BY <1>3, <2>1, Zenon DEF Told
  <2>3. Current' = stopping'
    BY <1>1, <2>1, Zenon DEF Current
  <2> QED BY <1>3, <2>1, <2>2, <2>3, Zenon
<1>7. (app = "stop_clear" => ~LastHeard)'
  BY Zenon DEF Told, Stopping
<1>8. (~Stopping /\ Silenced => ~LastHeard /\ ~OfferFilled /\ ~OfferTaken)'
  BY <1>1, Zenon DEF Told
<1> QED BY <1>4, <1>5, <1>6, <1>7, <1>8, Zenon DEF Told

\* Every step keeps what the remote node is told.
LEMMA StepStop == TypeOK /\ PInv /\ StopInv /\ [Next]_vars => StopInv'
<1> SUFFICES ASSUME TypeOK, PInv, StopInv, [Next]_vars, Regular(Tags)' PROVE Told'
  BY Zenon DEF StopInv
<1>p. PInv' /\ Types /\ Types' /\ net \in Seq(Entry) /\ building \in [Thread -> SUBSET Entry]
  BY StepPhases, StepType, TypesHold, Zenon DEF TypeOK
<1>q. /\ Sound'
      /\ UNCHANGED irregular => Sound /\ Told
      /\ \A tags \in SUBSET Tags : irregular' = noted(tags) => Sound /\ Told /\ tags = {}
  BY <1>p, StaysQuiet, Zenon
<1>c. \A i : /\ CrossedBy(i) \in SUBSET Tags
             /\ CrossedBy(i) = {} => ~OfferFilled /\ ~OfferTaken
  <2> TAKE i
  <2>1. CrossedBy(i) \in SUBSET Tags
    BY Zenon DEF CrossedBy, Tags
  <2>2. ASSUME OfferFilled PROVE CrossedBy(i) # {}
    <3>1. PICK t \in Thread : "offer" \in building[t]
      BY <2>2, Zenon DEF OfferFilled
    <3>2. "offer" \in Filled(t)
      BY <3>1, Zenon DEF Filled, Thread
    <3> QED BY <3>2, Zenon DEF CrossedBy
  <2>3. ASSUME OfferTaken PROVE CrossedBy(i) # {}
    <3>1. "offer" \in Filled("debounce")
      BY <2>3, Zenon DEF OfferTaken, Filled
    <3> QED BY <3>1, Zenon DEF CrossedBy
  <2> QED BY <2>1, <2>2, <2>3, Zenon
<1>1. CASE offer_service
  <2>1. /\ Sound /\ Told /\ ~Stopping /\ ~Stopping' /\ ~offered /\ app' = "offering"
        /\ UNCHANGED <<building, debounce, net, remote_known>>
    BY <1>1, <1>q, Zenon DEF offer_service, discovery, remote, Stopping
  <2>2. ~LastHeard' /\ ~OfferFilled' /\ ~OfferTaken'
    BY <2>1, Zenon DEF Told, Silenced, LastHeard, OfferFilled, OfferTaken
  <2> QED BY <2>1, <2>2, Zenon DEF Told
<1>2. CASE offer_service_collect
  <2>1. /\ Sound /\ Told /\ ~Stopping /\ ~Stopping' /\ app' = "idle" /\ app = "offering"
        /\ UNCHANGED <<offered, services, mainphase, repetition_phase_timers, building, debounce,
                       net, remote_known, is_suspended>>
    BY <1>2, <1>q, Zenon DEF offer_service_collect, remote, Stopping
  <2>2. Silenced' = Silenced
    BY <2>1, Zenon DEF Silenced
  <2> QED BY <2>1, <2>2, Zenon DEF Told, LastHeard, OfferFilled, OfferTaken, stop_offer_required
<1>3. CASE stop_offer_service
  <2>1. /\ Sound /\ Told /\ CrossedBy(services) = {} /\ ~Stopping /\ offered /\ stopping' = services
        /\ offered' = FALSE /\ app = "idle" /\ app' \in {"stop_collected", "idle"}
        /\ UNCHANGED <<services, mainphase, repetition_phase_timers, building, debounce,
                       net, remote_known, is_suspended>>
    BY <1>3, <1>q, <1>c, Zenon DEF stop_offer_service, remote, Stopping
  <2>2. ~OfferFilled' /\ ~OfferTaken'
    BY <1>c, <2>1, Zenon DEF OfferFilled, OfferTaken
  <2>3. LastHeard' => stop_offer_required(stopping)'
    BY <2>1, Zenon DEF Told, LastHeard, stop_offer_required
  <2>4. app' = "stop_collected"
    BY <1>3, <2>1, Zenon DEF stop_offer_service, Sound, RoutingAgrees
  <2> QED BY <2>1, <2>2, <2>3, <2>4, Zenon DEF Told, Stopping
<1>4. CASE stop_offer_collected
  <2>1. /\ Sound /\ Told /\ app = "stop_collected" /\ app' = "stop_repetition"
        /\ UNCHANGED <<stopping, mainphase, repetition_phase_timers, building, debounce,
                       net, remote_known>>
    <3>1. {g \in {"taken"} : Taken(stopping)} \in SUBSET Tags
      BY Zenon DEF Tags
    <3> QED BY <1>4, <1>q, <3>1, Zenon DEF stop_offer_collected, remote
  <2> QED BY <2>1, Zenon DEF Told, Stopping, LastHeard, OfferFilled, OfferTaken, stop_offer_required
<1>5. CASE stop_offer_repetition
  <2>1. /\ Sound /\ Told /\ app = "stop_repetition" /\ ~OfferFilled /\ ~OfferTaken
        /\ app' = IF stop_offer_required(stopping) THEN "stop_send" ELSE "stop_clear"
        /\ UNCHANGED <<building, debounce, net, remote_known>>
    BY <1>5, <1>q, Zenon DEF stop_offer_repetition, remote, Stopping, Told
  <2>2. ~OfferFilled' /\ ~OfferTaken' /\ LastHeard' = LastHeard
    BY <2>1, Zenon DEF LastHeard, OfferFilled, OfferTaken
  <2> QED BY <2>1, <2>2, Zenon DEF Told, Stopping
<1>6. CASE send_stop_offer
  <2>1. /\ Sound /\ Told /\ app = "stop_send" /\ app' = "stop_clear"
        /\ ~OfferFilled /\ ~OfferTaken /\ entry_of(stopping) = "stop"
        /\ UNCHANGED <<building, debounce, remote_known>>
    BY <1>6, <1>q, Zenon DEF send_stop_offer, discovery, Sound, RoutingAgrees, Stopping, Told, entry_of
  <2>2. ~LastHeard'
    BY <1>6, <1>p, <2>1, HeardSent, Zenon DEF send_stop_offer, Entry
  <2>3. ~OfferFilled' /\ ~OfferTaken'
    BY <2>1, Zenon DEF OfferFilled, OfferTaken
  <2> QED BY <2>1, <2>2, <2>3, Zenon DEF Told, Stopping
<1>7. ASSUME clear_service_info \/ suspend_end PROVE Told'
  <2>1. /\ Sound /\ Told /\ app = "stop_clear" /\ app' = "idle"
        /\ ~OfferFilled /\ ~OfferTaken /\ ~LastHeard
        /\ UNCHANGED <<building, debounce, net, remote_known>>
    BY <1>7, <1>q, Zenon DEF clear_service_info, suspend_end, discovery, remote, Stopping, Told
  <2>2. ~OfferFilled' /\ ~OfferTaken' /\ ~LastHeard'
    BY <2>1, Zenon DEF LastHeard, OfferFilled, OfferTaken
  <2> QED BY <2>1, <2>2, Zenon DEF Told, Stopping
<1>8. CASE suspend
  <2>1. /\ Sound /\ Told /\ ~Stopping /\ ~Stopping' /\ ~is_suspended /\ app' = "suspending"
        /\ UNCHANGED <<offered, services, mainphase, repetition_phase_timers, building, debounce,
                       net, remote_known>>
    BY <1>8, <1>q, Zenon DEF suspend, remote, Stopping
  <2>2. Silenced' = Silenced
    BY <2>1, Zenon DEF Silenced
  <2> QED BY <2>1, <2>2, Zenon DEF Told, LastHeard, OfferFilled, OfferTaken, stop_offer_required
<1>18. CASE suspend_services
  <2>1. /\ Sound /\ Told /\ CrossedBy(services) = {} /\ ~Stopping /\ stopping' = services
        /\ app = "suspending" /\ app' = (IF services # 0 THEN "stop_collected" ELSE "idle")
        /\ UNCHANGED <<offered, services, mainphase, repetition_phase_timers, building, debounce,
                       net, remote_known>>
    BY <1>18, <1>q, <1>c, Zenon DEF suspend_services, remote, Stopping
  <2>2. ~OfferFilled' /\ ~OfferTaken'
    BY <1>c, <2>1, Zenon DEF OfferFilled, OfferTaken
  <2>3. CASE services # 0
    <3>1. ~Silenced
      BY <2>1, <2>3, Zenon DEF Silenced, Sound, RoutingAgrees
    <3>2. LastHeard' => stop_offer_required(stopping)'
      BY <2>1, <3>1, Zenon DEF Told, LastHeard, stop_offer_required
    <3> QED BY <2>1, <2>2, <2>3, <3>2, Zenon DEF Told, Stopping
  <2>4. CASE services = 0
    <3>1. Silenced
      BY <2>1, <2>4, Zenon DEF Silenced, Sound, RoutingAgrees
    <3>2. ~LastHeard' /\ ~Stopping' /\ app' = "idle"
      BY <2>1, <2>4, <3>1, Zenon DEF Told, LastHeard, Stopping
    <3> QED BY <2>2, <3>2, Zenon DEF Told
  <2> QED BY <2>3, <2>4, Zenon
<1>9. ASSUME resume \/ resume_start PROVE Told'
  <2>1. /\ Sound /\ Told /\ ~Stopping /\ ~Stopping' /\ is_suspended /\ app # "suspending"
        /\ app' \in {"resuming", "offering"}
        /\ UNCHANGED <<offered, building, debounce, net, remote_known>>
    BY <1>9, <1>q, Zenon DEF resume, resume_start, discovery, remote, Stopping, Sound, RoutingAgrees
  <2>2. ~OfferFilled' /\ ~OfferTaken' /\ ~LastHeard'
    BY <2>1, Zenon DEF LastHeard, OfferFilled, OfferTaken, Told, Silenced
  <2> QED BY <2>1, <2>2, Zenon DEF Told
<1>10. CASE debounce_take
  <2>1. /\ Sound /\ Told
        /\ UNCHANGED <<offered, services, app, stopping, is_suspended, mainphase,
                       repetition_phase_timers, building, net, remote_known>>
        /\ debounce' = {[info |-> collected_offers, filled |-> FALSE, entries |-> {}]}
    BY <1>10, <1>q, Zenon DEF debounce_take, routing, remote
  <2>2. ~OfferTaken' /\ OfferFilled' = OfferFilled /\ LastHeard' = LastHeard
    BY <2>1 DEF LastHeard, OfferFilled, OfferTaken
  <2>3. stop_offer_required(Current) => stop_offer_required(Current)'
    BY <2>1, Zenon DEF stop_offer_required, Current, Stopping
  <2> QED BY <2>1, <2>2, <2>3, ToldKept, Zenon
<1>f. ASSUME NEW i \in Info, Sound, i = Current
      PROVE  /\ "offer" \in filled(i) => ~Stopping /\ offered /\ ~is_suspended
             /\ entry_of(i) = "offer" => ~Stopping /\ offered
  <2>1. entry_of(i) = "offer" => ttl[i]
    BY Zenon DEF entry_of
  <2>2. Stopping => ~ttl[i]
    BY <1>f, Zenon DEF Sound, RoutingAgrees, Current
  <2>3. ~Stopping => offered
    BY <1>f, <1>p, Zenon DEF Sound, RoutingAgrees, Current, Types
  <2> QED BY <2>1, <2>2, <2>3, Zenon DEF filled
<1>11. CASE debounce_fill
  <2>1. PICK d \in debounce :
           /\ debounce' = {[info |-> d.info, filled |-> TRUE, entries |-> filled(d.info)]}
           /\ services' = services_after_fill(d.info)
    BY <1>11, Zenon DEF debounce_fill
  <2>2. /\ Sound /\ Told
        /\ UNCHANGED <<offered, ttl, app, stopping, is_suspended, mainphase,
                       repetition_phase_timers, building, net, remote_known>>
    BY <1>11, <1>q, Zenon DEF debounce_fill, remote
  <2>3. d.info = Current /\ d.info \in Info
    BY <1>p, <2>2, Zenon DEF Sound, PhasesFollow, Types
  <2>4. (~Stopping => services' = services) /\ Current' = Current
    BY <1>p, <2>1, <2>2, <2>3, AfterFill, FillKeeps, Zenon
  <2>5. OfferTaken' => ~Stopping /\ ~Silenced
    BY <1>f, <2>1, <2>2, <2>3 DEF OfferTaken, Silenced
  <2>6. OfferFilled' = OfferFilled /\ LastHeard' = LastHeard
    BY <2>2, Zenon DEF OfferFilled, LastHeard
  <2>7. stop_offer_required(Current) => stop_offer_required(Current)'
    BY <2>2, <2>4, Zenon DEF stop_offer_required
  <2> QED BY <2>2, <2>4, <2>5, <2>6, <2>7, ToldKept, Zenon
<1>12. CASE debounce_send
  <2>1. PICK d \in debounce :
           /\ Sent(d.entries)
           /\ repetition_phase_timers' = repetition_phase_timers \union first_timer(d.info)
    BY <1>12, Zenon DEF debounce_send
  <2>2. /\ Sound /\ Told /\ debounce' = {}
        /\ UNCHANGED <<offered, services, app, stopping, is_suspended, mainphase, building, remote_known>>
    BY <1>12, <1>q, Zenon DEF debounce_send, routing
  <2>3. d.info = Current /\ d.info \in Info /\ d.entries \in SUBSET Entry
    BY <1>p, <2>2, Zenon DEF Sound, PhasesFollow, Types, TypeOK
  <2>4. Current' = Current
    BY <2>2, Zenon DEF Current, Stopping
  <2>5. LastHeard' => LastHeard \/ OfferTaken
    BY <1>p, <2>1, <2>2, <2>3, HeardSent, Zenon DEF OfferTaken
  <2>6. ~OfferTaken' /\ OfferFilled' = OfferFilled
    BY <2>2, Zenon DEF OfferTaken, OfferFilled
  <2>7. \E t \in repetition_phase_timers' : t.info = Current
    BY <2>1, <2>3, FirstTimer, Zenon DEF first_timer
  <2>8. stop_offer_required(Current)'
    BY <2>4, <2>7, Zenon DEF stop_offer_required
  <2>9. ~Stopping => stop_offer_required(services)'
    BY <2>2, <2>4, <2>8, Zenon DEF Current
  <2>10. Stopping => ~OfferTaken
    BY <2>2, Zenon DEF Told
  <2> QED BY <2>2, <2>5, <2>6, <2>8, <2>9, <2>10, ToldKept, Zenon
<1>13. CASE repetition_to_main
  <2>1. PICK t \in repetition_phase_timers :
           /\ repetition_phase_timers' = repetition_phase_timers \ {t}
           /\ mainphase' = mainphase \union {t.info}
    BY <1>13, Zenon DEF repetition_to_main
  <2>2. /\ Sound /\ Told
        /\ UNCHANGED <<offered, services, app, stopping, is_suspended, debounce, building, net, remote_known>>
    BY <1>13, <1>q, Zenon DEF repetition_to_main, remote
  <2>3. Current' = Current
    BY <2>2, Zenon DEF Current, Stopping
  <2>4. stop_offer_required(Current) => stop_offer_required(Current)'
    BY <2>1, <2>3, Zenon DEF stop_offer_required
  <2>5. OfferTaken' = OfferTaken /\ OfferFilled' = OfferFilled /\ LastHeard' = LastHeard
    BY <2>2, Zenon DEF OfferTaken, OfferFilled, LastHeard
  <2> QED BY <2>2, <2>4, <2>5, ToldKept, Zenon
<1>14. CASE repetition_send
  <2>1. PICK t \in repetition_phase_timers :
           /\ Sent(filled(t.info))
           /\ services' = services_after_fill(t.info)
           /\ \/ /\ repetition_phase_timers' = repetition_phase_timers \ {t}
                 /\ mainphase' = mainphase \union {t.info}
              \/ /\ repetition_phase_timers' = (repetition_phase_timers \ {t})
                        \union {[t EXCEPT !.repetition = next_repetition(t)]}
                 /\ mainphase' = mainphase
    BY <1>14, Zenon DEF repetition_send
  <2>2. /\ Sound /\ Told
        /\ UNCHANGED <<offered, ttl, app, stopping, is_suspended, debounce, building, remote_known>>
    BY <1>14, <1>q, Zenon DEF repetition_send
  <2>3. t.info = Current /\ t.info \in Info /\ [t EXCEPT !.repetition = next_repetition(t)].info = t.info
    BY <1>p, <2>2 DEF Sound, PhasesFollow, Types, TypeOK
  <2>4. (~Stopping => services' = services) /\ Current' = Current
    BY <1>p, <2>1, <2>2, <2>3, AfterFill, FillKeeps, Zenon
  <2>5. LastHeard' => LastHeard \/ "offer" \in filled(t.info)
    BY <1>p, <2>1, <2>2, FilledType, HeardSent, Zenon
  <2>6. OfferTaken' = OfferTaken /\ OfferFilled' = OfferFilled
    BY <2>2, Zenon DEF OfferTaken, OfferFilled
  <2>7. t.info \in mainphase' \/ \E u \in repetition_phase_timers' : u.info = t.info
    BY <2>1, <2>3, Zenon
  <2>8. stop_offer_required(Current)'
    BY <2>3, <2>4, <2>7, Zenon DEF stop_offer_required
  <2>9. ~Stopping => Current = services
    BY Zenon DEF Current
  <2>10. ~Stopping => stop_offer_required(services)'
    BY <2>4, <2>8, <2>9, Zenon
  <2>11. "offer" \in filled(t.info) => ~Stopping /\ ~Silenced
    BY <1>f, <2>2, <2>3, Zenon DEF Silenced
  <2> QED BY <2>2, <2>4, <2>5, <2>6, <2>8, <2>10, <2>11, ToldKept, Zenon
<1>15. ASSUME main_fill \/ find_fill PROVE Told'
  <2>1. PICK t \in Thread :
           /\ building' = [building EXCEPT ![t] = {entry_of(services)}]
           /\ services # 0 /\ ~is_suspended
           /\ services' \in {services_after_fill(services), del_routing_info(services)}
           /\ UNCHANGED <<offered, ttl, app, stopping, is_suspended, mainphase, debounce,
                          repetition_phase_timers, net, remote_known>>
    BY <1>15, <1>p, Zenon DEF main_fill, find_fill, filled, Types, Thread, remote
  <2>2. Sound /\ Told /\ stop_offer_required(services)
    <3>1. CASE main_fill
      BY <1>q, <3>1, Zenon DEF main_fill, stop_offer_required
    <3>2. CASE find_fill
      <4>1. {g \in {"found"} : ~stop_offer_required(services)} \in SUBSET Tags
        BY Zenon DEF Tags
      <4> QED BY <1>q, <3>2, <4>1, Zenon DEF find_fill
    <3> QED BY <1>15, <3>1, <3>2, Zenon
  <2>3. services = Current /\ services \in Info
    BY <1>p, <2>1, <2>2, Zenon DEF Sound, RoutingAgrees, Current, Types
  <2>4. (~Stopping => services' = services) /\ Current' = Current
    <3>1. services' \in {0, services} /\ (ttl[services] => services' = services)
      BY <2>1, AfterFill, Zenon
    <3> QED BY <1>p, <2>1, <2>2, <2>3, <3>1, FillKeeps, Zenon
  <2>5. OfferFilled' => OfferFilled \/ entry_of(services) = "offer"
    BY <1>p, <2>1, Zenon DEF OfferFilled
  <2>6. OfferTaken' = OfferTaken /\ LastHeard' = LastHeard
    BY <2>1, Zenon DEF OfferTaken, LastHeard
  <2>7. stop_offer_required(Current) => stop_offer_required(Current)'
    BY <2>1, <2>4, Zenon DEF stop_offer_required
  <2>8. ~Stopping => stop_offer_required(services)'
    BY <2>1, <2>2, <2>4, Zenon DEF stop_offer_required
  <2>9. entry_of(services) = "offer" => ~Stopping /\ ~Silenced
    BY <1>f, <2>1, <2>2, <2>3, Zenon DEF Silenced
  <2> QED BY <2>1, <2>2, <2>4, <2>5, <2>6, <2>7, <2>8, <2>9, ToldKept, Zenon
<1>16. ASSUME NEW t \in Thread, send_filled(t) PROVE Told'
  <2>1. /\ Sound /\ Told /\ Sent(building[t]) /\ building' = [building EXCEPT ![t] = {}]
        /\ UNCHANGED <<offered, services, app, stopping, is_suspended, mainphase, debounce,
                       repetition_phase_timers, remote_known>>
    BY <1>16, <1>q, Zenon DEF send_filled, routing
  <2>2. LastHeard' => LastHeard \/ OfferFilled
    BY <1>p, <2>1, HeardSent, Zenon DEF OfferFilled
  <2>3. (OfferFilled' => OfferFilled) /\ OfferTaken' = OfferTaken
    BY <1>p, <2>1, Zenon DEF OfferFilled, OfferTaken
  <2>4. stop_offer_required(Current) => stop_offer_required(Current)'
    BY <2>1, Zenon DEF stop_offer_required, Current, Stopping
  <2>5. Stopping => ~OfferFilled
    BY <2>1, Zenon DEF Told
  <2> QED BY <2>1, <2>2, <2>3, <2>4, <2>5, ToldKept, Zenon
<1>17. ASSUME receive \/ UNCHANGED vars PROVE Told'
  <2>1. /\ Sound /\ Told
        /\ UNCHANGED <<offered, services, app, stopping, is_suspended, mainphase, debounce,
                       repetition_phase_timers, building>>
    BY <1>17, <1>q, Zenon DEF receive, vars, routing, discovery
  <2>2. LastHeard' = LastHeard
    <3>1. CASE receive
      BY <1>p, <3>1, HeardReceived, Zenon
    <3>2. CASE UNCHANGED vars
      BY <3>2, Zenon DEF vars, remote, LastHeard
    <3> QED BY <1>17, <3>1, <3>2, Zenon
  <2>3. OfferFilled' = OfferFilled /\ OfferTaken' = OfferTaken
    BY <2>1, Zenon DEF OfferFilled, OfferTaken
  <2>4. stop_offer_required(Current) => stop_offer_required(Current)'
    BY <2>1, Zenon DEF stop_offer_required, Current, Stopping
  <2> QED BY <2>1, <2>2, <2>3, <2>4, ToldKept, Zenon
<1> QED
  BY <1>1, <1>2, <1>3, <1>4, <1>5, <1>6, <1>7, <1>8, <1>9, <1>10, <1>11, <1>12, <1>13, <1>14,
     <1>15, <1>16, <1>17, <1>18, Zenon
  DEF Next, App, Timers

-----------------------------------------------------------------------------
(* Theorems.                                                               *)

\* At the start nothing is offered.
LEMMA InitInv == Init => PInv /\ StopInv
<1> SUFFICES ASSUME Init PROVE PInv /\ StopInv
  BY Zenon
<1>1. ~Stopping /\ Current = 0
  BY Zenon DEF Init, Stopping, Current
<1>2. Sound
  BY <1>1, Zenon DEF Init, Sound, RoutingAgrees, PhasesFollow, OneIsAlive, Announced
<1>3. ~LastHeard /\ ~OfferFilled /\ ~OfferTaken
  BY Zenon DEF Init, LastHeard, OfferFilled, OfferTaken
<1>4. Told
  BY <1>1, <1>3, Zenon DEF Told, Silenced, Init
<1> QED BY <1>2, <1>4, Zenon DEF PInv, StopInv, Sound

\* Routing and the phases of the discovery agree on the serviceinfo in use, and no
\* offer is lost between the phases, however the timers, the application and the
\* routing state interleave (service_discovery_impl, routing_manager_impl).
THEOREM PhasesAlwaysAgree == Spec => []PhasesAgree
<1>1. TypeOK /\ PInv /\ [Next]_vars => (TypeOK /\ PInv)'
  BY StepType, StepPhases, Zenon
<1>2. TypeOK /\ PInv => PhasesAgree
  <2> SUFFICES ASSUME TypeOK, PInv PROVE OfferUnderWay /\ MainPhaseIsCyclic
    BY Zenon DEF PhasesAgree
  <2>1. Regular({"taken"}) => Sound
    BY Zenon DEF PInv, Sound
  <2>2. OfferUnderWay
    BY <2>1, Zenon DEF OfferUnderWay, Sound, Announced, RoutingAgrees, Stopping
  <2>3. MainPhaseIsCyclic
    BY <2>1, Zenon DEF MainPhaseIsCyclic, Sound, OneIsAlive, TypeOK
  <2> QED BY <2>2, <2>3, Zenon
<1> QED BY InitType, InitInv, <1>1, <1>2, PTL DEF Spec

\* The last the remote node hears of a service that was stopped or suspended is a
\* StopOffer, unless the stop crossed another thread: stop_offer_service may leave
\* the message out exactly for offers that were never sent.
THEOREM StopIsHeard == Spec => []StopReachesRemote
<1>1. TypeOK /\ PInv /\ StopInv /\ [Next]_vars => (TypeOK /\ PInv /\ StopInv)'
  BY StepType, StepPhases, StepStop, Zenon
<1>2. TypeOK /\ PInv /\ StopInv => StopReachesRemote
  <2> SUFFICES ASSUME StopInv, Busy = {}, ~offered \/ is_suspended, Regular(Tags)
               PROVE  ~LastHeard
    BY Zenon DEF StopReachesRemote
  <2>1. app = "idle"
    BY Zenon DEF Busy
  <2> QED BY <2>1, Zenon DEF StopInv, Told, Stopping, Silenced
<1> QED BY InitType, InitInv, <1>1, <1>2, PTL DEF Spec
=============================================================================
