------------------------- MODULE RemoteSubscription -------------------------
(***************************************************************************)
(* Remote subscriptions to one eventgroup of a locally offered service.    *)
(*                                                                         *)
(* Subscribe / StopSubscribe entries reach the routing manager through     *)
(* service discovery.  The routing manager asks the local client (the      *)
(* application offering the service, behind routing_manager_stub and       *)
(* routing_manager_proxy) whether it accepts, keeps every (un)subscription *)
(* pending until the client answered, and queues those that arrive         *)
(* meanwhile from the same remote.  Answers, expiration of targets, stop   *)
(* of the offer and the client's death run on other threads.               *)
(***************************************************************************)
EXTENDS Naturals, Sequences, FiniteSets

CONSTANTS
    Endpoint,        \* subscribers: address, port and protocol
    Remote,          \* address and port alone: the key of the queues
    remote_of,       \* the remote of an endpoint
    Client,          \* client ids a server endpoint may know a remote by
    clients_of,      \* the client ids get_client may return for an endpoint
    MaxId,           \* largest pending_subscription_id_t (2^16 - 1 in the code)
    CrossingSd,      \* may service discovery's work on the service cross its
                     \* stop, and be done while the service is not announced?
    MaxPending,      \* bound: pending (un)subscriptions of the eventgroup
    MaxSubscribes,   \* bound: subscribes the local client counted or may still count
    MaxOffers        \* bound: (stop) offer commands of the client under way

Id == 1 .. MaxId
DEFAULT_SUBSCRIPTION == 0

ASSUME ConstantsAssumption ==
    /\ remote_of \in [Endpoint -> Remote]
    /\ clients_of \in [Endpoint -> SUBSET Client]
    /\ MaxId \in Nat \ {0, 1}
    /\ CrossingSd \in BOOLEAN
    /\ MaxPending \in Nat
    /\ MaxSubscribes \in Nat
    /\ MaxOffers \in Nat

VARIABLES
    \* eventgroupinfo
    subscription_id,                 \* last id handed out
    pending_subscriptions,           \* id -> (un)subscription
    pending_subscriptions_by_remote, \* remote -> queue of ids
    targets,                         \* endpoints that receive the events
    \* service discovery
    pending_remote_subscriptions,    \* Subscribe entries not answered yet
    unsubscribing,                   \* on_unsubscribe between its two halves
    expired,                         \* targets found expired, not yet removed
    expiring,                        \* removed targets whose unsubscription is not queued
    unsent,                          \* commands a handler is about to send
    announced,                       \* the offer left the initial wait phase
    known,                           \* some offer was announced before
    \* routing manager and its connection with the local client
    offered,                         \* local_services_ has the service
    toClient, fromClient,            \* commands on the local endpoints
    \* the local client
    alive,                           \* its process runs
    offering,                        \* it offered the service
    asked,                           \* subscriptions its handler has not answered
    remote_subscriber_count,         \* routing_manager_proxy's counter
    notifying,                       \* its events have the routing manager as subscriber
    \* what the remotes asked for and were told last
    wants, told                      \* told: since the last (un)subscribe or expiry;
                                     \* "crossed": acknowledged between the check
                                     \* of the expiration and the removal

eventgroup == <<subscription_id, pending_subscriptions,
                pending_subscriptions_by_remote, targets>>
expiry == <<expired, expiring, unsent>>
sd == <<pending_remote_subscriptions, unsubscribing, expiry, announced, known>>
clientVars == <<alive, offering, asked, remote_subscriber_count, notifying>>
vars == <<eventgroup, sd, offered, toClient, fromClient, clientVars, wants, told>>

\* pending_subscription_t; ttl 1 stands for every positive ttl.
PendingSubscription == [subscriber : Endpoint, ttl : {0, 1}, client : Client]
\* VSOMEIP_SUBSCRIBE and VSOMEIP_UNSUBSCRIBE of a remote subscriber.
ClientCommand == [ttl : {0, 1}, id : Id, client : Client]
Answer == [command : {"SUBSCRIBE_ACK", "SUBSCRIBE_NACK", "UNSUBSCRIBE_ACK"},
           id : Id, client : Client]
OfferCommand == [command : {"OFFER_SERVICE", "STOP_OFFER_SERVICE"}]

-----------------------------------------------------------------------------
(* eventgroupinfo *)

\* ++subscription_id_ on a uint16, skipping DEFAULT_SUBSCRIPTION.
next_id(id) == (id % MaxId) + 1

remote_of_id(id) == remote_of[pending_subscriptions[id].subscriber]
queue_of(id) == pending_subscriptions_by_remote[remote_of_id(id)]

\* Ids of commands, questions and answers that are under way.
Outstanding ==
    {toClient[i].id : i \in DOMAIN toClient}
    \cup {a.id : a \in asked}
    \cup {fromClient[i].id :
            i \in {j \in DOMAIN fromClient : fromClient[j] \in Answer}}
    \cup {u.id : u \in unsubscribing}
    \cup {u.id : u \in unsent}

IdIsFree(id) ==
    /\ id \notin DOMAIN pending_subscriptions \cup Outstanding
    /\ \A p \in pending_remote_subscriptions : p.id # id

\* Assumption on the environment, not a condition of the code: fewer than MaxId
\* (un)subscriptions arrive while one is open, so that the 16 bit counter does
\* not come round to an id still in use.
IdsOutlast == subscription_id' # subscription_id => IdIsFree(subscription_id')

\* Mutant: every (un)subscription is sent at once.
id_to_send_always(e) == next_id(subscription_id)

\* The id add_pending_subscription returns: DEFAULT_SUBSCRIPTION when the
\* remote's queue is not empty.
id_to_send(e) ==
    IF pending_subscriptions_by_remote[remote_of[e]] = <<>>
    THEN next_id(subscription_id)
    ELSE DEFAULT_SUBSCRIPTION

add_pending_subscription(e, ttl, c) ==
    LET id == next_id(subscription_id) IN
    /\ Cardinality(DOMAIN pending_subscriptions) < MaxPending
    /\ subscription_id' = id
    /\ pending_subscriptions' =
         [i \in DOMAIN pending_subscriptions \cup {id} |->
            IF i = id THEN [subscriber |-> e, ttl |-> ttl, client |-> c]
                      ELSE pending_subscriptions[i]]
    /\ pending_subscriptions_by_remote' =
         [pending_subscriptions_by_remote EXCEPT ![remote_of[e]] = Append(@, id)]

\* The answered entry leaves the queue together with the entries of its own
\* kind right behind it; the first entry of the other kind is the new front.
is_front(id) ==
    /\ id \in DOMAIN pending_subscriptions
    /\ queue_of(id) # <<>>
    /\ Head(queue_of(id)) = id

\* n entries leave the queue with the answer to its front id.
removes(id, n) ==
    LET ttl(i) == pending_subscriptions[queue_of(id)[i]].ttl IN
    /\ n \in 1 .. Len(queue_of(id))
    /\ \A i \in 1 .. n : ttl(i) = ttl(1)
    /\ n < Len(queue_of(id)) => ttl(n + 1) # ttl(1)

removed_ids(id, n) == {queue_of(id)[i] : i \in 1 .. n}
remaining_queue(id, n) == SubSeq(queue_of(id), n + 1, Len(queue_of(id)))

remove_pending_subscription(id, n) ==
    /\ pending_subscriptions' =
         [i \in DOMAIN pending_subscriptions \ removed_ids(id, n) |->
            pending_subscriptions[i]]
    /\ pending_subscriptions_by_remote' =
         [pending_subscriptions_by_remote EXCEPT
            ![remote_of_id(id)] = remaining_queue(id, n)]

clear_pending_subscriptions ==
    /\ pending_subscriptions' = [i \in {} |-> i]
    /\ pending_subscriptions_by_remote' = [r \in Remote |-> << >>]

-----------------------------------------------------------------------------
(* routing_manager_impl *)

\* send_subscription / send_unsubscription: the command is lost when the
\* service has no local client or its endpoint is dead.
send_command(id, ttl, c) ==
    toClient' = IF offered /\ alive /\ id # DEFAULT_SUBSCRIPTION
                THEN Append(toClient, [ttl |-> ttl, id |-> id, client |-> c])
                ELSE toClient

\* The same by a handler that holds no lock: the command is decided upon, and
\* sent by a later step.
keep_command(id, ttl, c) ==
    unsent' = IF id # DEFAULT_SUBSCRIPTION
              THEN unsent \cup {[ttl |-> ttl, id |-> id, client |-> c]}
              ELSE unsent

\* Mutant: the next queued (un)subscription is forgotten.
send_front_forgotten(queue) == UNCHANGED toClient

\* After an answer: what has become the front of the queue is sent.
send_front(queue) ==
    IF queue = <<>> THEN UNCHANGED toClient
    ELSE send_command(Head(queue), pending_subscriptions[Head(queue)].ttl,
                      pending_subscriptions[Head(queue)].client)

keep_front(queue) ==
    IF queue = <<>> THEN UNCHANGED unsent
    ELSE keep_command(Head(queue), 1, pending_subscriptions[Head(queue)].client)

\* What on_message's thread needs to take up a Subscribe or StopSubscribe.
SdReady == unsubscribing = {}
InStep == announced \/ (CrossingSd /\ known)
EntryMayArrive == SdReady /\ InStep

\* Bound on what may yet count up at the client.
Subscribes ==
    remote_subscriber_count + Cardinality(asked)
      + Cardinality({i \in DOMAIN toClient : toClient[i].ttl = 1})
      + Cardinality({i \in DOMAIN pending_subscriptions :
                        pending_subscriptions[i].ttl = 1})

\* What e is told with the outcome of its subscription.
answered(e, outcome) ==
    IF outcome = "acknowledged" /\ e \in expired THEN "crossed" ELSE outcome

\* A subscriber that is a target is refreshed and acknowledged at once; any
\* other one becomes pending, and is sent unless its remote has others pending.
on_remote_subscription(e, c) ==
    /\ EntryMayArrive
    /\ wants' = [wants EXCEPT ![e] = "subscribed"]
    /\ \/ /\ e \in targets
          /\ told' = [told EXCEPT ![e] = answered(e, "acknowledged")]
          /\ UNCHANGED <<eventgroup, pending_remote_subscriptions, toClient>>
       \/ /\ e \notin targets
          /\ Subscribes < MaxSubscribes
          /\ add_pending_subscription(e, 1, c)
          /\ send_command(id_to_send(e), 1, c)
          /\ pending_remote_subscriptions' = pending_remote_subscriptions
               \cup {[client |-> c, id |-> subscription_id', subscriber |-> e]}
          /\ told' = [told EXCEPT ![e] = "nothing"]
          /\ UNCHANGED targets
    /\ UNCHANGED <<unsubscribing, expiry, announced, known, offered, fromClient, clientVars>>

\* on_unsubscribe holds no lock between the queue, the targets and the send.
on_unsubscribe(e, c) ==
    /\ EntryMayArrive
    /\ add_pending_subscription(e, 0, c)
    /\ unsubscribing' = {[subscriber |-> e, id |-> id_to_send(e), client |-> c]}
    /\ wants' = [wants EXCEPT ![e] = "unsubscribed"]
    /\ told' = [told EXCEPT ![e] = "nothing"]
    /\ UNCHANGED <<targets, pending_remote_subscriptions, expiry, announced, known,
                   offered, toClient, fromClient, clientVars>>

on_unsubscribe_send ==
    /\ \E u \in unsubscribing :
          /\ targets' = targets \ {u.subscriber}
          /\ send_command(u.id, 0, u.client)
    /\ unsubscribing' = {}
    /\ UNCHANGED <<subscription_id, pending_subscriptions,
                   pending_subscriptions_by_remote, pending_remote_subscriptions,
                   expiry, announced, known, offered, fromClient, clientVars, wants, told>>

\* expire_subscriptions, under eventgroups_mutex_: the ttl of a target ran out,
\* or its address rebooted, as a copy of the targets says.  The mutex keeps no
\* handler out that has found the eventgroup before.
expire_subscriptions(e) ==
    /\ e \in targets \ (expired \cup expiring)
    /\ expired' = expired \cup {e}
    /\ told' = [told EXCEPT ![e] = "nothing"]
    /\ UNCHANGED <<eventgroup, pending_remote_subscriptions, unsubscribing, expiring,
                   unsent, announced, known, offered, toClient, fromClient, clientVars,
                   wants>>

\* ... it is removed from the targets, without another look at its expiration.
expire_subscriptions_remove(e) ==
    /\ e \in expired
    /\ targets' = targets \ {e}
    /\ expired' = expired \ {e}
    /\ expiring' = expiring \cup {e}
    /\ UNCHANGED <<subscription_id, pending_subscriptions,
                   pending_subscriptions_by_remote, pending_remote_subscriptions,
                   unsubscribing, unsent, announced, known, offered, toClient,
                   fromClient, clientVars, wants, told>>

\* ... after the mutex was released: the unsubscription is queued if the service
\* has a local client,
expire_subscriptions_queue(e, c) ==
    /\ e \in expiring
    /\ expiring' = expiring \ {e}
    /\ \/ /\ offered /\ InStep
          /\ add_pending_subscription(e, 0, c)
          /\ keep_command(id_to_send(e), 0, c)
       \/ /\ ~offered
          /\ UNCHANGED <<subscription_id, pending_subscriptions,
                         pending_subscriptions_by_remote, unsent>>
    /\ UNCHANGED <<targets, pending_remote_subscriptions, unsubscribing, expired,
                   announced, known, offered, toClient, fromClient, clientVars, wants,
                   told>>

\* ... and sent to the client that was found before.
expire_subscriptions_send(id) ==
    /\ \E u \in unsent :
          /\ u.id = id /\ u.ttl = 0
          /\ unsent' = unsent \ {u}
          /\ toClient' = IF alive THEN Append(toClient, u) ELSE toClient
    /\ UNCHANGED <<eventgroup, pending_remote_subscriptions, unsubscribing, expired,
                   expiring, announced, known, offered, fromClient, clientVars, wants,
                   told>>

\* Mutant: only the subscription that was sent is answered via SD.
settled_first(id, n, c) ==
    {p \in pending_remote_subscriptions : p.id = id /\ p.client = c}

\* remote_subscription_acknowledge, for every subscription an answer settles:
\* service discovery looks the waiting entries up under the answer's client.
settled(id, n, c) ==
    {p \in pending_remote_subscriptions : p.id \in removed_ids(id, n) /\ p.client = c}

settle(id, n, c, outcome) ==
    LET done == settled(id, n, c) IN
    /\ pending_remote_subscriptions' = pending_remote_subscriptions \ done
    /\ told' = [e \in Endpoint |->
                  IF \E p \in done : p.subscriber = e THEN answered(e, outcome)
                                                   ELSE told[e]]

Subscribers(ids) == {pending_subscriptions[i].subscriber : i \in ids}

add_targets(id, n) == targets' = targets \cup Subscribers(removed_ids(id, n))

on_subscribe_ack(id, c) ==
    /\ offered
    /\ IF is_front(id)
       THEN \E n \in DOMAIN queue_of(id) :
              /\ removes(id, n)
              /\ remove_pending_subscription(id, n)
              /\ add_targets(id, n)
              /\ settle(id, n, c, "acknowledged")
              /\ send_front(remaining_queue(id, n))
       ELSE UNCHANGED <<pending_subscriptions, pending_subscriptions_by_remote,
                        targets, pending_remote_subscriptions, told, toClient>>

on_subscribe_nack(id, c) ==
    /\ IF is_front(id)
       THEN \E n \in DOMAIN queue_of(id) :
              /\ removes(id, n)
              /\ remove_pending_subscription(id, n)
              /\ settle(id, n, c, "rejected")
              /\ send_front(remaining_queue(id, n))
       ELSE UNCHANGED <<pending_subscriptions, pending_subscriptions_by_remote,
                        pending_remote_subscriptions, told, toClient>>
    /\ UNCHANGED targets

\* on_unsubscribe_ack holds no lock between the removal and the send of what
\* has become the front of the queue, a subscription.
on_unsubscribe_ack(id) ==
    /\ IF is_front(id)
       THEN \E n \in DOMAIN queue_of(id) :
              /\ removes(id, n)
              /\ remove_pending_subscription(id, n)
              /\ keep_front(remaining_queue(id, n))
       ELSE UNCHANGED <<pending_subscriptions, pending_subscriptions_by_remote,
                        unsent>>
    /\ UNCHANGED <<targets, pending_remote_subscriptions, told, toClient>>

on_unsubscribe_ack_send(id) ==
    /\ \E u \in unsent :
          /\ u.id = id /\ u.ttl = 1
          /\ unsent' = unsent \ {u}
          /\ send_command(u.id, 1, u.client)
    /\ UNCHANGED <<eventgroup, pending_remote_subscriptions, unsubscribing, expired,
                   expiring, announced, known, offered, fromClient, clientVars, wants,
                   told>>

\* on_stop_offer_service: the eventgroup is only cleared (del_routing_info)
\* for an offer that was announced; service discovery rejects what it has
\* pending in any case.
on_stop_offer_service ==
    /\ offered' = FALSE
    /\ announced' = FALSE
    /\ IF announced
       THEN targets' = {} /\ clear_pending_subscriptions
       ELSE UNCHANGED <<targets, pending_subscriptions,
                        pending_subscriptions_by_remote>>
    /\ pending_remote_subscriptions' = {}
    /\ told' = [e \in Endpoint |->
                  IF \E p \in pending_remote_subscriptions : p.subscriber = e
                  THEN "rejected"
                  ELSE IF announced THEN "nothing" ELSE told[e]]
    /\ UNCHANGED toClient

\* routing_manager_stub::on_message: the client's next command.
on_message ==
    /\ fromClient # <<>>
    /\ \A u \in unsent : u.ttl = 0
    /\ fromClient' = Tail(fromClient)
    /\ LET m == Head(fromClient) IN
       \/ /\ m.command = "SUBSCRIBE_ACK"
          /\ \/ on_subscribe_ack(m.id, m.client)
             \/ ~offered /\ on_subscribe_nack(m.id, m.client)
          /\ UNCHANGED <<offered, announced, unsent>>
       \/ /\ m.command = "SUBSCRIBE_NACK"
          /\ on_subscribe_nack(m.id, m.client)
          /\ UNCHANGED <<offered, announced, unsent>>
       \/ /\ m.command = "UNSUBSCRIBE_ACK"
          /\ on_unsubscribe_ack(m.id)
          /\ UNCHANGED <<offered, announced>>
       \/ /\ m.command = "OFFER_SERVICE"
          /\ offered' = TRUE
          /\ UNCHANGED <<pending_subscriptions, pending_subscriptions_by_remote,
                         targets, pending_remote_subscriptions, told, toClient,
                         announced, unsent>>
       \/ /\ m.command = "STOP_OFFER_SERVICE"
          /\ on_stop_offer_service
          /\ UNCHANGED unsent
    /\ UNCHANGED <<subscription_id, unsubscribing, expired, expiring, known, clientVars,
                   wants>>

\* on_offer_debounce_timer_expired: the offer's first entry is sent.
Announce ==
    /\ offered /\ ~announced
    /\ announced' = TRUE /\ known' = TRUE
    /\ UNCHANGED <<eventgroup, pending_remote_subscriptions, unsubscribing,
                   expiry, offered, toClient, fromClient, clientVars, wants, told>>

\* The connection of a dead client has been read to its end: the stub
\* deregisters it and stops its offers.
Deregister ==
    /\ ~alive /\ fromClient = <<>> /\ offered
    /\ on_stop_offer_service
    /\ UNCHANGED <<subscription_id, unsubscribing, expiry, known, fromClient, clientVars,
                   wants>>

-----------------------------------------------------------------------------
(* The local client: application_impl and routing_manager_proxy *)

OffersUnderWay == {i \in DOMAIN fromClient : fromClient[i] \in OfferCommand}

ClientUnchanged == UNCHANGED <<eventgroup, sd, offered, wants, told>>

offer_service ==
    /\ alive /\ ~offering
    /\ Cardinality(OffersUnderWay) < MaxOffers
    /\ offering' = TRUE
    /\ fromClient' = Append(fromClient, [command |-> "OFFER_SERVICE"])
    /\ UNCHANGED <<alive, asked, remote_subscriber_count, notifying, toClient>>
    /\ ClientUnchanged

\* The events lose their subscribers, the counter keeps its value.
stop_offer_service ==
    /\ alive /\ offering
    /\ Cardinality(OffersUnderWay) < MaxOffers
    /\ offering' = FALSE
    /\ notifying' = FALSE
    /\ fromClient' = Append(fromClient, [command |-> "STOP_OFFER_SERVICE"])
    /\ UNCHANGED <<alive, asked, remote_subscriber_count, toClient>>
    /\ ClientUnchanged

\* VSOMEIP_SUBSCRIBE: the application's subscription handler is asked.
on_subscribe_command ==
    /\ alive /\ toClient # <<>> /\ Head(toClient).ttl = 1
    /\ toClient' = Tail(toClient)
    /\ asked' = asked \cup {[id |-> Head(toClient).id, client |-> Head(toClient).client]}
    /\ UNCHANGED <<alive, offering, remote_subscriber_count, notifying, fromClient>>
    /\ ClientUnchanged

\* The handler answers, at once or later and in any order.
subscription_accepted_cbk(a, command) ==
    /\ alive /\ a \in asked
    /\ asked' = asked \ {a}
    /\ fromClient' = Append(fromClient,
                       [command |-> command, id |-> a.id, client |-> a.client])
    /\ notifying' = TRUE
    /\ remote_subscriber_count' = remote_subscriber_count + 1
    /\ UNCHANGED <<alive, offering, toClient>>
    /\ ClientUnchanged

\* VSOMEIP_UNSUBSCRIBE: acknowledged at once.
on_unsubscribe_command ==
    /\ alive /\ toClient # <<>> /\ Head(toClient).ttl = 0
    /\ toClient' = Tail(toClient)
    /\ remote_subscriber_count' =
         IF remote_subscriber_count > 0 THEN remote_subscriber_count - 1 ELSE 0
    /\ notifying' = (notifying /\ remote_subscriber_count' > 0)
    /\ fromClient' = Append(fromClient,
         [command |-> "UNSUBSCRIBE_ACK", id |-> Head(toClient).id,
          client |-> Head(toClient).client])
    /\ UNCHANGED <<alive, offering, asked>>
    /\ ClientUnchanged

\* The client's process dies; what it was sent or had not answered is lost.
Crash ==
    /\ alive
    /\ alive' = FALSE /\ offering' = FALSE /\ notifying' = FALSE
    /\ asked' = {} /\ toClient' = <<>> /\ remote_subscriber_count' = 0
    /\ UNCHANGED fromClient
    /\ ClientUnchanged

Restart ==
    /\ ~alive /\ ~offered /\ fromClient = <<>>
    /\ alive' = TRUE
    /\ UNCHANGED <<offering, asked, remote_subscriber_count, notifying, toClient,
                   fromClient>>
    /\ ClientUnchanged

-----------------------------------------------------------------------------
Init ==
    /\ subscription_id = 0
    /\ pending_subscriptions = [i \in {} |-> i]
    /\ pending_subscriptions_by_remote = [r \in Remote |-> << >>]
    /\ targets = {}
    /\ pending_remote_subscriptions = {}
    /\ unsubscribing = {}
    /\ expired = {} /\ expiring = {} /\ unsent = {}
    /\ announced = FALSE /\ known = FALSE /\ offered = FALSE
    /\ toClient = << >> /\ fromClient = << >>
    /\ alive = TRUE /\ offering = FALSE /\ asked = {}
    /\ remote_subscriber_count = 0 /\ notifying = FALSE
    /\ wants = [e \in Endpoint |-> "unsubscribed"]
    /\ told = [e \in Endpoint |-> "nothing"]

SdStep ==
    \/ \E e \in Endpoint : \E c \in clients_of[e] :
          /\ \/ on_remote_subscription(e, c)
             \/ on_unsubscribe(e, c)
             \/ expire_subscriptions_queue(e, c)
          /\ IdsOutlast
    \/ on_unsubscribe_send
    \/ \E e \in Endpoint : expire_subscriptions(e) \/ expire_subscriptions_remove(e)
    \/ \E id \in Id : expire_subscriptions_send(id)
    \/ Announce

ClientStep ==
    \/ offer_service
    \/ stop_offer_service
    \/ on_subscribe_command
    \/ \E a \in asked : \E command \in {"SUBSCRIBE_ACK", "SUBSCRIBE_NACK"} :
          subscription_accepted_cbk(a, command)
    \/ on_unsubscribe_command
    \/ Crash
    \/ Restart

Next ==
    \/ SdStep
    \/ on_message
    \/ \E id \in Id : on_unsubscribe_ack_send(id)
    \/ Deregister
    \/ ClientStep

Spec == Init /\ [][Next]_vars

\* The handlers of the sockets and timers run whenever they have something to
\* do, and the application answers every subscription it is asked about.
Fairness ==
    /\ WF_vars(on_message)
    /\ WF_vars(Deregister)
    /\ WF_vars(on_subscribe_command)
    /\ WF_vars(on_unsubscribe_command)
    /\ WF_vars(on_unsubscribe_send)
    /\ \A id \in Id : WF_vars(on_unsubscribe_ack_send(id))
    /\ \A id \in Id : WF_vars(expire_subscriptions_send(id))
    /\ \A id \in Id : WF_vars(\E a \in asked : /\ a.id = id
            /\ \E command \in {"SUBSCRIBE_ACK", "SUBSCRIBE_NACK"} :
                  subscription_accepted_cbk(a, command))

FairSpec == Spec /\ Fairness

-----------------------------------------------------------------------------
(* Properties *)

\* The state variables stay in their types.
TypeOK ==
    /\ subscription_id \in 0 .. MaxId
    /\ DOMAIN pending_subscriptions \subseteq Id
    /\ pending_subscriptions \in
         [DOMAIN pending_subscriptions -> PendingSubscription]
    /\ pending_subscriptions_by_remote \in [Remote -> Seq(Id)]
    /\ targets \subseteq Endpoint
    /\ pending_remote_subscriptions \subseteq
         [client : Client, id : Id, subscriber : Endpoint]
    /\ unsubscribing \subseteq
         [subscriber : Endpoint, id : Id \cup {DEFAULT_SUBSCRIPTION}, client : Client]
    /\ expired \subseteq Endpoint /\ expiring \subseteq Endpoint
    /\ unsent \subseteq ClientCommand
    /\ announced \in BOOLEAN /\ known \in BOOLEAN /\ offered \in BOOLEAN
    /\ toClient \in Seq(ClientCommand)
    /\ fromClient \in Seq(Answer \cup OfferCommand)
    /\ alive \in BOOLEAN /\ offering \in BOOLEAN
    /\ asked \subseteq [id : Id, client : Client]
    /\ remote_subscriber_count \in Nat /\ notifying \in BOOLEAN
    /\ wants \in [Endpoint -> {"subscribed", "unsubscribed"}]
    /\ told \in [Endpoint -> {"nothing", "acknowledged", "crossed", "rejected"}]

\* eventgroupinfo's map and its queues agree: every pending id is in the queue
\* of its own remote and nowhere else, and in it once; remove_pending_
\* subscription never meets a queued id that is not in the map.
QueuesMatchPending ==
    /\ \A r \in Remote : \A i \in DOMAIN pending_subscriptions_by_remote[r] :
          /\ pending_subscriptions_by_remote[r][i] \in DOMAIN pending_subscriptions
          /\ remote_of_id(pending_subscriptions_by_remote[r][i]) = r
          /\ \A j \in DOMAIN pending_subscriptions_by_remote[r] :
                pending_subscriptions_by_remote[r][i]
                  = pending_subscriptions_by_remote[r][j] => i = j
    /\ \A id \in DOMAIN pending_subscriptions :
          \E i \in DOMAIN queue_of(id) : queue_of(id)[i] = id

\* A command the local client has been sent, has not answered, or whose answer
\* is under way is at the front of its remote's queue: (un)subscriptions of one
\* remote reach the client one at a time, and no answer for a pending
\* subscription ever comes "in wrong order".
AtFront(id) ==
    id \in DOMAIN pending_subscriptions =>
        queue_of(id) # <<>> /\ Head(queue_of(id)) = id
OutstandingIsFront == \A id \in Outstanding : AtFront(id)

\* The inductive invariant: the eventgroup's map and queues agree, and commands
\* and answers concern the fronts of the queues only (eventgroupinfo,
\* on_remote_subscription, on_subscribe_ack, on_unsubscribe).
Inv == TypeOK /\ QueuesMatchPending /\ OutstandingIsFront

\* No wake-up is lost: while the service is offered by a living client, the
\* front of every queue has been sent and its answer is still to come.
FrontIsUnderWay ==
    alive /\ offered =>
      \A r \in Remote :
        pending_subscriptions_by_remote[r] # <<>> =>
          Head(pending_subscriptions_by_remote[r]) \in Outstanding

\* Service discovery waits only for subscriptions that eventgroupinfo has
\* pending: whenever a pending subscription is removed, its Subscribe entry
\* has been answered.
SdWaitsForPending ==
    \A p \in pending_remote_subscriptions :
        /\ p.id \in DOMAIN pending_subscriptions
        /\ pending_subscriptions[p.id].subscriber = p.subscriber
        /\ pending_subscriptions[p.id].ttl = 1

\* A remote that last asked to subscribe and was last told "acknowledged", and
\* whose ttl has not run out since, receives the events.  The one exception is
\* "crossed": an acknowledgement that came after expire_subscriptions had found
\* the target expired and before it removed the target.
AcknowledgedIsTarget ==
    \A e \in Endpoint :
        wants[e] = "subscribed" /\ told[e] = "acknowledged" => e \in targets

\* The queues, the service discovery and the targets tell one story of every
\* subscription, whatever expires, is renewed or withdrawn meanwhile: nobody
\* waits in vain, and who was acknowledged is served (on_remote_subscription,
\* send_pending, expire_subscriptions).
SubscriptionsAgree == FrontIsUnderWay /\ SdWaitsForPending /\ AcknowledgedIsTarget

\* Every Subscribe entry is eventually answered.
SubscriptionAnswered ==
    \A id \in Id : (\E p \in pending_remote_subscriptions : p.id = id)
                   ~> ~(\E p \in pending_remote_subscriptions : p.id = id)

\* routing_manager_proxy: "withdraw subscription only if no more remote
\* subscriber exists".  With nothing under way, a client that offers the
\* service notifies the routing manager as long as a remote is subscribed.
WithdrawnOnlyWithoutSubscriber ==
    /\ alive /\ offering /\ offered
    /\ toClient = <<>> /\ fromClient = <<>> /\ asked = {}
    /\ SdReady /\ expired = {} /\ expiring = {} /\ unsent = {}
    /\ \E e \in targets : wants[e] = "subscribed" /\ told[e] = "acknowledged"
    => notifying
=============================================================================
