----------------------------- MODULE Dispatcher -----------------------------
(***************************************************************************)
(* The dispatcher threads of an application (application_impl).  The I/O   *)
(* threads queue callbacks ("handlers"); the main dispatcher executes      *)
(* them.  A callback that runs longer than max_dispatch_time_ lets a timer *)
(* start an additional dispatcher.  A dispatcher is "active" while every   *)
(* other one is executing a callback or has left; the others leave.        *)
(* shutdown() ends them all.                                               *)
(*                                                                         *)
(* handlers_mutex_ is held from one step to the next only at pc "pop"; a   *)
(* step that acquires and releases it is one action.  dispatcher_mutex_ is *)
(* held across steps only by shutdown() while it joins.                    *)
(***************************************************************************)
EXTENDS Integers, Sequences, FiniteSets

CONSTANTS
    Main,           \* the main dispatcher thread
    Extra,          \* identities of additional dispatcher threads
    NoThread,       \* stop() was not called by a dispatcher
    Service,        \* service instances the callbacks belong to
    Type,           \* kinds of callbacks queued
    MaxDispatchers, \* max_dispatchers_, the main dispatcher included
    IoThreads,      \* I/O threads that may execute timer callbacks at a time
    CanStop,        \* whether stop() may be called
    Spurious,       \* whether wait() may return without a notification
    EarlyExpiry,    \* whether max_dispatch_time_ may be over before the thread
                    \* that armed the timer has declared itself running
    MaxBlocking,    \* bound: callbacks that never return
    MaxHandlers     \* bound: callbacks queued

ASSUME ConstantsAssumption ==
    /\ Main \notin Extra
    /\ NoThread \notin Extra \union {Main}
    /\ Type \subseteq {"AVAILABILITY", "MESSAGE", "OTHER"}
    /\ MaxDispatchers \in Nat \ {0}
    /\ IoThreads \in Nat \ {0}
    /\ CanStop \in BOOLEAN
    /\ Spurious \in BOOLEAN
    /\ EarlyExpiry \in BOOLEAN
    /\ MaxBlocking \in Nat
    /\ MaxHandlers \in Nat

VARIABLES
    is_dispatching,        \* is_dispatching_
    handlers,              \* handlers_
    availability_handlers, \* availability_handlers_: per service, the one being
                           \* executed and what waits for it (<<>>: no entry)
    dispatchers,           \* keys of dispatchers_
    running,               \* running_dispatchers_
    elapsed,               \* elapsed_dispatchers_
    pc,                    \* where each thread is
    cur,                   \* {} or {the callback taken by the thread}
    timer,                 \* threads whose its_dispatcher_timer is armed
    callbacks,             \* timer callbacks, by the step they execute next
    to_notify,             \* on_availability calls that queued but did not notify
    shutdown,              \* where shutdown() is
    stop_caller,           \* stop_caller_id_, if it is a dispatcher
    queued,                \* callbacks queued so far
    blocking               \* callbacks queued so far that never return

queue == <<handlers, availability_handlers>>
pools == <<dispatchers, running, elapsed>>
stopping == <<is_dispatching, shutdown, stop_caller>>
inputs == <<to_notify, queued, blocking>>
vars == <<queue, pools, pc, cur, timer, callbacks, stopping, inputs>>

Thread == {Main} \union Extra

Handler == [type : Type, service : Service, id : Nat, blocks : BOOLEAN]

Pc == {"ended", "loop", "check", "lock", "enter", "wait", "woken",
       "leave", "pop", "begin", "run", "stop", "ret", "back"}

Stage == {"expired", "notify", "create"}

-----------------------------------------------------------------------------
(* Locks, the condition variable, and who may dispatch.                    *)

\* handlers_mutex_ can be acquired.
Free == \A t \in Thread : pc[t] # "pop"

\* dispatcher_mutex_ can be acquired.
DispatcherFree == shutdown # "joining"

\* dispatcher_condition_.notify_all(), while thread t, if any, goes to step p.
notify_all(ts, p) ==
    pc' = [u \in Thread |-> IF u \in ts THEN p
                            ELSE IF pc[u] = "wait" THEN "woken" ELSE pc[u]]

\* dispatcher_condition_.notify_one()
notify_one ==
    IF \E t \in Thread : pc[t] = "wait"
    THEN \E t \in Thread : pc[t] = "wait" /\ pc' = [pc EXCEPT ![t] = "woken"]
    ELSE pc' = pc

has_active_dispatcher == \E d \in dispatchers : d \notin running \union elapsed

is_active_dispatcher(t) ==
    is_dispatching /\ \A d \in dispatchers \ {t} : d \in running \union elapsed

\* Back to the head of the outer loop, handlers_mutex_ released.
Outer(t) == IF t = Main THEN "loop" ELSE "check"

-----------------------------------------------------------------------------
(* Callbacks are queued.                                                   *)

\* on_message and on_availability: one event queues a callback per matching
\* registration.  on_message notifies in the same critical section,
\* on_availability in a later one.
Enqueue(ty, s, n, b) ==
    /\ Free
    /\ shutdown # "done"
    /\ queued + n <= MaxHandlers
    /\ b => blocking + n <= MaxBlocking
    /\ queued' = queued + n
    /\ blocking' = IF b THEN blocking + n ELSE blocking
    /\ handlers' = handlers \o
           [i \in 1..n |-> [type |-> ty, service |-> s, id |-> queued + i, blocks |-> b]]
    /\ IF ty = "AVAILABILITY"
       THEN to_notify' = to_notify + 1 /\ pc' = pc
       ELSE notify_one /\ to_notify' = to_notify
    /\ UNCHANGED <<availability_handlers, pools, cur, timer, callbacks, stopping>>

\* on_availability: the trailing notify_one.
NotifyAvailability ==
    /\ Free
    /\ to_notify > 0
    /\ to_notify' = to_notify - 1
    /\ notify_one
    /\ UNCHANGED <<queue, pools, cur, timer, callbacks, stopping, queued, blocking>>

\* The condition variable may wake a thread without a notification.
SpuriousWakeup(t) ==
    /\ Spurious
    /\ pc[t] = "wait"
    /\ pc' = [pc EXCEPT ![t] = "woken"]
    /\ UNCHANGED <<queue, pools, cur, timer, callbacks, stopping, inputs>>

-----------------------------------------------------------------------------
(* The main dispatcher.                                                    *)

\* main_dispatch: the head of the loop.
main_dispatch ==
    /\ pc[Main] = "loop"
    /\ Free
    /\ IF ~is_dispatching
       THEN pc' = [pc EXCEPT ![Main] = "ended"]
       ELSE IF handlers = <<>> \/ ~is_active_dispatcher(Main)
       THEN notify_all({Main}, "wait")
       ELSE pc' = [pc EXCEPT ![Main] = "pop"]
    /\ UNCHANGED <<queue, pools, cur, timer, callbacks, stopping, inputs>>

\* main_dispatch: back from wait(), the condition of the inner loop.
main_woken ==
    /\ pc[Main] = "woken"
    /\ Free
    /\ pc' = [pc EXCEPT ![Main] =
                 IF is_dispatching /\ (handlers = <<>> \/ ~is_active_dispatcher(Main))
                 THEN "wait" ELSE "loop"]
    /\ UNCHANGED <<queue, pools, cur, timer, callbacks, stopping, inputs>>

-----------------------------------------------------------------------------
(* An additional dispatcher.                                               *)

\* dispatch: is_active_dispatcher without handlers_mutex_.  It has seen
\* is_dispatching_ and goes for dispatcher_mutex_ ...
dispatch_check(t) ==
    /\ pc[t] = "check"
    /\ pc' = [pc EXCEPT ![t] = IF is_dispatching THEN "lock" ELSE "leave"]
    /\ UNCHANGED <<queue, pools, cur, timer, callbacks, stopping, inputs>>

\* ... and, once it has it, looks only at the other dispatchers.
dispatch_lock(t) ==
    /\ pc[t] = "lock"
    /\ DispatcherFree
    /\ pc' = [pc EXCEPT ![t] =
                 IF \A d \in dispatchers \ {t} : d \in running \union elapsed
                 THEN "enter" ELSE "leave"]
    /\ UNCHANGED <<queue, pools, cur, timer, callbacks, stopping, inputs>>

\* dispatch: the body of the loop, up to the first get_next_handler.
dispatch_enter(t) ==
    /\ pc[t] = "enter"
    /\ Free
    /\ pc' = [pc EXCEPT ![t] = IF is_dispatching /\ handlers = <<>> THEN "wait"
                               ELSE IF is_active_dispatcher(t) THEN "pop"
                               ELSE "check"]
    /\ UNCHANGED <<queue, pools, cur, timer, callbacks, stopping, inputs>>

\* dispatch: back from wait().  Nothing to do: woken up by the main dispatcher.
dispatch_woken(t) ==
    /\ t # Main
    /\ pc[t] = "woken"
    /\ Free
    /\ pc' = [pc EXCEPT ![t] = IF handlers = <<>> THEN "ended" ELSE "check"]
    /\ elapsed' = IF handlers = <<>> /\ is_dispatching THEN elapsed \union {t} ELSE elapsed
    /\ UNCHANGED <<queue, dispatchers, running, cur, timer, callbacks, stopping, inputs>>

\* Mutant: whoever leaves does not tell the others.
dispatch_leave_silently(t) ==
    /\ pc[t] = "leave"
    /\ Free
    /\ elapsed' = IF is_dispatching THEN elapsed \union {t} ELSE elapsed
    /\ pc' = [pc EXCEPT ![t] = "ended"]
    /\ UNCHANGED <<queue, dispatchers, running, cur, timer, callbacks, stopping, inputs>>

\* dispatch: after the loop.
dispatch_leave(t) ==
    /\ pc[t] = "leave"
    /\ Free
    /\ elapsed' = IF is_dispatching THEN elapsed \union {t} ELSE elapsed
    /\ notify_all({t}, "ended")
    /\ UNCHANGED <<queue, dispatchers, running, cur, timer, callbacks, stopping, inputs>>

-----------------------------------------------------------------------------
(* Taking and executing a callback (both kinds of dispatcher).             *)

\* An availability callback waits for the one being executed for its service; a
\* message waits with the availability callback that waits before it.
must_wait(h) ==
    \/ h.type = "AVAILABILITY" /\ availability_handlers[h.service] # <<>>
    \/ h.type = "MESSAGE" /\ Len(availability_handlers[h.service]) > 1

\* get_next_handler, one iteration of its loop, and the return to the caller.
get_next_handler(t) ==
    /\ pc[t] = "pop"
    /\ \/ /\ handlers = <<>>
          /\ pc' = [pc EXCEPT ![t] = Outer(t)]
          /\ UNCHANGED <<queue, cur, timer>>
       \/ /\ handlers # <<>>
          /\ LET h == Head(handlers)
             IN  /\ handlers' = Tail(handlers)
                 /\ availability_handlers' =
                      IF must_wait(h) \/ h.type = "AVAILABILITY"
                      THEN [availability_handlers EXCEPT ![h.service] = Append(@, h)]
                      ELSE availability_handlers
                 /\ IF must_wait(h)
                    THEN UNCHANGED <<pc, cur, timer>>
                    ELSE /\ pc' = [pc EXCEPT ![t] = "begin"]
                         /\ cur' = [cur EXCEPT ![t] = {h}]
                         /\ timer' = timer \union {t}
    /\ UNCHANGED <<pools, callbacks, stopping, inputs>>

\* invoke_handler, up to the call of the callback: with the timer armed, the
\* thread declares itself running, unless the application is shutting down.
invoke_handler(t) ==
    /\ pc[t] = "begin"
    /\ IF is_dispatching
       THEN pc' = [pc EXCEPT ![t] = "run"] /\ running' = running \union {t}
       ELSE pc' = [pc EXCEPT ![t] = "ret"] /\ running' = running
    /\ timer' = IF is_dispatching THEN timer ELSE timer \ {t}
    /\ UNCHANGED <<queue, dispatchers, elapsed, cur, callbacks, stopping, inputs>>

\* The callback returns; the timer is cancelled.  Called from a dispatcher,
\* stop() returns when shutdown() is done.
HandlerReturns(t) ==
    /\ \/ pc[t] = "run" /\ \A h \in cur[t] : ~h.blocks
       \/ pc[t] = "stop" /\ shutdown = "done"
    /\ pc' = [pc EXCEPT ![t] = "ret"]
    /\ timer' = timer \ {t}
    /\ UNCHANGED <<queue, pools, cur, callbacks, stopping, inputs>>

\* invoke_handler, after the callback, and the early return of its callers.
invoked(t) ==
    /\ pc[t] = "ret"
    /\ IF is_dispatching
       THEN pc' = [pc EXCEPT ![t] = "back"] /\ running' = running \ {t} /\ cur' = cur
       ELSE pc' = [pc EXCEPT ![t] = "ended"] /\ cur' = [cur EXCEPT ![t] = {}] /\ running' = running
    /\ UNCHANGED <<queue, dispatchers, elapsed, timer, callbacks, stopping, inputs>>

\* Mutant: what waited is queued behind everything else.
reschedule_at_end(h) ==
    /\ handlers' = handlers \o Tail(availability_handlers[h.service])
    /\ availability_handlers' = [availability_handlers EXCEPT ![h.service] = <<>>]

\* reschedule_availability_handler for the callback the entry is about.
reschedule(h) ==
    /\ handlers' = Tail(availability_handlers[h.service]) \o handlers
    /\ availability_handlers' = [availability_handlers EXCEPT ![h.service] = <<>>]

reschedule_availability_handler(h) ==
    IF h.type = "AVAILABILITY" /\ availability_handlers[h.service] # <<>>
       /\ Head(availability_handlers[h.service]) = h
    THEN reschedule(h)
    ELSE UNCHANGED queue

\* remove_elapsed_dispatchers: join() returns once the thread has ended.
remove_elapsed_dispatchers ==
    IF is_dispatching
    THEN /\ \A d \in elapsed : pc[d] = "ended"
         /\ dispatchers' = dispatchers \ elapsed
         /\ elapsed' = {}
    ELSE UNCHANGED <<dispatchers, elapsed>>

\* The callers of invoke_handler, after it: what waited for the callback is
\* queued again, elapsed dispatchers are removed, and the inner loop goes on.
after_invocation(t) ==
    /\ pc[t] = "back"
    /\ Free
    /\ \E h \in cur[t] : reschedule_availability_handler(h)
    /\ cur' = [cur EXCEPT ![t] = {}]
    /\ remove_elapsed_dispatchers
    /\ pc' = [pc EXCEPT ![t] = IF is_active_dispatcher(t) THEN "pop" ELSE Outer(t)]
    /\ UNCHANGED <<running, timer, callbacks, stopping, inputs>>

\* The callers of invoke_handler: the early return.
shut_down_meanwhile(t) ==
    /\ pc[t] = "back"
    /\ ~is_dispatching
    /\ pc' = [pc EXCEPT ![t] = "ended"]
    /\ cur' = [cur EXCEPT ![t] = {}]
    /\ UNCHANGED <<queue, pools, timer, callbacks, stopping, inputs>>

-----------------------------------------------------------------------------
(* The timer of invoke_handler, on an I/O thread.                          *)

\* max_dispatch_time_ is over: the callback is posted, and cancel() no longer
\* reaches it.
Expire(t) ==
    /\ t \in timer
    /\ EarlyExpiry \/ pc[t] # "begin"
    /\ timer' = timer \ {t}
    /\ callbacks' = [callbacks EXCEPT !["expired"] = @ + 1]
    /\ UNCHANGED <<queue, pools, pc, cur, stopping, inputs>>

\* The timer callback looks for a dispatcher that could take over.
timer_decides ==
    /\ callbacks["expired"] > 0
    /\ callbacks["notify"] + callbacks["create"] < IoThreads
    /\ callbacks' = IF ~is_dispatching
                    THEN [callbacks EXCEPT !["expired"] = @ - 1]
                    ELSE IF has_active_dispatcher
                    THEN [callbacks EXCEPT !["expired"] = @ - 1, !["notify"] = @ + 1]
                    ELSE [callbacks EXCEPT !["expired"] = @ - 1, !["create"] = @ + 1]
    /\ UNCHANGED <<queue, pools, pc, cur, timer, stopping, inputs>>

\* The timer callback wakes the dispatchers up.
timer_notifies ==
    /\ callbacks["notify"] > 0
    /\ Free
    /\ notify_all({}, "woken")
    /\ callbacks' = [callbacks EXCEPT !["notify"] = @ - 1]
    /\ UNCHANGED <<queue, pools, cur, timer, stopping, inputs>>

\* Mutant: is_dispatching_ is not looked at again under dispatcher_mutex_.
may_create_when_stopped == Cardinality(dispatchers) < MaxDispatchers

may_create == Cardinality(dispatchers) < MaxDispatchers /\ is_dispatching

\* The timer callback starts a dispatcher, if it may.
timer_creates ==
    /\ callbacks["create"] > 0
    /\ DispatcherFree
    /\ IF may_create
       THEN \E t \in Extra \ dispatchers :
               /\ dispatchers' = dispatchers \union {t}
               /\ pc' = [pc EXCEPT ![t] = "check"]
       ELSE UNCHANGED <<dispatchers, pc>>
    /\ callbacks' = [callbacks EXCEPT !["create"] = @ - 1]
    /\ UNCHANGED <<queue, running, elapsed, cur, timer, stopping, inputs>>

-----------------------------------------------------------------------------
(* Shutdown.                                                               *)

\* stop(), called by a callback a dispatcher executes (and then waiting for the
\* end of shutdown()), or elsewhere.
stop(t) ==
    /\ CanStop
    /\ shutdown = "waiting"
    /\ shutdown' = "stopped"
    /\ stop_caller' = t
    /\ IF t = NoThread
       THEN pc' = pc
       ELSE pc[t] = "run" /\ pc' = [pc EXCEPT ![t] = "stop"]
    /\ UNCHANGED <<queue, pools, cur, timer, callbacks, is_dispatching, inputs>>

\* shutdown(): dispatching is switched off under handlers_mutex_.
shutdown_switches_off ==
    /\ shutdown = "stopped"
    /\ Free
    /\ shutdown' = "off"
    /\ is_dispatching' = FALSE
    /\ notify_all({}, "woken")
    /\ UNCHANGED <<queue, pools, cur, timer, callbacks, stop_caller, inputs>>

\* shutdown(): dispatcher_mutex_ is acquired for joining.
shutdown_locks ==
    /\ shutdown = "off"
    /\ shutdown' = "joining"
    /\ UNCHANGED <<queue, pools, pc, cur, timer, callbacks, is_dispatching, stop_caller, inputs>>

\* shutdown(): all dispatchers are joined, but the caller of stop() is detached.
shutdown_joins ==
    /\ shutdown = "joining"
    /\ \A d \in dispatchers \ {stop_caller} : pc[d] = "ended"
    /\ shutdown' = "done"
    /\ availability_handlers' = [s \in Service |-> <<>>]
    /\ dispatchers' = {} /\ running' = {} /\ elapsed' = {}
    /\ UNCHANGED <<handlers, pc, cur, timer, callbacks, is_dispatching, stop_caller, inputs>>

-----------------------------------------------------------------------------
\* After start().
Init ==
    /\ is_dispatching = TRUE
    /\ handlers = <<>>
    /\ availability_handlers = [s \in Service |-> <<>>]
    /\ dispatchers = {Main}
    /\ running = {}
    /\ elapsed = {}
    /\ pc = [t \in Thread |-> IF t = Main THEN "loop" ELSE "ended"]
    /\ cur = [t \in Thread |-> {}]
    /\ timer = {}
    /\ callbacks = [c \in Stage |-> 0]
    /\ to_notify = 0
    /\ shutdown = "waiting"
    /\ stop_caller = NoThread
    /\ queued = 0
    /\ blocking = 0

Dispatch(t) ==
    \/ dispatch_check(t)
    \/ dispatch_lock(t)
    \/ dispatch_enter(t)
    \/ dispatch_woken(t)
    \/ dispatch_leave(t)
    \/ get_next_handler(t)
    \/ invoke_handler(t)
    \/ HandlerReturns(t)
    \/ invoked(t)
    \/ after_invocation(t)
    \/ shut_down_meanwhile(t)

MainDispatch == main_dispatch \/ main_woken

IoThread == NotifyAvailability \/ timer_decides \/ timer_notifies \/ timer_creates

Shutdown == shutdown_switches_off \/ shutdown_locks \/ shutdown_joins

Next ==
    \/ \E ty \in Type, s \in Service, n \in 1..2, b \in BOOLEAN : Enqueue(ty, s, n, b)
    \/ \E t \in Thread : SpuriousWakeup(t)
    \/ MainDispatch
    \/ \E t \in Thread : Dispatch(t)
    \/ \E t \in Thread : Expire(t)
    \/ IoThread
    \/ \E t \in Thread \union {NoThread} : stop(t)
    \/ Shutdown

Spec == Init /\ [][Next]_vars

\* Threads are scheduled, timers expire, and a callback that does not block
\* returns.  Nothing else is assumed: stop() and new callbacks need not come.
Fairness ==
    /\ WF_vars(MainDispatch)
    /\ \A t \in Thread : WF_vars(Dispatch(t)) /\ WF_vars(Expire(t))
    /\ WF_vars(NotifyAvailability)
    /\ WF_vars(timer_decides)
    /\ WF_vars(timer_notifies)
    /\ WF_vars(timer_creates)
    /\ WF_vars(Shutdown)

FairSpec == Spec /\ Fairness

-----------------------------------------------------------------------------
(* Properties.                                                             *)

Executing(t) == pc[t] \in {"begin", "run", "stop", "ret", "back"}

\* Callbacks of a service that are queued, or wait for an availability callback.
Pending(s) ==
    {handlers[i] : i \in {k \in 1..Len(handlers) : handlers[k].service = s}}
    \union {availability_handlers[s][i] : i \in 2..Len(availability_handlers[s])}

\* The values of the variables; never more dispatchers than configured, although
\* timer callbacks decide to create one before they lock (invoke_handler).
TypeOK ==
    /\ is_dispatching \in BOOLEAN
    /\ handlers \in Seq(Handler)
    /\ availability_handlers \in [Service -> Seq(Handler)]
    /\ dispatchers \subseteq Thread
    /\ IsFiniteSet(dispatchers)
    /\ Cardinality(dispatchers) <= MaxDispatchers
    /\ running \subseteq Thread
    /\ elapsed \subseteq Thread
    /\ pc \in [Thread -> Pc]
    /\ cur \in [Thread -> SUBSET Handler]
    /\ timer \subseteq Thread
    /\ callbacks \in [Stage -> Nat]
    /\ to_notify \in Nat
    /\ shutdown \in {"waiting", "stopped", "off", "joining", "done"}
    /\ stop_caller \in Thread \union {NoThread}
    /\ queued \in Nat
    /\ blocking \in Nat

\* A dispatcher recorded as elapsed is still registered, and has nothing left to
\* do: remove_elapsed_dispatchers finds it, and joining it while holding both
\* mutexes cannot block.
ElapsedIsJoinable == \A d \in elapsed : d \in dispatchers /\ pc[d] = "ended"

\* While the application dispatches, running_dispatchers_ holds exactly the
\* threads that execute a callback; a thread left in it would be taken for busy,
\* and all others for active, for ever (invoke_handler).
RunningIsExecuting ==
    is_dispatching => \A t \in Thread : t \in running <=> pc[t] \in {"run", "stop", "ret"}

\* Availability callbacks of one service instance never overlap, whatever
\* dispatchers there are (get_next_handler: "There is a running availability
\* handler for this service. Therefore, this one must wait...").
OneAvailabilityAtATime ==
    \A t, u \in Thread : \A g \in cur[t], h \in cur[u] :
        g.type = "AVAILABILITY" /\ h.type = "AVAILABILITY" /\ g.service = h.service
            => t = u

\* A callback is not taken before an availability callback of the same service
\* that was queued earlier (get_next_handler, reschedule_availability_handler).
AvailabilityInOrder ==
    \A t \in Thread : \A g \in cur[t] :
        g.type \in {"AVAILABILITY", "MESSAGE"} =>
            \A h \in Pending(g.service) : h.type = "AVAILABILITY" => h.id > g.id

\* When shutdown() is done no dispatcher is left, save the one that called
\* stop() and was detached; timer callbacks do not start one behind its back.
NoDispatcherAfterShutdown ==
    shutdown = "done" => \A t \in Thread : pc[t] = "ended" \/ t = stop_caller

\* The bookkeeping of dispatchers is right at all times: no more than configured,
\* who is elapsed can be joined, who is running executes a callback, and none is
\* left after shutdown().
DispatchersAgree ==
    TypeOK /\ ElapsedIsJoinable /\ RunningIsExecuting /\ NoDispatcherAfterShutdown

\* Availability callbacks of a service are executed one at a time and before
\* everything of that service that was queued later, although dispatchers come,
\* block and go, and callbacks are put back.
AvailabilityRespected == OneAvailabilityAtATime /\ AvailabilityInOrder

IsPending(i) == \E s \in Service : \E h \in Pending(s) : h.id = i

Waiting == {t \in Thread : pc[t] = "wait"}

\* Every callback that is queued is taken at last, as long as callbacks return
\* and the application is not stopped, unless two dispatchers come to wait at the
\* same time: apart from that, no wake-up is lost between dispatchers that wait,
\* leave and take over (main_dispatch, dispatch, invoke_handler).  The user guide
\* on max_dispatch_time promises it also when a callback does not return, if
\* max_dispatchers is configured greater than 0.
TakenUnlessTwoWait ==
    \A i \in 1..MaxHandlers :
        IsPending(i) ~> \/ ~IsPending(i)
                        \/ shutdown # "waiting"
                        \/ Cardinality(Waiting) > 1

\* application.hpp says of the callback of register_message_handler that it "will
\* be called if a message arrives".
PendingExecuted ==
    \A i \in 1..MaxHandlers : IsPending(i) ~> (~IsPending(i) \/ shutdown # "waiting")

\* application.hpp says of stop(): "start will return after a call to stop".
\* start() waits for shutdown().
ShutdownEnds == shutdown = "stopped" ~> shutdown = "done"
=============================================================================
