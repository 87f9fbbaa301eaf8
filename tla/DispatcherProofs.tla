-------------------------- MODULE DispatcherProofs --------------------------
(***************************************************************************)
(* Proofs about Dispatcher, for any number of threads, services, callbacks *)
(* and I/O threads: the bookkeeping of dispatchers is consistent, joining  *)
(* never blocks on a live thread, availability callbacks never overlap and *)
(* are taken in order, and shutdown() leaves no dispatcher behind.         *)
(***************************************************************************)
EXTENDS Dispatcher, FiniteSetTheorems, SequenceTheorems, TLAPS

-----------------------------------------------------------------------------
(* The inductive invariant.                                                *)

\* shutdown() switches is_dispatching_ off, and nobody switches it on again.
OffWhenShutDown == is_dispatching <=> shutdown \in {"waiting", "stopped"}

\* A thread that has not ended is registered in dispatchers_, or is the detached
\* caller of stop().
Registered ==
    \A t \in Thread : pc[t] # "ended" =>
        IF shutdown = "done" THEN t = stop_caller ELSE t \in dispatchers

\* Only a thread that executes a callback holds one.
HoldsWhileExecuting == \A t \in Thread : cur[t] # {} => Executing(t)

\* An availability callback being executed is announced to get_next_handler.
AvailabilityAnnounced ==
    shutdown # "done" =>
        \A t \in Thread : \A h \in cur[t] :
            h.type = "AVAILABILITY" => availability_handlers[h.service] # <<>>

\* The bookkeeping of the dispatchers.
PInv ==
    /\ ElapsedIsJoinable
    /\ RunningIsExecuting
    /\ OffWhenShutDown
    /\ Registered

\* The availability callbacks being executed.
AInv ==
    /\ HoldsWhileExecuting
    /\ AvailabilityAnnounced
    /\ OneAvailabilityAtATime

-----------------------------------------------------------------------------
(* Lemmas.                                                                 *)

\* What notify_one and notify_all do to a thread.
Woken(t) == pc'[t] = pc[t] \/ (pc[t] = "wait" /\ pc'[t] = "woken")

\* notify_one wakes a thread that waits, or nobody.
LEMMA NotifyOne ==
    ASSUME pc \in [Thread -> Pc], notify_one
    PROVE  /\ pc' \in [Thread -> Pc]
           /\ \A t \in Thread : Woken(t)
<1>1. CASE \E t \in Thread : pc[t] = "wait"
  <2>1. PICK t \in Thread : pc[t] = "wait" /\ pc' = [pc EXCEPT ![t] = "woken"]
    BY <1>1, Zenon DEF notify_one
  <2> QED BY <2>1, Zenon DEF Pc, Woken
<1>2. CASE ~\E t \in Thread : pc[t] = "wait"
  BY <1>2, Zenon DEF notify_one, Woken
<1> QED BY <1>1, <1>2, Zenon

\* notify_all wakes the threads that wait; those in ts go to step p.
LEMMA NotifyAll ==
    ASSUME pc \in [Thread -> Pc], NEW ts, NEW p \in Pc, notify_all(ts, p)
    PROVE  /\ pc' \in [Thread -> Pc]
           /\ \A t \in Thread : IF t \in ts THEN pc'[t] = p ELSE Woken(t)
BY Zenon DEF notify_all, Pc, Woken

\* The dispatchers stay within the limit when one is added under it, and when
\* some are removed.
LEMMA Limit ==
    ASSUME IsFiniteSet(dispatchers), Cardinality(dispatchers) <= MaxDispatchers
    PROVE  /\ \A t : Cardinality(dispatchers) < MaxDispatchers =>
                        /\ IsFiniteSet(dispatchers \union {t})
                        /\ Cardinality(dispatchers \union {t}) <= MaxDispatchers
           /\ \A e : /\ IsFiniteSet(dispatchers \ e)
                     /\ Cardinality(dispatchers \ e) <= MaxDispatchers
<1>1. ASSUME NEW t, Cardinality(dispatchers) < MaxDispatchers
      PROVE  /\ IsFiniteSet(dispatchers \union {t})
             /\ Cardinality(dispatchers \union {t}) <= MaxDispatchers
  <2>1. /\ IsFiniteSet(dispatchers \union {t})
        /\ \/ Cardinality(dispatchers \union {t}) = Cardinality(dispatchers)
           \/ Cardinality(dispatchers \union {t}) = Cardinality(dispatchers) + 1
    BY FS_AddElement, Zenon
  <2>2. Cardinality(dispatchers) \in Nat /\ MaxDispatchers \in Nat
    BY FS_CardinalityType, ConstantsAssumption, Zenon
  <2> QED BY <1>1, <2>1, <2>2
<1>2. ASSUME NEW e
      PROVE  /\ IsFiniteSet(dispatchers \ e)
             /\ Cardinality(dispatchers \ e) <= MaxDispatchers
  <2>1. dispatchers \ e \subseteq dispatchers
    BY Zenon
  <2>2. IsFiniteSet(dispatchers \ e) /\ Cardinality(dispatchers \ e) <= Cardinality(dispatchers)
    BY <2>1, FS_Subset, Zenon
  <2> QED BY <2>2, FS_CardinalityType, ConstantsAssumption
<1> QED BY <1>1, <1>2, Zenon

-----------------------------------------------------------------------------
(* Type correctness.                                                       *)

\* After start() the variables have their types.
LEMMA InitType == Init => TypeOK
<1> SUFFICES ASSUME Init PROVE TypeOK
  BY Zenon
<1>1. IsFiniteSet(dispatchers) /\ Cardinality(dispatchers) = 1
  BY FS_Singleton, Zenon DEF Init
<1>2. 1 <= MaxDispatchers
  BY ConstantsAssumption
<1> QED BY <1>1, <1>2 DEF Init, TypeOK, Thread, Pc, Stage

\* Queueing and waking up keep the types.
LEMMA QueueType ==
    ASSUME TypeOK, NEW ty \in Type, NEW s \in Service, NEW n \in 1..2, NEW b \in BOOLEAN,
           Enqueue(ty, s, n, b)
    PROVE  TypeOK'
<1> DEFINE new == [i \in 1..n |-> [type |-> ty, service |-> s, id |-> queued + i, blocks |-> b]]
<1>1. new \in Seq(Handler)
  <2>1. \A i \in 1..n : [type |-> ty, service |-> s, id |-> queued + i, blocks |-> b] \in Handler
    BY DEF Handler, TypeOK
  <2>2. new \in [1..n -> Handler]
    BY <2>1, Zenon
  <2> QED BY <2>2
<1>2. handlers' \in Seq(Handler)
  <2>1. handlers \in Seq(Handler) /\ handlers' = handlers \o new
    BY Zenon DEF Enqueue, TypeOK
  <2> HIDE DEF new
  <2> QED BY <1>1, <2>1, ConcatProperties, Zenon
<1>3. pc' \in [Thread -> Pc] /\ to_notify' \in Nat
  BY NotifyOne DEF Enqueue, TypeOK
<1>4. queued' \in Nat /\ blocking' \in Nat
  BY DEF Enqueue, TypeOK
<1> QED BY <1>2, <1>3, <1>4, Zenon DEF Enqueue, TypeOK, pools, stopping

\* Taking a callback keeps the types.
LEMMA TakeType ==
    ASSUME TypeOK, NEW t \in Thread, get_next_handler(t)
    PROVE  TypeOK'
<1>1. CASE handlers = <<>>
  <2>1. pc' \in [Thread -> Pc]
    BY <1>1, Zenon DEF get_next_handler, TypeOK, Pc, Outer
  <2> QED BY <1>1, <2>1, Zenon DEF get_next_handler, TypeOK, queue, pools, stopping, inputs
<1>2. CASE handlers # <<>>
  <2> PICK h : h = Head(handlers)
    BY Zenon
  <2>1. h \in Handler /\ handlers' \in Seq(Handler)
    <3>1. handlers \in Seq(Handler) /\ handlers' = Tail(handlers)
      BY <1>2, Zenon DEF get_next_handler, TypeOK
    <3> QED BY <1>2, <3>1, HeadTailProperties, Zenon
  <2>2. h.service \in Service
    BY <2>1, Zenon DEF Handler
  <2>3. availability_handlers' \in [Service -> Seq(Handler)]
    <3>1. \/ availability_handlers' = availability_handlers
          \/ availability_handlers' = [availability_handlers EXCEPT ![h.service] = Append(@, h)]
      BY <1>2, Zenon DEF get_next_handler
    <3>2. availability_handlers \in [Service -> Seq(Handler)]
      BY Zenon DEF TypeOK
    <3>3. Append(availability_handlers[h.service], h) \in Seq(Handler)
      BY <2>1, <2>2, <3>2, AppendProperties, Zenon
    <3> QED BY <2>2, <3>1, <3>2, <3>3, Zenon
  <2>4. pc' \in [Thread -> Pc] /\ cur' \in [Thread -> SUBSET Handler] /\ timer' \subseteq Thread
    <3>1. \/ pc' = pc /\ cur' = cur /\ timer' = timer
          \/ /\ pc' = [pc EXCEPT ![t] = "begin"]
             /\ cur' = [cur EXCEPT ![t] = {h}]
             /\ timer' = timer \union {t}
      BY <1>2, Zenon DEF get_next_handler
    <3>2. pc \in [Thread -> Pc] /\ cur \in [Thread -> SUBSET Handler] /\ timer \subseteq Thread
      BY Zenon DEF TypeOK
    <3>3. "begin" \in Pc /\ {h} \in SUBSET Handler
      BY <2>1, Zenon DEF Pc
    <3> QED BY <3>1, <3>2, <3>3, Zenon
  <2> QED BY <1>2, <2>1, <2>3, <2>4, Zenon DEF get_next_handler, TypeOK, pools, stopping, inputs
<1> QED BY <1>1, <1>2, Zenon

\* Putting back what waited, and removing elapsed dispatchers, keeps the types.
LEMMA BackType ==
    ASSUME TypeOK, NEW t \in Thread, after_invocation(t)
    PROVE  TypeOK'
<1>1. PICK h \in cur[t] : reschedule_availability_handler(h)
  BY Zenon DEF after_invocation
<1>2. h \in Handler /\ h.service \in Service
  BY <1>1 DEF TypeOK, Handler
<1>3. handlers' \in Seq(Handler) /\ availability_handlers' \in [Service -> Seq(Handler)]
  <2>1. CASE availability_handlers[h.service] # <<>> /\ reschedule(h)
    <3>1. Tail(availability_handlers[h.service]) \in Seq(Handler)
      BY <1>2, <2>1 DEF TypeOK
    <3>2. handlers' \in Seq(Handler)
      BY <3>1, <2>1 DEF reschedule, TypeOK
    <3>3. availability_handlers' \in [Service -> Seq(Handler)]
      BY <1>2, <2>1 DEF reschedule, TypeOK
    <3> QED BY <3>2, <3>3, Zenon
  <2>2. CASE UNCHANGED queue
    BY <2>2, Zenon DEF queue, TypeOK
  <2> QED BY <1>1, <2>1, <2>2, Zenon DEF reschedule_availability_handler
<1>4. /\ dispatchers' \subseteq Thread /\ IsFiniteSet(dispatchers')
      /\ Cardinality(dispatchers') <= MaxDispatchers /\ elapsed' \subseteq Thread
  <2>1. CASE is_dispatching
    <3>1. dispatchers' = dispatchers \ elapsed /\ elapsed' = {}
      BY <2>1, Zenon DEF after_invocation, remove_elapsed_dispatchers
    <3> QED BY <3>1, Limit, Zenon DEF TypeOK
  <2>2. CASE ~is_dispatching
    BY <2>2, Zenon DEF after_invocation, remove_elapsed_dispatchers, TypeOK
  <2> QED BY <2>1, <2>2, Zenon
<1>5. pc' \in [Thread -> Pc] /\ cur' \in [Thread -> SUBSET Handler]
  BY Zenon DEF after_invocation, TypeOK, Pc, Outer
<1> QED BY <1>3, <1>4, <1>5, Zenon DEF after_invocation, TypeOK, stopping, inputs

\* Every step keeps the types.
LEMMA StepType == TypeOK /\ [Next]_vars => TypeOK'
<1> SUFFICES ASSUME TypeOK, [Next]_vars PROVE TypeOK'
  BY Zenon
<1>pc. pc \in [Thread -> Pc]
  BY Zenon DEF TypeOK
<1>p. "wait" \in Pc /\ "ended" \in Pc /\ "woken" \in Pc /\ "pop" \in Pc
  BY Zenon DEF Pc
<1>1. CASE NotifyAvailability
  BY <1>1, NotifyOne DEF TypeOK, NotifyAvailability, queue, pools, stopping, inputs
<1>2. ASSUME NEW t \in Thread, SpuriousWakeup(t) PROVE TypeOK'
  BY <1>2, Zenon DEF TypeOK, SpuriousWakeup, Pc, queue, pools, stopping, inputs
<1>3. CASE main_dispatch
  <2>1. pc' \in [Thread -> Pc]
    BY <1>3, <1>pc, <1>p, NotifyAll, Zenon DEF main_dispatch
  <2> QED BY <1>3, <2>1, Zenon DEF main_dispatch, TypeOK, queue, pools, stopping, inputs
<1>4. CASE main_woken
  BY <1>4, Zenon DEF TypeOK, main_woken, Pc, Thread, queue, pools, stopping, inputs
<1>5. ASSUME NEW t \in Thread, dispatch_check(t) PROVE TypeOK'
  BY <1>5, Zenon DEF TypeOK, dispatch_check, Pc, queue, pools, stopping, inputs
<1>6. ASSUME NEW t \in Thread, dispatch_lock(t) PROVE TypeOK'
  BY <1>6, Zenon DEF TypeOK, dispatch_lock, Pc, queue, pools, stopping, inputs
<1>7. ASSUME NEW t \in Thread, dispatch_enter(t) PROVE TypeOK'
  BY <1>7, Zenon DEF TypeOK, dispatch_enter, Pc, queue, pools, stopping, inputs
<1>8. ASSUME NEW t \in Thread, dispatch_woken(t) PROVE TypeOK'
  BY <1>8, Zenon DEF TypeOK, dispatch_woken, Pc, queue, pools, stopping, inputs
<1>9. ASSUME NEW t \in Thread, dispatch_leave(t) PROVE TypeOK'
  <2>1. pc' \in [Thread -> Pc]
    BY <1>9, <1>pc, <1>p, NotifyAll, Zenon DEF dispatch_leave
  <2> QED BY <1>9, <2>1, Zenon DEF dispatch_leave, TypeOK, queue, pools, stopping, inputs
<1>10. ASSUME NEW t \in Thread, invoke_handler(t) PROVE TypeOK'
  BY <1>10, Zenon DEF TypeOK, invoke_handler, Pc, queue, pools, stopping, inputs
<1>11. ASSUME NEW t \in Thread, HandlerReturns(t) PROVE TypeOK'
  BY <1>11, Zenon DEF TypeOK, HandlerReturns, Pc, queue, pools, stopping, inputs
<1>12. ASSUME NEW t \in Thread, invoked(t) PROVE TypeOK'
  BY <1>12, Zenon DEF TypeOK, invoked, Pc, queue, pools, stopping, inputs
<1>13. ASSUME NEW t \in Thread, shut_down_meanwhile(t) PROVE TypeOK'
  BY <1>13, Zenon DEF TypeOK, shut_down_meanwhile, Pc, queue, pools, stopping, inputs
<1>14. ASSUME NEW t \in Thread, Expire(t) PROVE TypeOK'
  BY <1>14 DEF TypeOK, Expire, Stage, queue, pools, stopping, inputs
<1>15. CASE timer_decides
  <2>1. callbacks' \in [Stage -> Nat]
    BY <1>15 DEF timer_decides, TypeOK, Stage
  <2> QED BY <1>15, <2>1, Zenon DEF timer_decides, TypeOK, queue, pools, stopping, inputs
<1>16. CASE timer_notifies
  <2>1. pc' \in [Thread -> Pc]
    BY <1>16, <1>pc, <1>p, NotifyAll, Zenon DEF timer_notifies
  <2> QED BY <1>16, <2>1 DEF timer_notifies, TypeOK, Stage, queue, pools, stopping, inputs
<1>17. CASE timer_creates
  <2>1. CASE may_create
    <3>1. PICK t \in Extra \ dispatchers :
              dispatchers' = dispatchers \union {t} /\ pc' = [pc EXCEPT ![t] = "check"]
      BY <1>17, <2>1, Zenon DEF timer_creates
    <3>2. IsFiniteSet(dispatchers') /\ Cardinality(dispatchers') <= MaxDispatchers
      BY <2>1, <3>1, Limit, Zenon DEF may_create, TypeOK
    <3> QED BY <1>17, <3>1, <3>2 DEF timer_creates, TypeOK, Stage, Pc, Thread, queue, pools, stopping, inputs
  <2>2. CASE ~may_create
    BY <1>17, <2>2 DEF timer_creates, TypeOK, Stage, queue, pools, stopping, inputs
  <2> QED BY <2>1, <2>2, Zenon
<1>18. ASSUME NEW t \in Thread \union {NoThread}, stop(t) PROVE TypeOK'
  BY <1>18, Zenon DEF TypeOK, stop, Pc, Thread, queue, pools, stopping, inputs
<1>19. CASE shutdown_switches_off
  <2>1. pc' \in [Thread -> Pc]
    BY <1>19, <1>pc, <1>p, NotifyAll, Zenon DEF shutdown_switches_off
  <2> QED BY <1>19, <2>1, Zenon DEF shutdown_switches_off, TypeOK, Stage, queue, pools, stopping, inputs
<1>20. CASE shutdown_locks
  BY <1>20, Zenon DEF TypeOK, shutdown_locks, queue, pools, stopping, inputs
<1>21. CASE shutdown_joins
  <2>1. IsFiniteSet({}) /\ Cardinality({}) <= MaxDispatchers
    BY FS_EmptySet, ConstantsAssumption
  <2>2. availability_handlers' \in [Service -> Seq(Handler)]
    BY <1>21 DEF shutdown_joins
  <2> QED BY <1>21, <2>1, <2>2, Zenon DEF shutdown_joins, TypeOK, inputs
<1>22. CASE UNCHANGED vars
  BY <1>22, Zenon DEF vars, TypeOK, queue, pools, stopping, inputs
<1> QED
  BY <1>1, <1>2, <1>3, <1>4, <1>5, <1>6, <1>7, <1>8, <1>9, <1>10, <1>11, <1>12, <1>13, <1>14, <1>15, <1>16, <1>17, <1>18, <1>19, <1>20, <1>21, <1>22, QueueType, TakeType, BackType
  DEF Next, MainDispatch, Dispatch, IoThread, Shutdown

\* The variables keep their types, and there are never more dispatchers than
\* configured.
THEOREM TypeCorrect == Spec => []TypeOK
BY InitType, StepType, PTL DEF Spec

-----------------------------------------------------------------------------
(* The bookkeeping of the dispatchers.                                     *)

\* Every step keeps the bookkeeping of dispatchers_, running_dispatchers_ and
\* elapsed_dispatchers_.
LEMMA StepPools == TypeOK /\ PInv /\ [Next]_vars => PInv'
<1> SUFFICES ASSUME TypeOK, PInv, [Next]_vars PROVE PInv'
  BY Zenon
<1>pc. pc \in [Thread -> Pc] /\ Main \in Thread
  BY Zenon DEF TypeOK, Thread
<1>p. "wait" \in Pc /\ "ended" \in Pc /\ "woken" \in Pc /\ "pop" \in Pc
  BY Zenon DEF Pc
<1>1. ASSUME NEW ty, NEW s, NEW n, NEW b, Enqueue(ty, s, n, b) PROVE PInv'
  <2>1. \A u \in Thread : Woken(u)
    BY <1>1, <1>pc, NotifyOne, Zenon DEF Enqueue, Woken
  <2> QED BY <1>1, <2>1, Zenon DEF Enqueue, Woken, TypeOK, PInv, ElapsedIsJoinable, RunningIsExecuting, OffWhenShutDown, Registered, queue, pools, stopping, inputs
<1>2. CASE NotifyAvailability
  <2>1. \A u \in Thread : Woken(u)
    BY <1>2, <1>pc, NotifyOne, Zenon DEF NotifyAvailability, Woken
  <2> QED BY <1>2, <2>1, Zenon DEF NotifyAvailability, Woken, TypeOK, PInv, ElapsedIsJoinable, RunningIsExecuting, OffWhenShutDown, Registered, queue, pools, stopping, inputs
<1>3. ASSUME NEW t \in Thread, SpuriousWakeup(t) PROVE PInv'
  BY <1>3, <1>pc, Zenon DEF TypeOK, SpuriousWakeup, PInv, ElapsedIsJoinable, RunningIsExecuting, OffWhenShutDown, Registered, queue, pools, stopping, inputs
<1>4. CASE main_dispatch
  <2>1. /\ \A u \in Thread : u # Main => Woken(u)
        /\ pc'[Main] \in {"ended", "wait", "pop"}
    BY <1>4, <1>pc, <1>p, NotifyAll DEF main_dispatch, Woken
  <2> QED BY <1>4, <1>pc, <2>1, Zenon DEF main_dispatch, Woken, TypeOK, PInv, ElapsedIsJoinable, RunningIsExecuting, OffWhenShutDown, Registered, queue, pools, stopping, inputs
<1>5. CASE main_woken
  BY <1>5, <1>pc, Zenon DEF TypeOK, main_woken, PInv, ElapsedIsJoinable, RunningIsExecuting, OffWhenShutDown, Registered, queue, pools, stopping, inputs
<1>6. ASSUME NEW t \in Thread, dispatch_check(t) PROVE PInv'
  BY <1>6, <1>pc, Zenon DEF TypeOK, dispatch_check, PInv, ElapsedIsJoinable, RunningIsExecuting, OffWhenShutDown, Registered, queue, pools, stopping, inputs
<1>7. ASSUME NEW t \in Thread, dispatch_lock(t) PROVE PInv'
  BY <1>7, <1>pc, Zenon DEF TypeOK, dispatch_lock, PInv, ElapsedIsJoinable, RunningIsExecuting, OffWhenShutDown, Registered, queue, pools, stopping, inputs
<1>8. ASSUME NEW t \in Thread, dispatch_enter(t) PROVE PInv'
  BY <1>8, <1>pc, Zenon DEF TypeOK, dispatch_enter, PInv, ElapsedIsJoinable, RunningIsExecuting, OffWhenShutDown, Registered, queue, pools, stopping, inputs
<1>9. ASSUME NEW t \in Thread, dispatch_woken(t) PROVE PInv'
  BY <1>9, <1>pc, Zenon DEF TypeOK, dispatch_woken, PInv, ElapsedIsJoinable, RunningIsExecuting, OffWhenShutDown, Registered, queue, pools, stopping, inputs
<1>10. ASSUME NEW t \in Thread, dispatch_leave(t) PROVE PInv'
  <2>1. \A u \in Thread : IF u = t THEN pc'[u] = "ended" ELSE Woken(u)
    BY <1>10, <1>pc, <1>p, NotifyAll, Zenon DEF dispatch_leave
  <2> QED BY <1>10, <2>1, Zenon DEF dispatch_leave, Woken, TypeOK, PInv, ElapsedIsJoinable, RunningIsExecuting, OffWhenShutDown, Registered, queue, pools, stopping, inputs
<1>11. ASSUME NEW t \in Thread, get_next_handler(t) PROVE PInv'
  BY <1>11, <1>pc, Zenon DEF TypeOK, get_next_handler, Outer, PInv, ElapsedIsJoinable, RunningIsExecuting, OffWhenShutDown, Registered, queue, pools, stopping, inputs
<1>12. ASSUME NEW t \in Thread, invoke_handler(t) PROVE PInv'
  <2>1. CASE is_dispatching
    BY <1>12, <1>pc, <2>1 DEF TypeOK, invoke_handler, PInv, ElapsedIsJoinable, RunningIsExecuting, OffWhenShutDown, Registered, queue, pools, stopping, inputs
  <2>2. CASE ~is_dispatching
    BY <1>12, <1>pc, <2>2, Zenon DEF TypeOK, invoke_handler, PInv, ElapsedIsJoinable, RunningIsExecuting, OffWhenShutDown, Registered, queue, pools, stopping, inputs
  <2> QED BY <2>1, <2>2, Zenon
<1>13. ASSUME NEW t \in Thread, HandlerReturns(t) PROVE PInv'
  BY <1>13, <1>pc, Zenon DEF TypeOK, HandlerReturns, PInv, ElapsedIsJoinable, RunningIsExecuting, OffWhenShutDown, Registered, queue, pools, stopping, inputs
<1>14. ASSUME NEW t \in Thread, invoked(t) PROVE PInv'
  BY <1>14, <1>pc, Zenon DEF TypeOK, invoked, PInv, ElapsedIsJoinable, RunningIsExecuting, OffWhenShutDown, Registered, queue, pools, stopping, inputs
<1>15. ASSUME NEW t \in Thread, after_invocation(t) PROVE PInv'
  BY <1>15, <1>pc, Zenon DEF TypeOK, after_invocation, remove_elapsed_dispatchers, Outer, PInv, ElapsedIsJoinable, RunningIsExecuting, OffWhenShutDown, Registered, queue, pools, stopping, inputs
<1>16. ASSUME NEW t \in Thread, shut_down_meanwhile(t) PROVE PInv'
  BY <1>16, <1>pc, Zenon DEF TypeOK, shut_down_meanwhile, PInv, ElapsedIsJoinable, RunningIsExecuting, OffWhenShutDown, Registered, queue, pools, stopping, inputs
<1>17. ASSUME NEW t \in Thread, Expire(t) PROVE PInv'
  BY <1>17, <1>pc, Zenon DEF TypeOK, Expire, PInv, ElapsedIsJoinable, RunningIsExecuting, OffWhenShutDown, Registered, queue, pools, stopping, inputs
<1>18. CASE timer_decides
  BY <1>18, <1>pc, Zenon DEF TypeOK, timer_decides, PInv, ElapsedIsJoinable, RunningIsExecuting, OffWhenShutDown, Registered, queue, pools, stopping, inputs
<1>19. CASE timer_notifies
  <2>1. \A u \in Thread : Woken(u)
    BY <1>19, <1>pc, <1>p, NotifyAll DEF timer_notifies
  <2> QED BY <1>19, <2>1, Zenon DEF timer_notifies, Woken, TypeOK, PInv, ElapsedIsJoinable, RunningIsExecuting, OffWhenShutDown, Registered, queue, pools, stopping, inputs
<1>20. CASE timer_creates
  BY <1>20, <1>pc, Zenon DEF TypeOK, timer_creates, may_create, Thread, PInv, ElapsedIsJoinable, RunningIsExecuting, OffWhenShutDown, Registered, queue, pools, stopping, inputs
<1>21. ASSUME NEW t \in Thread \union {NoThread}, stop(t) PROVE PInv'
  BY <1>21, <1>pc, Zenon DEF TypeOK, stop, PInv, ElapsedIsJoinable, RunningIsExecuting, OffWhenShutDown, Registered, queue, pools, stopping, inputs
<1>22. CASE shutdown_switches_off
  <2>1. \A u \in Thread : Woken(u)
    BY <1>22, <1>pc, <1>p, NotifyAll DEF shutdown_switches_off
  <2> QED BY <1>22, <2>1, Zenon DEF shutdown_switches_off, Woken, TypeOK, PInv, ElapsedIsJoinable, RunningIsExecuting, OffWhenShutDown, Registered, queue, pools, stopping, inputs
<1>23. CASE shutdown_locks
  BY <1>23, <1>pc, Zenon DEF TypeOK, shutdown_locks, PInv, ElapsedIsJoinable, RunningIsExecuting, OffWhenShutDown, Registered, queue, pools, stopping, inputs
<1>24. CASE shutdown_joins
  BY <1>24, <1>pc, Zenon DEF TypeOK, shutdown_joins, PInv, ElapsedIsJoinable, RunningIsExecuting, OffWhenShutDown, Registered, queue, pools, stopping, inputs
<1>25. CASE UNCHANGED vars
  BY <1>25, Zenon DEF vars, PInv, ElapsedIsJoinable, RunningIsExecuting, OffWhenShutDown, Registered, queue, pools, stopping, inputs
<1> QED
  BY <1>1, <1>2, <1>3, <1>4, <1>5, <1>6, <1>7, <1>8, <1>9, <1>10, <1>11, <1>12, <1>13, <1>14, <1>15, <1>16, <1>17, <1>18, <1>19, <1>20, <1>21, <1>22, <1>23, <1>24, <1>25, Zenon
  DEF Next, MainDispatch, Dispatch, IoThread, Shutdown

-----------------------------------------------------------------------------
(* Availability callbacks.                                                 *)

\* A callback is taken: an availability callback only if none is executed for
\* its service, and after shutdown() by nobody but the caller of stop().
LEMMA TakeAvailability ==
    ASSUME TypeOK, PInv, AInv, NEW t \in Thread, get_next_handler(t)
    PROVE  AInv'
<1>1. CASE cur' = cur /\ availability_handlers' = availability_handlers /\ pc' = [pc EXCEPT ![t] = Outer(t)]
  BY <1>1 DEF get_next_handler, TypeOK, Outer, AInv, HoldsWhileExecuting, AvailabilityAnnounced, OneAvailabilityAtATime, Executing, stopping
<1>2. CASE handlers # <<>>
  <2> PICK h : h = Head(handlers)
    BY Zenon
  <2>1. h \in Handler /\ h.service \in Service
    <3>1. h \in Handler
      BY <1>2, HeadTailProperties, Zenon DEF TypeOK
    <3> QED BY <3>1, Zenon DEF Handler
  <2>2. \A s \in Service : availability_handlers[s] # <<>> => availability_handlers'[s] # <<>>
    <3>1. \/ availability_handlers' = availability_handlers
          \/ availability_handlers' = [availability_handlers EXCEPT ![h.service] = Append(@, h)]
      BY <1>2, Zenon DEF get_next_handler
    <3>2. availability_handlers \in [Service -> Seq(Handler)]
      BY Zenon DEF TypeOK
    <3>3. Append(availability_handlers[h.service], h) # <<>>
      BY <2>1, <3>2, AppendProperties
    <3> QED BY <2>1, <3>1, <3>2, <3>3, Zenon
  <2>3. CASE must_wait(h)
    <3>1. cur' = cur /\ pc' = pc /\ shutdown' = shutdown
      BY <1>2, <2>3, Zenon DEF get_next_handler, stopping
    <3>2. HoldsWhileExecuting' /\ OneAvailabilityAtATime'
      BY <3>1, Zenon DEF AInv, HoldsWhileExecuting, OneAvailabilityAtATime, Executing
    <3>3. AvailabilityAnnounced'
      BY <2>2, <3>1 DEF AInv, AvailabilityAnnounced, TypeOK, Handler
    <3> QED BY <3>2, <3>3, Zenon DEF AInv
  <2>4. CASE ~must_wait(h)
    <3>1. /\ cur' = [cur EXCEPT ![t] = {h}] /\ pc' = [pc EXCEPT ![t] = "begin"]
          /\ shutdown' = shutdown
      BY <1>2, <2>4, Zenon DEF get_next_handler, stopping
    <3>2. h.type = "AVAILABILITY" =>
             /\ availability_handlers[h.service] = <<>>
             /\ availability_handlers'[h.service] # <<>>
      <4> SUFFICES ASSUME h.type = "AVAILABILITY"
                   PROVE  /\ availability_handlers[h.service] = <<>>
                          /\ availability_handlers'[h.service] # <<>>
        BY Zenon
      <4>1. availability_handlers' = [availability_handlers EXCEPT ![h.service] = Append(@, h)]
        BY <1>2, Zenon DEF get_next_handler
      <4>2. availability_handlers \in [Service -> Seq(Handler)]
        BY Zenon DEF TypeOK
      <4>3. Append(availability_handlers[h.service], h) # <<>>
        BY <2>1, <4>2, AppendProperties
      <4>4. availability_handlers[h.service] = <<>>
        BY <2>4, Zenon DEF must_wait
      <4> QED BY <2>1, <4>1, <4>2, <4>3, <4>4, Zenon
    <3>3. cur \in [Thread -> SUBSET Handler] /\ pc \in [Thread -> Pc] /\ pc[t] = "pop"
      BY Zenon DEF TypeOK, get_next_handler
    <3>4. \A u \in Thread : cur'[u] = IF u = t THEN {h} ELSE cur[u]
      BY <3>1, <3>3, Zenon
    <3>5. \A u \in Thread : pc'[u] = IF u = t THEN "begin" ELSE pc[u]
      BY <3>1, <3>3, Zenon
    <3>6. HoldsWhileExecuting'
      BY <3>4, <3>5, Zenon DEF AInv, HoldsWhileExecuting, Executing
    <3>7. AvailabilityAnnounced'
      <4>1. ASSUME shutdown # "done", NEW u \in Thread, NEW g \in cur'[u], g.type = "AVAILABILITY"
            PROVE  availability_handlers'[g.service] # <<>>
        <5>1. CASE u = t
          BY <3>2, <3>4, <4>1, <5>1, Zenon
        <5>2. CASE u # t
          <6>1. g \in cur[u] /\ g.service \in Service
            BY <3>3, <3>4, <4>1, <5>2 DEF Handler
          <6> QED BY <2>2, <4>1, <6>1, Zenon DEF AInv, AvailabilityAnnounced
        <5> QED BY <5>1, <5>2, Zenon
      <4> QED BY <3>1, <4>1, Zenon DEF AvailabilityAnnounced
    <3>8. OneAvailabilityAtATime'
      <4>1. ASSUME NEW u \in Thread, NEW g \in cur[u], g.type = "AVAILABILITY",
                   h.type = "AVAILABILITY", g.service = h.service
            PROVE  u = t
        <5>1. CASE shutdown = "done"
          <6>1. pc[u] # "ended" /\ pc[t] # "ended"
            BY <3>3, <4>1, Zenon DEF AInv, HoldsWhileExecuting, Executing
          <6> QED BY <5>1, <6>1, Zenon DEF PInv, Registered
        <5>2. CASE shutdown # "done"
          BY <3>2, <4>1, <5>2, Zenon DEF AInv, AvailabilityAnnounced
        <5> QED BY <5>1, <5>2, Zenon
      <4>2. ASSUME NEW u \in Thread, NEW w \in Thread, NEW g \in cur'[u], NEW k \in cur'[w],
                   g.type = "AVAILABILITY", k.type = "AVAILABILITY", g.service = k.service
            PROVE  u = w
        <5>1. CASE u # t /\ w # t
          BY <3>4, <4>2, <5>1, Zenon DEF AInv, OneAvailabilityAtATime
        <5>2. CASE u = t /\ w # t
          BY <3>4, <4>1, <4>2, <5>2, Zenon
        <5>3. CASE u # t /\ w = t
          BY <3>4, <4>1, <4>2, <5>3, Zenon
        <5> QED BY <5>1, <5>2, <5>3, Zenon
      <4> QED BY <4>2, Zenon DEF OneAvailabilityAtATime
    <3> QED BY <3>6, <3>7, <3>8, Zenon DEF AInv
  <2> QED BY <2>3, <2>4, Zenon
<1> QED BY <1>1, <1>2, Zenon DEF get_next_handler, queue

\* A callback is over: the entry of its service is erased only by the thread
\* that executed an availability callback for it.
LEMMA BackAvailability ==
    ASSUME TypeOK, AInv, NEW t \in Thread, after_invocation(t)
    PROVE  AInv'
<1>1. PICK h \in cur[t] : reschedule_availability_handler(h)
  BY Zenon DEF after_invocation
<1>2. /\ cur \in [Thread -> SUBSET Handler] /\ pc \in [Thread -> Pc]
      /\ availability_handlers \in [Service -> Seq(Handler)]
      /\ h \in Handler /\ h.service \in Service
  <2>1. /\ cur \in [Thread -> SUBSET Handler] /\ pc \in [Thread -> Pc]
        /\ availability_handlers \in [Service -> Seq(Handler)]
    BY Zenon DEF TypeOK
  <2>2. h \in Handler
    BY <1>1, <2>1, Zenon
  <2>3. h.service \in Service
    BY <2>2, Zenon DEF Handler
  <2> QED BY <2>1, <2>2, <2>3, Zenon
<1>3. /\ \A u \in Thread : cur'[u] = IF u = t THEN {} ELSE cur[u]
      /\ \A u \in Thread : u # t => pc'[u] = pc[u]
      /\ shutdown' = shutdown
  BY <1>2, Zenon DEF after_invocation, stopping
<1>4. HoldsWhileExecuting'
  BY <1>3, Zenon DEF AInv, HoldsWhileExecuting, Executing
<1>5. OneAvailabilityAtATime'
  BY <1>3 DEF AInv, OneAvailabilityAtATime
<1>6. AvailabilityAnnounced'
  <2>1. ASSUME shutdown # "done", NEW u \in Thread, NEW g \in cur'[u], g.type = "AVAILABILITY"
        PROVE  availability_handlers'[g.service] # <<>>
    <3>1. u # t /\ g \in cur[u] /\ g.service \in Service
      BY <1>2, <1>3, <2>1 DEF Handler
    <3>2. availability_handlers[g.service] # <<>>
      BY <2>1, <3>1, Zenon DEF AInv, AvailabilityAnnounced
    <3>3. CASE UNCHANGED queue
      BY <3>2, <3>3, Zenon DEF queue
    <3>4. CASE h.type = "AVAILABILITY" /\ reschedule(h)
      <4>1. g.service # h.service
        BY <1>1, <2>1, <3>1, <3>4, Zenon DEF AInv, OneAvailabilityAtATime
      <4>2. availability_handlers' = [availability_handlers EXCEPT ![h.service] = <<>>]
        BY <3>4, Zenon DEF reschedule
      <4> QED BY <1>2, <3>1, <3>2, <4>1, <4>2, Zenon
    <3> QED BY <1>1, <3>3, <3>4, Zenon DEF reschedule_availability_handler
  <2> QED BY <1>3, <2>1, Zenon DEF AvailabilityAnnounced
<1> QED BY <1>4, <1>5, <1>6, Zenon DEF AInv

\* Every step keeps at most one availability callback per service in execution.
LEMMA StepAvailability == TypeOK /\ PInv /\ AInv /\ [Next]_vars => AInv'
<1> SUFFICES ASSUME TypeOK, PInv, AInv, [Next]_vars PROVE AInv'
  BY Zenon
<1>pc. pc \in [Thread -> Pc] /\ cur \in [Thread -> SUBSET Handler] /\ Main \in Thread
  BY Zenon DEF TypeOK, Thread
<1>p. "wait" \in Pc /\ "ended" \in Pc /\ "woken" \in Pc /\ "pop" \in Pc
  BY Zenon DEF Pc
<1>1. ASSUME NEW ty, NEW s, NEW n, NEW b, Enqueue(ty, s, n, b) PROVE AInv'
  <2>1. \A u \in Thread : Woken(u)
    BY <1>1, <1>pc, NotifyOne, Zenon DEF Enqueue, Woken
  <2> QED BY <1>1, <1>pc, <2>1 DEF Enqueue, Woken, AInv, HoldsWhileExecuting, AvailabilityAnnounced, OneAvailabilityAtATime, Executing, queue, pools, stopping, inputs
<1>2. CASE NotifyAvailability
  <2>1. \A u \in Thread : Woken(u)
    BY <1>2, <1>pc, NotifyOne, Zenon DEF NotifyAvailability, Woken
  <2> QED BY <1>2, <1>pc, <2>1, Zenon DEF NotifyAvailability, Woken, AInv, HoldsWhileExecuting, AvailabilityAnnounced, OneAvailabilityAtATime, Executing, queue, pools, stopping, inputs
<1>3. ASSUME NEW t \in Thread, SpuriousWakeup(t) PROVE AInv'
  BY <1>3, <1>pc, Zenon DEF SpuriousWakeup, AInv, HoldsWhileExecuting, AvailabilityAnnounced, OneAvailabilityAtATime, Executing, queue, pools, stopping, inputs
<1>4. CASE main_dispatch
  <2>1. \A u \in Thread : u # Main => Woken(u)
    BY <1>4, <1>pc, <1>p, NotifyAll DEF main_dispatch, Woken
  <2> QED BY <1>4, <1>pc, <2>1, Zenon DEF main_dispatch, Woken, AInv, HoldsWhileExecuting, AvailabilityAnnounced, OneAvailabilityAtATime, Executing, queue, pools, stopping, inputs
<1>5. CASE main_woken
  BY <1>5, <1>pc, Zenon DEF main_woken, AInv, HoldsWhileExecuting, AvailabilityAnnounced, OneAvailabilityAtATime, Executing, queue, pools, stopping, inputs
<1>6. ASSUME NEW t \in Thread, dispatch_check(t) PROVE AInv'
  BY <1>6, <1>pc, Zenon DEF dispatch_check, AInv, HoldsWhileExecuting, AvailabilityAnnounced, OneAvailabilityAtATime, Executing, queue, pools, stopping, inputs
<1>7. ASSUME NEW t \in Thread, dispatch_lock(t) PROVE AInv'
  BY <1>7, <1>pc, Zenon DEF dispatch_lock, AInv, HoldsWhileExecuting, AvailabilityAnnounced, OneAvailabilityAtATime, Executing, queue, pools, stopping, inputs
<1>8. ASSUME NEW t \in Thread, dispatch_enter(t) PROVE AInv'
  BY <1>8, <1>pc, Zenon DEF dispatch_enter, AInv, HoldsWhileExecuting, AvailabilityAnnounced, OneAvailabilityAtATime, Executing, queue, pools, stopping, inputs
<1>9. ASSUME NEW t \in Thread, dispatch_woken(t) PROVE AInv'
  BY <1>9, <1>pc, Zenon DEF dispatch_woken, AInv, HoldsWhileExecuting, AvailabilityAnnounced, OneAvailabilityAtATime, Executing, queue, pools, stopping, inputs
<1>10. ASSUME NEW t \in Thread, dispatch_leave(t) PROVE AInv'
  <2>1. \A u \in Thread : IF u = t THEN pc'[u] = "ended" ELSE Woken(u)
    BY <1>10, <1>pc, <1>p, NotifyAll DEF dispatch_leave, Woken
  <2> QED BY <1>10, <1>pc, <2>1 DEF dispatch_leave, Woken, AInv, HoldsWhileExecuting, AvailabilityAnnounced, OneAvailabilityAtATime, Executing, queue, pools, stopping, inputs
<1>11. ASSUME NEW t \in Thread, invoke_handler(t) PROVE AInv'
  BY <1>11, <1>pc DEF invoke_handler, AInv, HoldsWhileExecuting, AvailabilityAnnounced, OneAvailabilityAtATime, Executing, queue, pools, stopping, inputs
<1>12. ASSUME NEW t \in Thread, HandlerReturns(t) PROVE AInv'
  BY <1>12, <1>pc, Zenon DEF HandlerReturns, AInv, HoldsWhileExecuting, AvailabilityAnnounced, OneAvailabilityAtATime, Executing, queue, pools, stopping, inputs
<1>13. ASSUME NEW t \in Thread, invoked(t) PROVE AInv'
  BY <1>13, <1>pc DEF invoked, AInv, HoldsWhileExecuting, AvailabilityAnnounced, OneAvailabilityAtATime, Executing, queue, pools, stopping, inputs
<1>14. ASSUME NEW t \in Thread, shut_down_meanwhile(t) PROVE AInv'
  BY <1>14, <1>pc DEF shut_down_meanwhile, AInv, HoldsWhileExecuting, AvailabilityAnnounced, OneAvailabilityAtATime, Executing, queue, pools, stopping, inputs
<1>15. ASSUME NEW t \in Thread, Expire(t) PROVE AInv'
  BY <1>15, <1>pc DEF Expire, AInv, HoldsWhileExecuting, AvailabilityAnnounced, OneAvailabilityAtATime, Executing, queue, pools, stopping, inputs
<1>16. CASE timer_decides
  BY <1>16, <1>pc, Zenon DEF timer_decides, AInv, HoldsWhileExecuting, AvailabilityAnnounced, OneAvailabilityAtATime, Executing, queue, pools, stopping, inputs
<1>17. CASE timer_notifies
  <2>1. \A u \in Thread : Woken(u)
    BY <1>17, <1>pc, <1>p, NotifyAll, Zenon DEF timer_notifies, Woken
  <2> QED BY <1>17, <1>pc, <2>1 DEF timer_notifies, Woken, AInv, HoldsWhileExecuting, AvailabilityAnnounced, OneAvailabilityAtATime, Executing, queue, pools, stopping, inputs
<1>18. CASE timer_creates
  <2>1. availability_handlers' = availability_handlers /\ cur' = cur /\ shutdown' = shutdown
    BY <1>18, Zenon DEF timer_creates, queue, stopping
  <2>2. AvailabilityAnnounced' /\ OneAvailabilityAtATime'
    BY <2>1, Zenon DEF AInv, AvailabilityAnnounced, OneAvailabilityAtATime
  <2>3. \A t \in Thread : pc'[t] = pc[t] \/ pc[t] = "ended"
    BY <1>18, <1>pc, Zenon DEF timer_creates, may_create, Thread, PInv, OffWhenShutDown, Registered
  <2>4. HoldsWhileExecuting'
    BY <2>1, <2>3, Zenon DEF AInv, HoldsWhileExecuting, Executing
  <2> QED BY <2>2, <2>4, Zenon DEF AInv
<1>19. ASSUME NEW t \in Thread \union {NoThread}, stop(t) PROVE AInv'
  BY <1>19, <1>pc, Zenon DEF stop, AInv, HoldsWhileExecuting, AvailabilityAnnounced, OneAvailabilityAtATime, Executing, queue, pools, stopping, inputs
<1>20. CASE shutdown_switches_off
  <2>1. \A u \in Thread : Woken(u)
    BY <1>20, <1>pc, <1>p, NotifyAll, Zenon DEF shutdown_switches_off, Woken
  <2> QED BY <1>20, <1>pc, <2>1, Zenon DEF shutdown_switches_off, Woken, AInv, HoldsWhileExecuting, AvailabilityAnnounced, OneAvailabilityAtATime, Executing, queue, pools, stopping, inputs
<1>21. CASE shutdown_locks
  BY <1>21, <1>pc, Zenon DEF shutdown_locks, AInv, HoldsWhileExecuting, AvailabilityAnnounced, OneAvailabilityAtATime, Executing, queue, pools, stopping, inputs
<1>22. CASE shutdown_joins
  BY <1>22, <1>pc DEF shutdown_joins, AInv, HoldsWhileExecuting, AvailabilityAnnounced, OneAvailabilityAtATime, Executing, queue, pools, stopping, inputs
<1>23. CASE UNCHANGED vars
  BY <1>23, Zenon DEF vars, AInv, HoldsWhileExecuting, AvailabilityAnnounced, OneAvailabilityAtATime, Executing, queue, pools, stopping, inputs
<1> QED
  BY <1>1, <1>2, <1>3, <1>4, <1>5, <1>6, <1>7, <1>8, <1>9, <1>10, <1>11, <1>12, <1>13, <1>14, <1>15, <1>16, <1>17, <1>18, <1>19, <1>20, <1>21, <1>22, <1>23, TakeAvailability, BackAvailability
  DEF Next, MainDispatch, Dispatch, IoThread, Shutdown

-----------------------------------------------------------------------------
(* The order of callbacks.                                                 *)

\* The callbacks of a service come in the order in which they were queued: those
\* that wait for an availability callback (all but the first of w[s]), then those
\* in hs; n were queued so far.
InQueueOrder(hs, w, n) ==
    /\ \A i, j \in DOMAIN hs : i < j /\ hs[i].service = hs[j].service => hs[i].id < hs[j].id
    /\ \A i \in DOMAIN hs : hs[i].id <= n
    /\ \A s \in Service :
          /\ \A i \in DOMAIN w[s] : w[s][i].service = s /\ w[s][i].id <= n
          /\ \A i, j \in 2 .. Len(w[s]) : i < j => w[s][i].id < w[s][j].id
          /\ \A i \in 2 .. Len(w[s]), j \in DOMAIN hs : hs[j].service = s => w[s][i].id < hs[j].id

\* No availability callback that is still to be taken was queued before g.
NoneBefore(g, hs, w) ==
    g.type \in {"AVAILABILITY", "MESSAGE"} =>
        /\ \A i \in DOMAIN hs :
              hs[i].service = g.service /\ hs[i].type = "AVAILABILITY" => hs[i].id > g.id
        /\ \A i \in 2 .. Len(w[g.service]) :
              w[g.service][i].type = "AVAILABILITY" => w[g.service][i].id > g.id

\* What is taken was queued, and nothing it had to wait for is left.
TakenInOrder ==
    \A t \in Thread : \A g \in cur[t] :
        g.id <= queued /\ NoneBefore(g, handlers, availability_handlers)
OInv == InQueueOrder(handlers, availability_handlers, queued) /\ TakenInOrder

\* The first callback is taken from the queue; it may go to those that wait.
LEMMA OrderTaken ==
    ASSUME NEW hs \in Seq(Handler), hs # <<>>, NEW w \in [Service -> Seq(Handler)], NEW n,
           InQueueOrder(hs, w, n)
    PROVE  LET h == Head(hs)
               v == [w EXCEPT ![h.service] = Append(@, h)]
           IN  /\ InQueueOrder(Tail(hs), w, n) /\ InQueueOrder(Tail(hs), v, n)
               /\ h.id <= n
               /\ Len(w[h.service]) <= 1 => NoneBefore(h, Tail(hs), w)
               /\ Len(w[h.service]) = 0 => NoneBefore(h, Tail(hs), v)
               /\ \A g \in Handler :
                     NoneBefore(g, hs, w) => NoneBefore(g, Tail(hs), w) /\ NoneBefore(g, Tail(hs), v)
<1> DEFINE h == Head(hs)
           s == h.service
           ts == Tail(hs)
           v == [w EXCEPT ![s] = Append(@, h)]
<1>1. /\ h \in Handler /\ h = hs[1] /\ 1 \in DOMAIN hs /\ s \in Service /\ Len(hs) \in Nat
      /\ DOMAIN hs = 1 .. Len(hs)
  <2>1. h \in Handler /\ h = hs[1] /\ 1 \in DOMAIN hs
    OBVIOUS
  <2> QED BY <2>1 DEF Handler
<1>2. /\ DOMAIN ts = 1 .. Len(hs) - 1
      /\ \A i \in DOMAIN ts : /\ ts[i] = hs[i + 1] /\ i + 1 \in DOMAIN hs
                              /\ i \in Nat /\ 1 < i + 1
  OBVIOUS
<1>3. /\ \A u \in Service : v[u] = IF u = s THEN Append(w[s], h) ELSE w[u]
      /\ w[s] \in Seq(Handler) /\ Len(w[s]) \in Nat /\ DOMAIN w[s] = 1 .. Len(w[s])
  BY <1>1
<1> HIDE DEF ts, v
<1>4. /\ v[s] = Append(w[s], h) /\ DOMAIN v[s] = 1 .. Len(w[s]) + 1 /\ Len(v[s]) = Len(w[s]) + 1
      /\ v[s][Len(w[s]) + 1] = h /\ \A i \in 1 .. Len(w[s]) : v[s][i] = w[s][i]
  <2>1. v[s] = Append(w[s], h)
    BY <1>1, <1>3, Zenon
  <2> HIDE DEF h, s
  <2> QED BY <1>1, <1>3, <2>1
<1>5. /\ \A i, j \in DOMAIN hs : i < j /\ hs[i].service = hs[j].service => hs[i].id < hs[j].id
      /\ \A i \in DOMAIN hs : hs[i].id <= n
  BY Zenon DEF InQueueOrder
<1>6. ASSUME NEW u \in Service
      PROVE  /\ \A i \in DOMAIN w[u] : w[u][i].service = u /\ w[u][i].id <= n
             /\ \A i, j \in 2 .. Len(w[u]) : i < j => w[u][i].id < w[u][j].id
             /\ \A i \in 2 .. Len(w[u]), j \in DOMAIN hs :
                   hs[j].service = u => w[u][i].id < hs[j].id
  BY Zenon DEF InQueueOrder
<1> HIDE DEF h, s
<1>7. /\ \A i, j \in DOMAIN ts : i < j /\ ts[i].service = ts[j].service => ts[i].id < ts[j].id
      /\ \A i \in DOMAIN ts : ts[i].id <= n
  <2>1. ASSUME NEW i \in DOMAIN ts, NEW j \in DOMAIN ts, i < j PROVE i + 1 < j + 1
    BY <1>2, <2>1
  <2> QED BY <1>2, <1>5, <2>1, Zenon
<1>8. \A i \in DOMAIN ts : ts[i].service = s => h.id < ts[i].id
  BY <1>1, <1>2, <1>5, Zenon DEF s
<1>9. ASSUME NEW u \in Service
      PROVE  \A i \in 2 .. Len(w[u]), j \in DOMAIN ts : ts[j].service = u => w[u][i].id < ts[j].id
  BY <1>2, <1>6
<1>10. InQueueOrder(ts, w, n)
  BY <1>6, <1>7, <1>9, Zenon DEF InQueueOrder
<1>11. ASSUME NEW u \in Service
       PROVE  /\ \A i \in DOMAIN v[u] : v[u][i].service = u /\ v[u][i].id <= n
              /\ \A i, j \in 2 .. Len(v[u]) : i < j => v[u][i].id < v[u][j].id
              /\ \A i \in 2 .. Len(v[u]), j \in DOMAIN ts :
                    ts[j].service = u => v[u][i].id < ts[j].id
  <2>1. CASE u # s
    BY <1>3, <1>6, <1>9, <2>1
  <2>2. CASE u = s
    <3>1. \A i \in DOMAIN v[s] : v[s][i].service = s /\ v[s][i].id <= n
      <4> TAKE i \in DOMAIN v[s]
      <4>1. CASE i = Len(w[s]) + 1
        BY <1>1, <1>4, <1>5, <4>1, Zenon DEF s
      <4>2. CASE i \in 1 .. Len(w[s])
        BY <1>1, <1>3, <1>4, <1>6, <4>2
      <4> QED BY <1>3, <1>4, <4>1, <4>2
    <3>2. ASSUME NEW i \in 2 .. Len(v[s]), NEW j \in 2 .. Len(v[s]), i < j
          PROVE  v[s][i].id < v[s][j].id
      <4>0. i \in 1 .. Len(w[s]) /\ i \in 2 .. Len(w[s]) /\ v[s][i] = w[s][i]
        BY <1>3, <1>4, <3>2
      <4>1. CASE j = Len(w[s]) + 1
        <5>1. w[s][i].id < hs[1].id
          BY <1>1, <1>6, <4>0, Zenon DEF s
        <5> QED BY <1>1, <1>4, <4>0, <4>1, <5>1, Zenon
      <4>2. CASE j \in 2 .. Len(w[s])
        <5>1. v[s][j] = w[s][j]
          BY <1>4, <4>2
        <5> QED BY <1>1, <1>6, <3>2, <4>0, <4>2, <5>1
      <4> QED BY <1>3, <1>4, <4>1, <4>2
    <3>3. ASSUME NEW i \in 2 .. Len(v[s]), NEW j \in DOMAIN ts, ts[j].service = s
          PROVE  v[s][i].id < ts[j].id
      <4>1. CASE i = Len(w[s]) + 1
        BY <1>4, <1>8, <3>3, <4>1
      <4>2. CASE i \in 2 .. Len(w[s])
        <5>1. v[s][i] = w[s][i]
          BY <1>4, <4>2
        <5> QED BY <1>1, <1>9, <3>3, <4>2, <5>1
      <4> QED BY <1>3, <1>4, <4>1, <4>2
    <3> QED BY <2>2, <3>1, <3>2, <3>3, Zenon
  <2> QED BY <2>1, <2>2, Zenon
<1>12. InQueueOrder(ts, v, n)
  BY <1>7, <1>11, Zenon DEF InQueueOrder
<1>13. h.id \in Nat /\ \A i \in DOMAIN ts : ts[i].id \in Nat
  <2>1. \A i \in DOMAIN hs : hs[i] \in Handler
    OBVIOUS
  <2> QED BY <1>1, <1>2, <2>1, Zenon DEF Handler
<1>14. Len(w[s]) <= 1 => NoneBefore(h, ts, w)
  BY <1>3, <1>8, <1>13 DEF NoneBefore, s
<1>15. Len(w[s]) = 0 => NoneBefore(h, ts, v)
  BY <1>3, <1>4, <1>8, <1>13 DEF NoneBefore, s
<1>16. ASSUME NEW g \in Handler, NoneBefore(g, hs, w)
       PROVE  NoneBefore(g, ts, w) /\ NoneBefore(g, ts, v)
  <2> SUFFICES ASSUME g.type \in {"AVAILABILITY", "MESSAGE"}
               PROVE  NoneBefore(g, ts, w) /\ NoneBefore(g, ts, v)
    BY Zenon DEF NoneBefore
  <2>1. /\ \A i \in DOMAIN hs :
              hs[i].service = g.service /\ hs[i].type = "AVAILABILITY" => hs[i].id > g.id
        /\ \A i \in 2 .. Len(w[g.service]) :
              w[g.service][i].type = "AVAILABILITY" => w[g.service][i].id > g.id
    BY <1>16, Zenon DEF NoneBefore
  <2>2. \A i \in DOMAIN ts :
           ts[i].service = g.service /\ ts[i].type = "AVAILABILITY" => ts[i].id > g.id
    BY <1>2, <2>1
  <2>3. g.service \in Service
    BY Zenon DEF Handler
  <2>4. \A i \in 2 .. Len(v[g.service]) :
           v[g.service][i].type = "AVAILABILITY" => v[g.service][i].id > g.id
    <3>1. CASE g.service # s
      BY <1>3, <2>1, <2>3, <3>1, Zenon
    <3>2. CASE g.service = s
      <4> SUFFICES ASSUME NEW i \in 2 .. Len(v[s]), v[s][i].type = "AVAILABILITY"
                   PROVE  v[s][i].id > g.id
        BY <3>2, Zenon
      <4>1. CASE i = Len(w[s]) + 1
        BY <1>1, <1>4, <2>1, <3>2, <4>1 DEF s
      <4>2. CASE i \in 2 .. Len(w[s])
        <5>1. v[s][i] = w[s][i]
          BY <1>4, <4>2
        <5> QED BY <2>1, <3>2, <4>2, <5>1, Zenon
      <4> QED BY <1>3, <1>4, <4>1, <4>2
    <3> QED BY <3>1, <3>2, Zenon
  <2> QED BY <2>1, <2>2, <2>4, Zenon DEF NoneBefore
<1> QED BY <1>1, <1>5, <1>10, <1>12, <1>14, <1>15, <1>16, Zenon DEF h, s, ts, v

\* Two sequences of callbacks, one behind the other.
LEMMA Joined ==
    ASSUME NEW a \in Seq(Handler), NEW b \in Seq(Handler)
    PROVE  /\ DOMAIN (a \o b) = 1 .. Len(a) + Len(b)
           /\ \A i \in 1 .. Len(a) : (a \o b)[i] = a[i]
           /\ \A i \in Len(a) + 1 .. Len(a) + Len(b) :
                 (a \o b)[i] = b[i - Len(a)] /\ i - Len(a) \in 1 .. Len(b)
<1>1. /\ a \o b \in Seq(Handler) /\ Len(a \o b) = Len(a) + Len(b)
      /\ \A i \in 1 .. Len(a) + Len(b) :
            (a \o b)[i] = IF i <= Len(a) THEN a[i] ELSE b[i - Len(a)]
  BY ConcatProperties, Zenon
<1>2. Len(a) \in Nat /\ Len(b) \in Nat
  OBVIOUS
<1>3. DOMAIN (a \o b) = 1 .. Len(a) + Len(b)
  BY <1>1
<1> QED BY <1>1, <1>2, <1>3

\* What waited for an availability callback is put back in front of the queue.
LEMMA OrderPutBack ==
    ASSUME NEW hs \in Seq(Handler), NEW w \in [Service -> Seq(Handler)], NEW n,
           NEW s \in Service, w[s] # <<>>, InQueueOrder(hs, w, n)
    PROVE  LET r == Tail(w[s]) \o hs
               v == [w EXCEPT ![s] = <<>>]
           IN  /\ InQueueOrder(r, v, n)
               /\ \A g \in Handler : NoneBefore(g, hs, w) => NoneBefore(g, r, v)
<1> DEFINE ws == w[s]
           k == Len(ws) - 1
           r == Tail(ws) \o hs
           v == [w EXCEPT ![s] = <<>>]
<1>1. /\ ws \in Seq(Handler) /\ ws # <<>> /\ Len(ws) \in Nat /\ k \in Nat /\ DOMAIN ws = 1 .. Len(ws)
      /\ Len(hs) \in Nat /\ DOMAIN hs = 1 .. Len(hs)
  OBVIOUS
<1>2. Tail(ws) \in Seq(Handler) /\ Len(Tail(ws)) = k /\ \A i \in 1 .. k : Tail(ws)[i] = ws[i + 1]
  <2> HIDE DEF ws
  <2> QED BY <1>1
<1>3. /\ DOMAIN r = 1 .. k + Len(hs)
      /\ \A i \in 1 .. k : r[i] = ws[i + 1] /\ i + 1 \in 2 .. Len(ws) /\ i + 1 \in DOMAIN ws
      /\ \A i \in k + 1 .. k + Len(hs) : r[i] = hs[i - k] /\ i - k \in DOMAIN hs
  <2> DEFINE tl == Tail(ws)
  <2>1. tl \in Seq(Handler) /\ Len(tl) = k /\ r = tl \o hs
    BY <1>2, Zenon
  <2> HIDE DEF tl, r
  <2>2. /\ DOMAIN r = 1 .. k + Len(hs)
        /\ \A i \in 1 .. k : r[i] = tl[i]
        /\ \A i \in k + 1 .. k + Len(hs) : r[i] = hs[i - k] /\ i - k \in DOMAIN hs
    <3> HIDE DEF k
    <3>1. /\ DOMAIN (tl \o hs) = 1 .. Len(tl) + Len(hs)
          /\ \A i \in 1 .. Len(tl) : (tl \o hs)[i] = tl[i]
          /\ \A i \in Len(tl) + 1 .. Len(tl) + Len(hs) :
                (tl \o hs)[i] = hs[i - Len(tl)] /\ i - Len(tl) \in 1 .. Len(hs)
      BY <2>1, Joined, Zenon
    <3> QED BY <1>1, <2>1, <3>1, Zenon
  <2>3. \A i \in 1 .. k : i + 1 \in 2 .. Len(ws) /\ i + 1 \in DOMAIN ws
    BY <1>1
  <2> QED BY <1>2, <2>2, <2>3, Zenon DEF tl
<1>4. v[s] = <<>> /\ \A u \in Service : u # s => v[u] = w[u]
  BY Zenon
<1>5. /\ \A i, j \in DOMAIN hs : i < j /\ hs[i].service = hs[j].service => hs[i].id < hs[j].id
      /\ \A i \in DOMAIN hs : hs[i].id <= n
  BY Zenon DEF InQueueOrder
<1>6. ASSUME NEW u \in Service
      PROVE  /\ \A i \in DOMAIN w[u] : w[u][i].service = u /\ w[u][i].id <= n
             /\ \A i, j \in 2 .. Len(w[u]) : i < j => w[u][i].id < w[u][j].id
             /\ \A i \in 2 .. Len(w[u]), j \in DOMAIN hs :
                   hs[j].service = u => w[u][i].id < hs[j].id
  BY Zenon DEF InQueueOrder
<1>7. /\ \A i \in DOMAIN ws : ws[i].service = s /\ ws[i].id <= n
      /\ \A i, j \in 2 .. Len(ws) : i < j => ws[i].id < ws[j].id
      /\ \A i \in 2 .. Len(ws), j \in DOMAIN hs : hs[j].service = s => ws[i].id < hs[j].id
  BY <1>6, Zenon
<1> HIDE DEF ws, k, r, v
<1>8. \A i \in DOMAIN r : i \in 1 .. k \/ i \in k + 1 .. k + Len(hs)
  BY <1>1, <1>3
<1>9. ASSUME NEW i \in DOMAIN r, NEW j \in DOMAIN r, i < j, r[i].service = r[j].service
      PROVE  r[i].id < r[j].id
  <2>1. CASE i \in 1 .. k /\ j \in 1 .. k
    <3>1. i + 1 < j + 1
      BY <1>1, <1>9, <2>1
    <3> QED BY <1>3, <1>7, <2>1, <3>1, Zenon
  <2>2. CASE i \in 1 .. k /\ j \in k + 1 .. k + Len(hs)
    BY <1>3, <1>7, <1>9, <2>2
  <2>3. CASE i \in k + 1 .. k + Len(hs) /\ j \in k + 1 .. k + Len(hs)
    <3>1. i - k < j - k
      BY <1>1, <1>9, <2>3
    <3> QED BY <1>3, <1>5, <1>9, <2>3, <3>1, Zenon
  <2>4. ~(i \in k + 1 .. k + Len(hs) /\ j \in 1 .. k)
    BY <1>1, <1>9
  <2> QED BY <1>8, <2>1, <2>2, <2>3, <2>4, Zenon
<1>10. \A i \in DOMAIN r : r[i].id <= n
  BY <1>3, <1>5, <1>7, <1>8, Zenon
<1>11. ASSUME NEW u \in Service
       PROVE  /\ \A i \in DOMAIN v[u] : v[u][i].service = u /\ v[u][i].id <= n
              /\ \A i, j \in 2 .. Len(v[u]) : i < j => v[u][i].id < v[u][j].id
              /\ \A i \in 2 .. Len(v[u]), j \in DOMAIN r :
                    r[j].service = u => v[u][i].id < r[j].id
  <2>1. CASE u = s
    <3>1. DOMAIN <<>> = {} /\ 2 .. Len(<<>>) = {}
      OBVIOUS
    <3> QED BY <1>4, <2>1, <3>1, Zenon
  <2>2. CASE u # s
    <3>1. ASSUME NEW j \in DOMAIN r, r[j].service = u PROVE j \in k + 1 .. k + Len(hs)
      BY <1>3, <1>7, <1>8, <2>2, <3>1, Zenon
    <3> QED BY <1>3, <1>4, <1>6, <2>2, <3>1
  <2> QED BY <2>1, <2>2, Zenon
<1>12. InQueueOrder(r, v, n)
  BY <1>9, <1>10, <1>11, Zenon DEF InQueueOrder
<1>13. ASSUME NEW g \in Handler, NoneBefore(g, hs, w) PROVE NoneBefore(g, r, v)
  <2> SUFFICES ASSUME g.type \in {"AVAILABILITY", "MESSAGE"} PROVE NoneBefore(g, r, v)
    BY Zenon DEF NoneBefore
  <2>1. /\ \A i \in DOMAIN hs :
              hs[i].service = g.service /\ hs[i].type = "AVAILABILITY" => hs[i].id > g.id
        /\ \A i \in 2 .. Len(w[g.service]) :
              w[g.service][i].type = "AVAILABILITY" => w[g.service][i].id > g.id
    BY <1>13, Zenon DEF NoneBefore
  <2>2. g.service \in Service
    BY Zenon DEF Handler
  <2>3. ASSUME NEW i \in DOMAIN r, r[i].service = g.service, r[i].type = "AVAILABILITY"
        PROVE  r[i].id > g.id
    <3>1. CASE i \in 1 .. k
      <4>1. r[i] = ws[i + 1] /\ i + 1 \in 2 .. Len(ws) /\ g.service = s
        BY <1>3, <1>7, <2>3, <3>1, Zenon
      <4> QED BY <2>1, <2>3, <4>1, Zenon DEF ws
    <3>2. CASE i \in k + 1 .. k + Len(hs)
      BY <1>3, <2>1, <2>3, <3>2, Zenon
    <3> QED BY <1>8, <3>1, <3>2, Zenon
  <2>4. ASSUME NEW i \in 2 .. Len(v[g.service]), v[g.service][i].type = "AVAILABILITY"
        PROVE  v[g.service][i].id > g.id
    <3>1. g.service # s
      <4>1. 2 .. Len(<<>>) = {}
        OBVIOUS
      <4> QED BY <1>4, <4>1, Zenon
    <3> QED BY <1>4, <2>1, <2>2, <2>4, <3>1, Zenon
  <2> QED BY <2>3, <2>4, Zenon DEF NoneBefore
<1> QED BY <1>12, <1>13, Zenon DEF r, v, ws

\* on_message and on_availability queue callbacks behind the others.
LEMMA OrderQueued ==
    ASSUME NEW hs \in Seq(Handler), NEW w \in [Service -> Seq(Handler)], NEW n \in Nat,
           NEW m \in Nat, NEW new \in Seq(Handler), Len(new) = m,
           \A i \in 1 .. m : new[i].id = n + i, InQueueOrder(hs, w, n)
    PROVE  /\ InQueueOrder(hs \o new, w, n + m)
           /\ \A g \in Handler : g.id <= n /\ NoneBefore(g, hs, w) => NoneBefore(g, hs \o new, w)
<1> DEFINE r == hs \o new
           k == Len(hs)
<1>1. /\ k \in Nat /\ DOMAIN hs = 1 .. k /\ DOMAIN new = 1 .. m
      /\ \A i \in 1 .. k : hs[i] \in Handler
  OBVIOUS
<1>2. /\ DOMAIN r = 1 .. k + m
      /\ \A i \in 1 .. k : r[i] = hs[i]
      /\ \A i \in k + 1 .. k + m : r[i] = new[i - k] /\ i - k \in 1 .. m
  BY Joined, Zenon
<1>3. /\ \A i, j \in DOMAIN hs : i < j /\ hs[i].service = hs[j].service => hs[i].id < hs[j].id
      /\ \A i \in DOMAIN hs : hs[i].id <= n
  BY Zenon DEF InQueueOrder
<1>4. ASSUME NEW u \in Service
      PROVE  /\ \A i \in DOMAIN w[u] : w[u][i].service = u /\ w[u][i].id <= n
             /\ \A i, j \in 2 .. Len(w[u]) : i < j => w[u][i].id < w[u][j].id
             /\ \A i \in 2 .. Len(w[u]), j \in DOMAIN hs :
                   hs[j].service = u => w[u][i].id < hs[j].id
  BY Zenon DEF InQueueOrder
<1>5. \A i \in 1 .. k : hs[i].id \in Nat
  BY <1>1, Zenon DEF Handler
<1> HIDE DEF r, k
<1>6. ASSUME NEW i \in DOMAIN r
      PROVE  \/ i \in 1 .. k /\ r[i] = hs[i]
             \/ i \in k + 1 .. k + m /\ r[i].id = n + (i - k)
  <2>1. i \in 1 .. k \/ i \in k + 1 .. k + m
    BY <1>1, <1>2
  <2>2. CASE i \in 1 .. k
    BY <1>2, <2>2, Zenon
  <2>3. CASE i \in k + 1 .. k + m
    BY <1>2, <2>3, Zenon
  <2> QED BY <2>1, <2>2, <2>3, Zenon
<1>7. ASSUME NEW i \in DOMAIN r, NEW j \in DOMAIN r, i < j, r[i].service = r[j].service
      PROVE  r[i].id < r[j].id
  <2>1. CASE i \in 1 .. k /\ j \in 1 .. k
    BY <1>1, <1>2, <1>3, <1>7, <2>1, Zenon
  <2>2. CASE j \in k + 1 .. k + m
    <3>1. CASE i \in 1 .. k
      <4>1. r[i].id \in Nat /\ r[i].id <= n
        BY <1>1, <1>2, <1>3, <1>5, <3>1
      <4>2. r[j].id = n + (j - k) /\ j - k > 0 /\ j - k \in Nat
        BY <1>1, <1>2, <2>2
      <4> QED BY <4>1, <4>2
    <3>2. CASE i \in k + 1 .. k + m
      BY <1>1, <1>2, <1>7, <2>2, <3>2
    <3> QED BY <1>6, <3>1, <3>2, Zenon
  <2>3. ~(i \in k + 1 .. k + m /\ j \in 1 .. k)
    BY <1>1, <1>7
  <2> QED BY <1>6, <2>1, <2>2, <2>3, Zenon
<1>8. ASSUME NEW i \in DOMAIN r PROVE r[i].id <= n + m
  <2>1. CASE i \in 1 .. k
    BY <1>1, <1>2, <1>3, <1>5, <2>1
  <2>2. CASE i \in k + 1 .. k + m
    BY <1>1, <1>2, <2>2
  <2> QED BY <1>6, <2>1, <2>2, Zenon
<1>9. ASSUME NEW u \in Service
      PROVE  /\ \A i \in DOMAIN w[u] : w[u][i].service = u /\ w[u][i].id <= n + m
             /\ \A i \in 2 .. Len(w[u]), j \in DOMAIN r :
                   r[j].service = u => w[u][i].id < r[j].id
  <2>1. ASSUME NEW i \in DOMAIN w[u] PROVE w[u][i].id \in Nat
    <3>1. w[u] \in Seq(Handler)
      BY Zenon
    <3>2. w[u][i] \in Handler
      BY <3>1
    <3> QED BY <3>2, Zenon DEF Handler
  <2>2. \A i \in 2 .. Len(w[u]) : i \in DOMAIN w[u]
    <3>1. w[u] \in Seq(Handler)
      BY Zenon
    <3> QED BY <3>1
  <2>3. ASSUME NEW i \in 2 .. Len(w[u]), NEW j \in DOMAIN r, r[j].service = u
        PROVE  w[u][i].id < r[j].id
    <3>1. CASE j \in 1 .. k
      BY <1>1, <1>2, <1>4, <2>3, <3>1
    <3>2. CASE j \in k + 1 .. k + m
      <4>1. r[j].id = n + (j - k) /\ j - k > 0 /\ j - k \in Nat
        BY <1>1, <1>2, <3>2
      <4>2. w[u][i].id \in Nat /\ w[u][i].id <= n
        BY <1>4, <2>1, <2>2, Zenon
      <4> QED BY <4>1, <4>2
    <3> QED BY <1>6, <3>1, <3>2
  <2>4. \A i \in DOMAIN w[u] : w[u][i].id <= n + m
    BY <1>4, <2>1
  <2> QED BY <1>4, <2>3, <2>4, Zenon
<1>10. InQueueOrder(r, w, n + m)
  BY <1>4, <1>7, <1>8, <1>9, Zenon DEF InQueueOrder
<1>11. ASSUME NEW g \in Handler, g.id <= n, NoneBefore(g, hs, w) PROVE NoneBefore(g, r, w)
  <2>1. g.id \in Nat
    BY Zenon DEF Handler
  <2>2. ASSUME g.type \in {"AVAILABILITY", "MESSAGE"}, NEW i \in DOMAIN r,
               r[i].service = g.service, r[i].type = "AVAILABILITY"
        PROVE  r[i].id > g.id
    <3>1. CASE i \in 1 .. k
      BY <1>1, <1>2, <1>11, <2>2, <3>1, Zenon DEF NoneBefore
    <3>2. CASE i \in k + 1 .. k + m
      <4>1. r[i].id = n + (i - k) /\ i - k > 0 /\ i - k \in Nat
        BY <1>1, <1>2, <3>2
      <4> QED BY <1>11, <2>1, <4>1
    <3> QED BY <1>6, <3>1, <3>2, Zenon
  <2> QED BY <1>11, <2>2, Zenon DEF NoneBefore
<1> QED BY <1>10, <1>11, Zenon DEF r

\* A step that leaves the queues alone, and takes nothing, keeps the order.
Quiet ==
    /\ UNCHANGED <<handlers, availability_handlers, queued>>
    /\ \A t \in Thread : cur'[t] \subseteq cur[t]

\* Steps of the threads and of shutdown() that touch no queue keep the order.
LEMMA OrderQuiet == OInv /\ Quiet => OInv'
BY Zenon DEF OInv, Quiet, TakenInOrder

\* get_next_handler takes callbacks in order.
LEMMA TakeOrder ==
    ASSUME TypeOK, OInv, NEW t \in Thread, get_next_handler(t)
    PROVE  OInv'
<1> DEFINE w == availability_handlers
           h == Head(handlers)
           v == [w EXCEPT ![h.service] = Append(@, h)]
<1>0. handlers \in Seq(Handler) /\ w \in [Service -> Seq(Handler)] /\ cur \in [Thread -> SUBSET Handler]
  BY Zenon DEF TypeOK
<1>1. CASE UNCHANGED <<queue, cur, timer>>
  <2>1. Quiet
    BY <1>1, Zenon DEF Quiet, queue, get_next_handler, inputs
  <2> QED BY <2>1, OrderQuiet, Zenon
<1>2. CASE handlers # <<>>
  <2>1. h \in Handler /\ h.service \in Service
    <3>1. h \in Handler
      BY <1>0, <1>2, HeadTailProperties, Zenon
    <3> QED BY <3>1, Zenon DEF Handler
  <2>2. w[h.service] \in Seq(Handler) /\ Len(w[h.service]) \in Nat
    <3>1. w[h.service] \in Seq(Handler)
      BY <1>0, <2>1, Zenon
    <3> QED BY <3>1
  <2>3. /\ InQueueOrder(Tail(handlers), w, queued) /\ InQueueOrder(Tail(handlers), v, queued)
        /\ h.id <= queued
        /\ Len(w[h.service]) <= 1 => NoneBefore(h, Tail(handlers), w)
        /\ Len(w[h.service]) = 0 => NoneBefore(h, Tail(handlers), v)
        /\ \A g \in Handler : NoneBefore(g, handlers, w) =>
              NoneBefore(g, Tail(handlers), w) /\ NoneBefore(g, Tail(handlers), v)
    BY <1>0, <1>2, OrderTaken, Zenon DEF OInv
  <2>4. /\ handlers' = Tail(handlers) /\ queued' = queued
        /\ availability_handlers' = IF must_wait(h) \/ h.type = "AVAILABILITY" THEN v ELSE w
    BY <1>2, Zenon DEF get_next_handler, inputs
  <2>5. InQueueOrder(handlers', availability_handlers', queued')
    BY <2>3, <2>4, Zenon DEF OInv
  <2>6. ASSUME NEW u \in Thread, NEW g \in cur[u]
        PROVE  g.id <= queued' /\ NoneBefore(g, handlers', availability_handlers')
    <3>1. g \in Handler
      BY <1>0, Zenon
    <3>2. g.id <= queued /\ NoneBefore(g, handlers, w)
      BY Zenon DEF OInv, TakenInOrder
    <3> QED BY <2>3, <2>4, <3>1, <3>2, Zenon
  <2>7. CASE must_wait(h)
    <3>1. cur' = cur
      BY <1>2, <2>7, Zenon DEF get_next_handler
    <3> QED BY <2>5, <2>6, <3>1, Zenon DEF OInv, TakenInOrder
  <2>8. CASE ~must_wait(h)
    <3>1. \A u \in Thread : cur'[u] = IF u = t THEN {h} ELSE cur[u]
      BY <1>0, <1>2, <2>8, Zenon DEF get_next_handler
    <3>2. NoneBefore(h, handlers', availability_handlers')
      <4>1. CASE h.type = "AVAILABILITY"
        <5>1. w[h.service] = <<>> /\ Len(<<>>) = 0
          BY <2>8, <4>1, Zenon DEF must_wait
        <5> QED BY <2>3, <2>4, <4>1, <5>1, Zenon
      <4>2. CASE h.type = "MESSAGE"
        <5>1. Len(w[h.service]) <= 1
          BY <2>2, <2>8, <4>2 DEF must_wait
        <5> QED BY <2>3, <2>4, <2>8, <4>2, <5>1, Zenon
      <4>3. CASE h.type \notin {"AVAILABILITY", "MESSAGE"}
        BY <4>3, Zenon DEF NoneBefore
      <4> QED BY <4>1, <4>2, <4>3, Zenon
    <3>3. ASSUME NEW u \in Thread, NEW g \in cur'[u]
          PROVE  g.id <= queued' /\ NoneBefore(g, handlers', availability_handlers')
      <4>1. CASE u = t
        BY <2>3, <2>4, <3>1, <3>2, <4>1, Zenon
      <4>2. CASE u # t
        BY <2>6, <3>1, <4>2, Zenon
      <4> QED BY <4>1, <4>2, Zenon
    <3> QED BY <2>5, <3>3, Zenon DEF OInv, TakenInOrder
  <2> QED BY <2>7, <2>8, Zenon
<1> QED BY <1>1, <1>2, Zenon DEF get_next_handler

\* What is put back after an availability callback keeps its place.
LEMMA BackOrder ==
    ASSUME TypeOK, OInv, NEW t \in Thread, after_invocation(t)
    PROVE  OInv'
<1> DEFINE w == availability_handlers
<1>0. handlers \in Seq(Handler) /\ w \in [Service -> Seq(Handler)] /\ cur \in [Thread -> SUBSET Handler]
  BY DEF TypeOK
<1>1. queued' = queued /\ \A u \in Thread : cur'[u] \subseteq cur[u]
  BY <1>0, Zenon DEF after_invocation, inputs
<1>2. PICK h \in cur[t] : reschedule_availability_handler(h)
  BY DEF after_invocation
<1>3. CASE UNCHANGED queue
  <2>1. Quiet
    BY <1>1, <1>3, Zenon DEF Quiet, queue
  <2> QED BY <2>1, OrderQuiet, Zenon
<1>4. CASE reschedule(h) /\ w[h.service] # <<>>
  <2>1. h.service \in Service
    BY <1>0 DEF Handler
  <2>2. /\ handlers' = Tail(w[h.service]) \o handlers
        /\ availability_handlers' = [w EXCEPT ![h.service] = <<>>]
    BY <1>4, Zenon DEF reschedule
  <2>3. /\ InQueueOrder(handlers', availability_handlers', queued)
        /\ \A g \in Handler :
              NoneBefore(g, handlers, w) => NoneBefore(g, handlers', availability_handlers')
    <3> HIDE DEF w
    <3>1. InQueueOrder(handlers, w, queued)
      BY Zenon DEF OInv, w
    <3> QED BY <1>0, <1>4, <2>1, <2>2, <3>1, OrderPutBack, Zenon
  <2>4. ASSUME NEW u \in Thread, NEW g \in cur'[u]
        PROVE  g.id <= queued' /\ NoneBefore(g, handlers', availability_handlers')
    <3>1. g \in cur[u] /\ g \in Handler
      BY <1>0, <1>1, Zenon
    <3> QED BY <1>1, <2>3, <3>1, Zenon DEF OInv, TakenInOrder
  <2> QED BY <1>1, <2>3, <2>4, Zenon DEF OInv, TakenInOrder
<1> QED BY <1>2, <1>3, <1>4, Zenon DEF reschedule_availability_handler

\* New callbacks come last.
LEMMA EnqueueOrder ==
    ASSUME TypeOK, OInv, NEW ty \in Type, NEW s \in Service, NEW n \in 1 .. 2, NEW b \in BOOLEAN,
           Enqueue(ty, s, n, b)
    PROVE  OInv'
<1> DEFINE new == [i \in 1 .. n |-> [type |-> ty, service |-> s, id |-> queued + i, blocks |-> b]]
<1>0. /\ handlers \in Seq(Handler) /\ availability_handlers \in [Service -> Seq(Handler)]
      /\ cur \in [Thread -> SUBSET Handler] /\ queued \in Nat /\ n \in Nat
  BY DEF TypeOK
<1>1. /\ handlers' = handlers \o new /\ queued' = queued + n
      /\ availability_handlers' = availability_handlers /\ cur' = cur
  BY Zenon DEF Enqueue
<1>2. \A i \in 1 .. n : new[i] \in Handler /\ new[i].id = queued + i
  BY <1>0 DEF Handler
<1>3. new \in Seq(Handler) /\ Len(new) = n
  <2>1. new \in [1 .. n -> Handler]
    BY <1>2, Zenon
  <2> HIDE DEF new
  <2> QED BY <1>0, <2>1
<1> HIDE DEF new
<1>4. InQueueOrder(handlers, availability_handlers, queued)
  BY Zenon DEF OInv
<1>5. /\ InQueueOrder(handlers', availability_handlers', queued')
      /\ \A g \in Handler : g.id <= queued /\ NoneBefore(g, handlers, availability_handlers)
            => NoneBefore(g, handlers', availability_handlers')
  BY <1>0, <1>1, <1>2, <1>3, <1>4, OrderQueued, Zenon
<1>6. ASSUME NEW u \in Thread, NEW g \in cur'[u]
      PROVE  g.id <= queued' /\ NoneBefore(g, handlers', availability_handlers')
  <2>1. g \in Handler /\ g.id <= queued /\ NoneBefore(g, handlers, availability_handlers)
    BY <1>0, <1>1, Zenon DEF OInv, TakenInOrder
  <2>2. g.id \in Nat
    BY <2>1, Zenon DEF Handler
  <2> QED BY <1>0, <1>1, <1>5, <2>1, <2>2
<1> QED BY <1>5, <1>6, Zenon DEF OInv, TakenInOrder

\* Every step keeps the order of the callbacks of a service.
LEMMA StepOrder == TypeOK /\ OInv /\ [Next]_vars => OInv'
<1> SUFFICES ASSUME TypeOK, OInv, [Next]_vars PROVE OInv'
  OBVIOUS
<1>0. cur \in [Thread -> SUBSET Handler]
  BY Zenon DEF TypeOK
<1>1. CASE UNCHANGED vars
  <2>1. Quiet
    BY <1>1, Zenon DEF Quiet, vars, queue, inputs
  <2> QED BY <2>1, OrderQuiet, Zenon
<1>2. CASE \E t \in Thread : \/ SpuriousWakeup(t) \/ Expire(t)
  <2>1. Quiet
    BY <1>2, Zenon DEF Quiet, queue, inputs, SpuriousWakeup, Expire
  <2> QED BY <2>1, OrderQuiet
<1>3. CASE MainDispatch \/ IoThread
  <2>1. Quiet
    BY <1>3, Zenon DEF Quiet, queue, inputs, MainDispatch, main_dispatch, main_woken, IoThread,
       NotifyAvailability, timer_decides, timer_notifies, timer_creates
  <2> QED BY <2>1, OrderQuiet
<1>4. ASSUME NEW t \in Thread, Dispatch(t) PROVE OInv'
  <2>1. CASE \/ dispatch_check(t) \/ dispatch_lock(t) \/ dispatch_enter(t) \/ dispatch_woken(t)
             \/ dispatch_leave(t)
    <3>1. Quiet
      BY <2>1, Zenon DEF Quiet, queue, inputs, dispatch_check, dispatch_lock, dispatch_enter,
         dispatch_woken, dispatch_leave
    <3> QED BY <3>1, OrderQuiet, Zenon
  <2>2. CASE invoke_handler(t) \/ HandlerReturns(t) \/ invoked(t) \/ shut_down_meanwhile(t)
    <3>1. UNCHANGED <<handlers, availability_handlers, queued>>
      BY <2>2, Zenon DEF queue, inputs, invoke_handler, HandlerReturns, invoked, shut_down_meanwhile
    <3>2. cur' = cur \/ cur' = [cur EXCEPT ![t] = {}]
      BY <2>2, Zenon DEF invoke_handler, HandlerReturns, invoked, shut_down_meanwhile
    <3>3. Quiet
      BY <1>0, <3>1, <3>2, Zenon DEF Quiet
    <3> QED BY <3>3, OrderQuiet
  <2> QED BY <1>4, <2>1, <2>2, TakeOrder, BackOrder, Zenon DEF Dispatch
<1>5. ASSUME NEW t, stop(t) PROVE OInv'
  <2>1. Quiet
    BY <1>5, Zenon DEF Quiet, queue, inputs, stop
  <2> QED BY <2>1, OrderQuiet
<1>6. CASE shutdown_switches_off \/ shutdown_locks
  <2>1. Quiet
    BY <1>6, Zenon DEF Quiet, queue, inputs, shutdown_switches_off, shutdown_locks
  <2> QED BY <2>1, OrderQuiet
<1>7. CASE shutdown_joins
  <2>1. /\ handlers' = handlers /\ cur' = cur /\ queued' = queued
        /\ \A s \in Service : availability_handlers'[s] = <<>>
    BY <1>7, Zenon DEF shutdown_joins, inputs
  <2>2. DOMAIN <<>> = {} /\ 2 .. Len(<<>>) = {}
    OBVIOUS
  <2>3. InQueueOrder(handlers', availability_handlers', queued')
    BY <2>1, <2>2, Zenon DEF OInv, InQueueOrder
  <2>4. ASSUME NEW t \in Thread, NEW g \in cur[t]
        PROVE  g.id <= queued /\ NoneBefore(g, handlers, availability_handlers')
    <3>1. g.service \in Service
      BY <1>0 DEF Handler
    <3>2. g.id <= queued /\ NoneBefore(g, handlers, availability_handlers)
      BY Zenon DEF OInv, TakenInOrder
    <3> QED BY <2>1, <2>2, <3>1, <3>2, Zenon DEF NoneBefore
  <2> QED BY <2>1, <2>3, <2>4, Zenon DEF OInv, TakenInOrder
<1> QED BY <1>1, <1>2, <1>3, <1>4, <1>5, <1>6, <1>7, EnqueueOrder, Zenon DEF Next, Shutdown

\* After start() nothing is queued.
LEMMA InitOrder == Init => OInv
<1> SUFFICES ASSUME Init PROVE OInv
  OBVIOUS
<1>1. /\ handlers = <<>> /\ \A s \in Service : availability_handlers[s] = <<>>
      /\ \A t \in Thread : cur[t] = {}
  BY Zenon DEF Init
<1>2. DOMAIN <<>> = {} /\ 2 .. Len(<<>>) = {}
  OBVIOUS
<1> QED BY <1>1, <1>2, Zenon DEF OInv, InQueueOrder, TakenInOrder

-----------------------------------------------------------------------------
(* Theorems.                                                               *)

\* After start() only the main dispatcher is registered, and nothing is executed.
LEMMA InitInv == Init => PInv /\ AInv
BY ConstantsAssumption, Zenon DEF Init, PInv, ElapsedIsJoinable, RunningIsExecuting, OffWhenShutDown, Registered,
       AInv, HoldsWhileExecuting, AvailabilityAnnounced, OneAvailabilityAtATime, Thread

\* remove_elapsed_dispatchers finds every dispatcher it looks up, and joins only
\* threads that have ended, although it holds both mutexes.
THEOREM JoinNeverBlocks == Spec => []ElapsedIsJoinable
<1>1. TypeOK /\ PInv /\ [Next]_vars => (TypeOK /\ PInv)'
  BY StepType, StepPools, Zenon
<1>2. TypeOK /\ PInv => ElapsedIsJoinable
  BY DEF PInv
<1> QED BY InitType, InitInv, <1>1, <1>2, PTL DEF Spec

\* running_dispatchers_ is exact while the application dispatches.
THEOREM RunningExact == Spec => []RunningIsExecuting
<1>1. TypeOK /\ PInv /\ [Next]_vars => (TypeOK /\ PInv)'
  BY StepType, StepPools
<1>2. TypeOK /\ PInv => RunningIsExecuting
  BY DEF PInv
<1> QED BY InitType, InitInv, <1>1, <1>2, PTL DEF Spec

\* shutdown() leaves no dispatcher behind but the detached caller of stop(),
\* however its steps and those of late timer callbacks interleave.
THEOREM ShutdownComplete == Spec => []NoDispatcherAfterShutdown
<1>1. TypeOK /\ PInv /\ [Next]_vars => (TypeOK /\ PInv)'
  BY StepType, StepPools
<1>2. TypeOK /\ PInv => NoDispatcherAfterShutdown
  BY Zenon DEF PInv, Registered, NoDispatcherAfterShutdown
<1> QED BY InitType, InitInv, <1>1, <1>2, PTL DEF Spec

\* Availability callbacks of one service instance never overlap.
THEOREM AvailabilityExclusive == Spec => []OneAvailabilityAtATime
<1>1. TypeOK /\ PInv /\ AInv /\ [Next]_vars => (TypeOK /\ PInv /\ AInv)'
  BY StepType, StepPools, StepAvailability, Zenon
<1>2. TypeOK /\ PInv /\ AInv => OneAvailabilityAtATime
  BY Zenon DEF AInv
<1> QED BY InitType, InitInv, <1>1, <1>2, PTL DEF Spec

\* No callback is taken before an availability callback of its service that was
\* queued earlier, and availability callbacks of a service do not overlap, however
\* many dispatchers take callbacks, leave them waiting and put them back
\* (get_next_handler, reschedule_availability_handler).
THEOREM AvailabilityRespectedAlways == Spec => []AvailabilityRespected
<1>1. TypeOK /\ OInv /\ [Next]_vars => (TypeOK /\ OInv)'
  BY StepType, StepOrder, Zenon
<1>2. TypeOK /\ OInv /\ OneAvailabilityAtATime => AvailabilityRespected
  <2> SUFFICES ASSUME TypeOK, OInv, NEW t \in Thread, NEW g \in cur[t],
                      g.type \in {"AVAILABILITY", "MESSAGE"}, NEW h \in Pending(g.service),
                      h.type = "AVAILABILITY"
               PROVE  h.id > g.id
    BY Zenon DEF AvailabilityRespected, AvailabilityInOrder
  <2>1. NoneBefore(g, handlers, availability_handlers)
    BY Zenon DEF OInv, TakenInOrder
  <2>2. 1 .. Len(handlers) = DOMAIN handlers
    BY DEF TypeOK
  <2>3. CASE \E i \in DOMAIN handlers : handlers[i].service = g.service /\ h = handlers[i]
    BY <2>1, <2>3, Zenon DEF NoneBefore
  <2>4. CASE \E i \in 2 .. Len(availability_handlers[g.service]) :
                h = availability_handlers[g.service][i]
    BY <2>1, <2>4, Zenon DEF NoneBefore
  <2> QED BY <2>2, <2>3, <2>4, Zenon DEF Pending
<1> QED BY InitType, InitOrder, AvailabilityExclusive, <1>1, <1>2, PTL DEF Spec

\* The bookkeeping of the dispatcher threads, taken together: create_dispatcher,
\* dispatch(), remove_elapsed_dispatchers and shutdown() keep it consistent.
THEOREM DispatchersConsistent == Spec => []DispatchersAgree
<1>1. TypeOK /\ ElapsedIsJoinable /\ RunningIsExecuting /\ NoDispatcherAfterShutdown
        => DispatchersAgree
  BY Zenon DEF DispatchersAgree
<1> QED
  BY TypeCorrect, JoinNeverBlocks, RunningExact, ShutdownComplete, <1>1, PTL
=============================================================================
