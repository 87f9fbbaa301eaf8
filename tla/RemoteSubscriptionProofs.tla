---------------------- MODULE RemoteSubscriptionProofs ----------------------
(***************************************************************************)
(* Proofs about remote subscriptions, for every number of endpoints,       *)
(* remotes, ids and commands under way.                                    *)
(*                                                                         *)
(* The first part proves the inductive invariant Inv: the type invariant,  *)
(* QueuesMatchPending and OutstandingIsFront.  The second part proves, on  *)
(* top of it, the three conjuncts of SubscriptionsAgree, each with the     *)
(* strengthening it needs (AckInv, FrontInv, WaitsInv) and with exactly    *)
(* the assumption it needs.                                                *)
(***************************************************************************)
EXTENDS RemoteSubscription, TLAPS

EventgroupTypeOK ==
    /\ subscription_id \in 0 .. MaxId
    /\ DOMAIN pending_subscriptions \subseteq Id
    /\ pending_subscriptions \in
         [DOMAIN pending_subscriptions -> PendingSubscription]
    /\ pending_subscriptions_by_remote \in [Remote -> Seq(Id)]

-----------------------------------------------------------------------------
(* eventgroupinfo *)

\* subscription_id_ stays within 16 bits and never becomes DEFAULT_SUBSCRIPTION.
LEMMA NextIdType ==
    ASSUME NEW n \in 0 .. MaxId
    PROVE  next_id(n) \in Id /\ next_id(n) # n
  <1>1. MaxId \in Nat /\ MaxId > 1
    BY ConstantsAssumption
  <1>2. CASE n = MaxId
    <2>1. n % MaxId = 0
      BY <1>1, <1>2
    <2> QED BY <1>1, <1>2, <2>1 DEF next_id, Id
  <1>3. CASE n < MaxId
    <2>1. n % MaxId = n
      BY <1>1, <1>3
    <2> QED BY <1>1, <1>3, <2>1 DEF next_id, Id
  <1> QED BY <1>1, <1>2, <1>3

\* An id that is handed out is not in use, by the assumption on the environment.
LEMMA NextIdFree ==
    ASSUME EventgroupTypeOK, NEW e, NEW ttl, NEW c, add_pending_subscription(e, ttl, c),
           IdsOutlast
    PROVE  /\ next_id(subscription_id) \in Id /\ IdIsFree(next_id(subscription_id))
           /\ subscription_id' = next_id(subscription_id)
  <1>1. PICK new : new = next_id(subscription_id)
    BY Zenon
  <1>2. new \in Id /\ new # subscription_id
    BY <1>1, NextIdType, Zenon DEF EventgroupTypeOK
  <1>3. subscription_id' = new
    BY <1>1, Zenon DEF add_pending_subscription
  <1>4. PICK k : k = subscription_id' /\ IdIsFree(k)
    BY <1>2, <1>3, Zenon DEF IdsOutlast
  <1> QED BY <1>1, <1>2, <1>3, <1>4, Zenon

\* add_pending_subscription keeps the map and the queues consistent; what was
\* the front of its queue still is, and the new id is one if it is to be sent.
LEMMA AddPending ==
    ASSUME EventgroupTypeOK, QueuesMatchPending,
           NEW e \in Endpoint, NEW ttl \in {0, 1}, NEW c \in Client,
           add_pending_subscription(e, ttl, c), IdsOutlast
    PROVE  /\ EventgroupTypeOK'
           /\ QueuesMatchPending'
           /\ \E new \in Id :
                /\ subscription_id' = new
                /\ IdIsFree(new)
                /\ \/ id_to_send(e) = DEFAULT_SUBSCRIPTION
                   \/ id_to_send(e) = new /\ AtFront(new)'
                /\ \A id : id # new /\ AtFront(id) => AtFront(id)'
  <1> DEFINE r0 == remote_of[e]
             q == pending_subscriptions_by_remote
  <1>0. PICK new : new = next_id(subscription_id)
    BY Zenon
  <1>1. /\ new \in Id
        /\ IdIsFree(new)
        /\ new \notin DOMAIN pending_subscriptions
        /\ subscription_id' = new
    BY <1>0, NextIdFree, Zenon DEF IdIsFree
  <1>2. /\ r0 \in Remote /\ q[r0] \in Seq(Id)
    BY ConstantsAssumption, Zenon DEF EventgroupTypeOK
  <1>3. /\ pending_subscriptions' =
             [i \in DOMAIN pending_subscriptions \cup {new} |->
                IF i = new THEN [subscriber |-> e, ttl |-> ttl, client |-> c]
                           ELSE pending_subscriptions[i]]
        /\ q' = [q EXCEPT ![r0] = Append(@, new)]
    BY <1>0, Zenon DEF add_pending_subscription
  <1>4. EventgroupTypeOK'
    BY <1>1, <1>2, <1>3 DEF EventgroupTypeOK, PendingSubscription, Id
  <1>5. /\ q'[r0] = Append(q[r0], new)
        /\ \A r \in Remote \ {r0} : q'[r] = q[r]
    BY <1>2, <1>3, Zenon DEF EventgroupTypeOK
  <1>6. /\ remote_of_id(new)' = r0
        /\ \A id \in DOMAIN pending_subscriptions : remote_of_id(id)' = remote_of_id(id)
    BY <1>1, <1>3, Zenon DEF remote_of_id
  <1>7. /\ DOMAIN q[r0] = 1 .. Len(q[r0]) /\ Len(q[r0]) \in Nat
        /\ DOMAIN q'[r0] = 1 .. Len(q[r0]) + 1
        /\ \A i \in DOMAIN q[r0] : q'[r0][i] = q[r0][i]
        /\ q'[r0][Len(q[r0]) + 1] = new
    BY <1>1, <1>2, <1>5
  <1>8. QueuesMatchPending'
    <2>1. ASSUME NEW r \in Remote, NEW i \in DOMAIN q'[r]
          PROVE  /\ q'[r][i] \in DOMAIN pending_subscriptions'
                 /\ (remote_of_id(q[r][i]))' = r
                 /\ \A j \in DOMAIN q'[r] : q'[r][i] = q'[r][j] => i = j
      <3>1. CASE r # r0
        BY <2>1, <3>1, <1>1, <1>3, <1>5, <1>6 DEF QueuesMatchPending
      <3>2. CASE r = r0
        <4>1. \A j \in DOMAIN q[r0] : /\ q[r0][j] \in DOMAIN pending_subscriptions
                                      /\ remote_of_id(q[r0][j]) = r0
                                      /\ \A k \in DOMAIN q[r0] : q[r0][j] = q[r0][k] => j = k
          BY <1>2, Zenon DEF QueuesMatchPending
        <4>2. DOMAIN pending_subscriptions' = DOMAIN pending_subscriptions \cup {new}
          BY <1>3, Zenon
        <4>3. \A j \in DOMAIN q'[r0] : j \in DOMAIN q[r0] \/ j = Len(q[r0]) + 1
          BY <1>7
        <4>4. CASE i \in DOMAIN q[r0]
          BY <3>2, <4>1, <4>2, <4>3, <4>4, <1>1, <1>6, <1>7
        <4>5. CASE i = Len(q[r0]) + 1
          BY <3>2, <4>1, <4>2, <4>3, <4>5, <1>1, <1>6, <1>7, Zenon
        <4> QED BY <3>2, <4>3, <4>4, <4>5, Zenon
      <3> QED BY <3>1, <3>2, Zenon
    <2>2. ASSUME NEW id \in DOMAIN pending_subscriptions'
          PROVE  \E i \in DOMAIN queue_of(id)' : queue_of(id)'[i] = id
      <3>1. CASE id = new
        BY <3>1, <1>6, <1>7 DEF queue_of
      <3>2. CASE id # new
        <4>1. id \in DOMAIN pending_subscriptions
          BY <3>2, <1>3, Zenon
        <4>2. PICK i \in DOMAIN queue_of(id) : queue_of(id)[i] = id
          BY <4>1, Zenon DEF QueuesMatchPending
        <4>3. remote_of_id(id) \in Remote
          BY <4>1, ConstantsAssumption, Zenon DEF EventgroupTypeOK, remote_of_id, PendingSubscription
        <4>4. i \in DOMAIN queue_of(id)' /\ queue_of(id)'[i] = id
          BY <4>1, <4>2, <4>3, <1>5, <1>6, <1>7 DEF queue_of
        <4> QED BY <4>4, Zenon
      <3> QED BY <3>1, <3>2, Zenon
    <2> QED BY <2>1, <2>2, Zenon DEF QueuesMatchPending
  <1>9. \/ id_to_send(e) = DEFAULT_SUBSCRIPTION
        \/ id_to_send(e) = new /\ AtFront(new)'
    <2> SUFFICES ASSUME id_to_send(e) # DEFAULT_SUBSCRIPTION
                 PROVE  id_to_send(e) = new /\ AtFront(new)'
      BY Zenon
    <2>1. q[r0] = <<>> /\ id_to_send(e) = new
      BY <1>0, Zenon DEF id_to_send
    <2>2. q'[r0] = <<new>>
      BY <2>1, <1>5
    <2>3. queue_of(new)' = <<new>>
      BY <2>2, <1>6, Zenon DEF queue_of
    <2> QED BY <2>1, <2>3 DEF AtFront
  <1>10. ASSUME NEW id, id # new, AtFront(id) PROVE AtFront(id)'
    <2> SUFFICES ASSUME id \in DOMAIN pending_subscriptions'
                 PROVE  queue_of(id)' # <<>> /\ Head(queue_of(id)') = id
      BY Zenon DEF AtFront
    <2>1. id \in DOMAIN pending_subscriptions
      BY <1>1, <1>3, <1>10, Zenon
    <2>2. queue_of(id) # <<>> /\ Head(queue_of(id)) = id
      BY <2>1, <1>10, Zenon DEF AtFront
    <2>3. remote_of_id(id) \in Remote
      BY <2>1, ConstantsAssumption, Zenon DEF EventgroupTypeOK, remote_of_id, PendingSubscription
    <2>4. CASE remote_of_id(id) = r0
      BY <2>1, <2>2, <2>4, <1>1, <1>2, <1>5, <1>6 DEF queue_of
    <2>5. CASE remote_of_id(id) # r0
      BY <2>1, <2>2, <2>3, <2>5, <1>5, <1>6, Zenon DEF queue_of
    <2> QED BY <2>4, <2>5, Zenon
  <1> QED BY <1>1, <1>4, <1>8, <1>9, <1>10, Zenon

\* What is left of a sequence when its first n elements are erased.
LEMMA SuffixProperties ==
    ASSUME NEW S, NEW s \in Seq(S), NEW n \in 1 .. Len(s)
    PROVE  /\ SubSeq(s, n + 1, Len(s)) \in Seq(S)
           /\ Len(SubSeq(s, n + 1, Len(s))) = Len(s) - n
           /\ \A i \in 1 .. (Len(s) - n) : SubSeq(s, n + 1, Len(s))[i] = s[n + i]
  OBVIOUS

\* remove_pending_subscription keeps the map and the queues consistent; every
\* surviving front stays one, and so is the first entry that was not removed.
LEMMA RemovePending ==
    ASSUME EventgroupTypeOK, QueuesMatchPending, NEW id, is_front(id),
           NEW n \in DOMAIN queue_of(id), remove_pending_subscription(id, n),
           subscription_id' = subscription_id
    PROVE  /\ EventgroupTypeOK'
           /\ QueuesMatchPending'
           /\ \A j : AtFront(j) => AtFront(j)'
           /\ remaining_queue(id, n) # <<>> =>
                /\ Head(remaining_queue(id, n)) \in DOMAIN pending_subscriptions
                /\ \A j : j = Head(remaining_queue(id, n)) => AtFront(j)'
  <1> DEFINE q == pending_subscriptions_by_remote
             P == pending_subscriptions
  <1>1. PICK r0 \in Remote : r0 = remote_of_id(id)
    BY ConstantsAssumption, Zenon DEF is_front, EventgroupTypeOK, remote_of_id, PendingSubscription
  <1>2. PICK old : old = q[r0]
    BY Zenon
  <1>3. PICK rest : rest = remaining_queue(id, n)
    BY Zenon
  <1>4. /\ old \in Seq(Id) /\ old = queue_of(id) /\ n \in 1 .. Len(old)
        /\ old # <<>> /\ old[1] = id
        /\ Len(old) \in Nat /\ DOMAIN old = 1 .. Len(old)
    BY <1>1, <1>2 DEF EventgroupTypeOK, queue_of, is_front
  <1>5. /\ rest \in Seq(Id)
        /\ Len(rest) = Len(old) - n
        /\ DOMAIN rest = 1 .. (Len(old) - n)
        /\ \A i \in 1 .. (Len(old) - n) : rest[i] = old[n + i]
    <2>1. queue_of(id) = old
      BY <1>4, Zenon
    <2>2. rest = SubSeq(old, n + 1, Len(old))
      BY <1>3, <2>1, Zenon DEF remaining_queue
    <2>3. old \in Seq(Id) /\ n \in 1 .. Len(old)
      BY <1>4, Zenon
    <2>4. /\ rest \in Seq(Id)
          /\ Len(rest) = Len(old) - n
          /\ \A i \in 1 .. (Len(old) - n) : rest[i] = old[n + i]
      BY <2>2, <2>3, SuffixProperties, Zenon
    <2> QED BY <2>4
  <1>6. \A i \in 1 .. Len(old) :
          /\ old[i] \in DOMAIN P
          /\ remote_of_id(old[i]) = r0
          /\ \A j \in 1 .. Len(old) : old[i] = old[j] => i = j
    <2>1. \A i \in DOMAIN q[r0] :
            /\ q[r0][i] \in DOMAIN P
            /\ remote_of_id(q[r0][i]) = r0
            /\ \A j \in DOMAIN q[r0] : q[r0][i] = q[r0][j] => i = j
      BY <1>1, Zenon DEF QueuesMatchPending
    <2>2. DOMAIN old = 1 .. Len(old)
      BY <1>4, Zenon
    <2> QED BY <2>1, <2>2, <1>2, Zenon
  <1>7. /\ P' = [i \in DOMAIN P \ removed_ids(id, n) |-> P[i]]
        /\ q' = [q EXCEPT ![r0] = rest]
    BY <1>1, <1>3, Zenon DEF remove_pending_subscription
  <1>8. EventgroupTypeOK'
    BY <1>1, <1>5, <1>7, Zenon DEF EventgroupTypeOK
  <1>9. /\ q'[r0] = rest
        /\ \A r \in Remote \ {r0} : q'[r] = q[r]
        /\ DOMAIN P' = DOMAIN P \ removed_ids(id, n)
        /\ \A j \in DOMAIN P' : P'[j] = P[j]
    BY <1>1, <1>7, Zenon DEF EventgroupTypeOK
  <1>10. \A j : j \in removed_ids(id, n) <=> \E i \in 1 .. n : j = old[i]
    BY <1>4, Zenon DEF removed_ids
  <1>11. \A i \in DOMAIN rest : rest[i] \in DOMAIN P'
    <2> SUFFICES ASSUME NEW i \in DOMAIN rest PROVE rest[i] \in DOMAIN P'
      BY Zenon
    <2>1. n + i \in 1 .. Len(old) /\ rest[i] = old[n + i] /\ n + i > n
      BY <1>4, <1>5
    <2>2. \A k \in 1 .. n : k \in 1 .. Len(old) /\ k # n + i
      BY <1>4, <2>1
    <2> QED BY <2>1, <2>2, <1>6, <1>9, <1>10
  <1>12. \A j \in DOMAIN P' : remote_of_id(j)' = remote_of_id(j)
    BY <1>9, Zenon DEF remote_of_id
  <1>13. QueuesMatchPending'
    <2>1. ASSUME NEW r \in Remote, NEW i \in DOMAIN q'[r]
          PROVE  /\ q'[r][i] \in DOMAIN P'
                 /\ (remote_of_id(q[r][i]))' = r
                 /\ \A j \in DOMAIN q'[r] : q'[r][i] = q'[r][j] => i = j
      <3>1. CASE r = r0
        <4>1. /\ rest[i] \in DOMAIN P'
              /\ remote_of_id(rest[i]) = r0
              /\ \A j \in DOMAIN rest : rest[i] = rest[j] => i = j
          BY <2>1, <3>1, <1>4, <1>5, <1>6, <1>9, <1>11
        <4>2. remote_of_id(rest[i])' = r0
          BY <4>1, <1>12, Zenon
        <4> QED BY <4>1, <4>2, <3>1, <1>9, Zenon
      <3>2. CASE r # r0
        <4>1. /\ q[r][i] \in DOMAIN P
              /\ remote_of_id(q[r][i]) = r
              /\ \A j \in DOMAIN q[r] : q[r][i] = q[r][j] => i = j
              /\ q'[r] = q[r]
          BY <2>1, <3>2, <1>9, Zenon DEF QueuesMatchPending
        <4>2. q[r][i] \in DOMAIN P'
          BY <4>1, <3>2, <1>4, <1>6, <1>9, <1>10
        <4>3. PICK j : j = q[r][i]
          BY Zenon
        <4>4. remote_of_id(j)' = r
          BY <4>1, <4>2, <4>3, <1>12, Zenon
        <4> QED BY <4>1, <4>2, <4>3, <4>4, Zenon
      <3> QED BY <3>1, <3>2, Zenon
    <2>2. ASSUME NEW j \in DOMAIN P'
          PROVE  \E i \in DOMAIN queue_of(j)' : queue_of(j)'[i] = j
      <3>1. j \in DOMAIN P /\ j \notin removed_ids(id, n)
        BY <1>9, Zenon
      <3>2. PICK i \in DOMAIN queue_of(j) : queue_of(j)[i] = j
        BY <3>1, Zenon DEF QueuesMatchPending
      <3>3. remote_of_id(j) \in Remote
        BY <3>1, ConstantsAssumption, Zenon DEF EventgroupTypeOK, remote_of_id, PendingSubscription
      <3>4. CASE remote_of_id(j) = r0
        <4>1. i \in 1 .. Len(old) /\ old[i] = j
          BY <3>2, <3>4, <1>2, <1>4, Zenon DEF queue_of
        <4>2. i > n
          BY <4>1, <3>1, <1>4, <1>10
        <4>3. PICK k \in 1 .. (Len(old) - n) : n + k = i
          <5>1. Len(old) \in Nat /\ n \in Nat /\ i \in Nat
            BY <4>1, <1>4
          <5>2. i - n \in 1 .. (Len(old) - n) /\ n + (i - n) = i
            BY <4>1, <4>2, <5>1
          <5> QED BY <5>2, Zenon
        <4>4. k \in DOMAIN rest /\ rest[k] = j
          BY <4>1, <4>3, <1>5, Zenon
        <4>5. queue_of(j)' = rest
          BY <3>4, <1>9, <1>12, Zenon DEF queue_of
        <4> QED BY <4>4, <4>5, Zenon
      <3>5. CASE remote_of_id(j) # r0
        BY <3>2, <3>3, <3>5, <1>9, <1>12, Zenon DEF queue_of
      <3> QED BY <3>4, <3>5, Zenon
    <2> QED BY <2>1, <2>2, Zenon DEF QueuesMatchPending
  <1>14. ASSUME NEW j, AtFront(j) PROVE AtFront(j)'
    <2> SUFFICES ASSUME j \in DOMAIN P'
                 PROVE  queue_of(j)' # <<>> /\ Head(queue_of(j)') = j
      BY Zenon DEF AtFront
    <2>1. j \in DOMAIN P /\ j \notin removed_ids(id, n)
      BY <1>9, Zenon
    <2>2. queue_of(j) # <<>> /\ Head(queue_of(j)) = j
      BY <2>1, <1>14, Zenon DEF AtFront
    <2>3. remote_of_id(j) \in Remote
      BY <2>1, ConstantsAssumption, Zenon DEF EventgroupTypeOK, remote_of_id, PendingSubscription
    <2>4. remote_of_id(j) # r0
      <3> SUFFICES ASSUME remote_of_id(j) = r0 PROVE FALSE
        BY Zenon
      <3>1. queue_of(j) = old
        BY <1>2, Zenon DEF queue_of
      <3>2. j = old[1]
        BY <2>2, <3>1, <1>4
      <3> QED BY <3>2, <2>1, <1>4, <1>10
    <2> QED BY <2>2, <2>3, <2>4, <1>9, <1>12, Zenon DEF queue_of
  <1>15. ASSUME rest # <<>>
         PROVE  /\ Head(rest) \in DOMAIN P
                /\ \A j : j = Head(rest) => AtFront(j)'
    <2>1. 1 \in DOMAIN rest /\ Head(rest) = rest[1]
      BY <1>5, <1>15
    <2>2. rest[1] \in DOMAIN P' /\ rest[1] \in DOMAIN P
      BY <2>1, <1>9, <1>11, Zenon
    <2>3. remote_of_id(rest[1]) = r0
      BY <2>1, <1>4, <1>5, <1>6
    <2>4. \A j : j = rest[1] => remote_of_id(j)' = r0
      BY <2>2, <2>3, <1>12, Zenon
    <2>5. \A j : j = rest[1] => queue_of(j)' = rest
      BY <2>4, <1>9, Zenon DEF queue_of
    <2> QED BY <2>1, <2>2, <2>5, <1>15, Zenon DEF AtFront
  <1> QED BY <1>3, <1>8, <1>13, <1>14, <1>15, Zenon

-----------------------------------------------------------------------------
(* What is under way *)

\* A command is appended only if it is to be sent and can be.
LEMMA SendCommand ==
    ASSUME toClient \in Seq(ClientCommand), NEW id \in Id \cup {DEFAULT_SUBSCRIPTION},
           NEW ttl \in {0, 1}, NEW c \in Client, send_command(id, ttl, c)
    PROVE  /\ toClient' \in Seq(ClientCommand)
           /\ \A i \in DOMAIN toClient' :
                \/ \E k \in DOMAIN toClient : toClient'[i].id = toClient[k].id
                \/ id # DEFAULT_SUBSCRIPTION /\ toClient'[i].id = id
  <1> DEFINE m == [ttl |-> ttl, id |-> id, client |-> c]
  <1>1. CASE offered /\ alive /\ id # DEFAULT_SUBSCRIPTION
    <2>1. toClient' = Append(toClient, m) /\ m.id = id
      BY <1>1, Zenon DEF send_command
    <2>2. m \in ClientCommand
      BY <1>1, Zenon DEF ClientCommand, DEFAULT_SUBSCRIPTION
    <2>3. toClient' \in Seq(ClientCommand)
      BY <2>1, <2>2
    <2>4. ASSUME NEW i \in DOMAIN toClient'
          PROVE  (i \in DOMAIN toClient /\ toClient'[i] = toClient[i]) \/ toClient'[i] = m
      BY <2>1, <2>2
    <2> QED BY <1>1, <2>1, <2>3, <2>4, Zenon
  <1>2. CASE ~(offered /\ alive /\ id # DEFAULT_SUBSCRIPTION)
    BY <1>2, Zenon DEF send_command
  <1> QED BY <1>1, <1>2, Zenon

\* Whatever is outstanding after a step was so before, or is one of the ids N.
NoneButNew(N) ==
    /\ \A i \in DOMAIN toClient' :
         toClient'[i].id \in N \/ toClient'[i].id \in Outstanding
    /\ \A a \in asked' : a.id \in N \/ a.id \in Outstanding
    /\ \A i \in DOMAIN fromClient' :
         fromClient'[i] \in Answer =>
            fromClient'[i].id \in N \/ fromClient'[i].id \in Outstanding
    /\ \A u \in unsubscribing' \cup unsent' : u.id \in N \/ u.id \in Outstanding

\* Then fronts stay fronts over the step if the old and the new ones do.
LEMMA OutstandingStep ==
    ASSUME OutstandingIsFront, NEW N, NoneButNew(N), \A id \in N : AtFront(id)',
           \A id \in Outstanding : AtFront(id) => AtFront(id)'
    PROVE  OutstandingIsFront'
  <1> SUFFICES ASSUME NEW id \in Outstanding' PROVE AtFront(id)'
    BY Zenon DEF OutstandingIsFront
  <1>1. id \in N \/ id \in Outstanding
    <2>1. CASE \E i \in DOMAIN toClient' : id = toClient'[i].id
      BY <2>1, Zenon DEF NoneButNew
    <2>2. CASE \E a \in asked' : id = a.id
      BY <2>2, Zenon DEF NoneButNew
    <2>3. CASE \E i \in DOMAIN fromClient' :
                  fromClient'[i] \in Answer /\ id = fromClient'[i].id
      BY <2>3, Zenon DEF NoneButNew
    <2>4. CASE \E u \in unsubscribing' \cup unsent' : id = u.id
      BY <2>4, Zenon DEF NoneButNew
    <2> QED BY <2>1, <2>2, <2>3, <2>4, Zenon DEF Outstanding
  <1> QED BY <1>1, Zenon DEF OutstandingIsFront

\* The five places an outstanding id may be in.
LEMMA OutstandingIntro ==
    /\ \A i \in DOMAIN toClient : toClient[i].id \in Outstanding
    /\ \A a \in asked : a.id \in Outstanding
    /\ \A i \in DOMAIN fromClient :
         fromClient[i] \in Answer => fromClient[i].id \in Outstanding
    /\ \A u \in unsubscribing \cup unsent : u.id \in Outstanding
  BY Zenon DEF Outstanding

\* An id stays at the front of its queue while the queues do not change.
LEMMA FrontsUnchanged ==
    ASSUME UNCHANGED <<pending_subscriptions, pending_subscriptions_by_remote>>
    PROVE  \A id : AtFront(id) => AtFront(id)'
  BY Zenon DEF AtFront, queue_of, remote_of_id

-----------------------------------------------------------------------------
(* The steps of service discovery *)

\* Both invariants carry over when the queues and what is under way stay.
LEMMA QueuesUnchanged ==
    ASSUME QueuesMatchPending,
           UNCHANGED <<pending_subscriptions, pending_subscriptions_by_remote>>
    PROVE  QueuesMatchPending'
  BY DEF QueuesMatchPending, queue_of, remote_of_id

\* The id of subscriptions that need no answer is never queued.
LEMMA DefaultAtFront ==
    ASSUME EventgroupTypeOK' PROVE AtFront(DEFAULT_SUBSCRIPTION)'
  BY DEF EventgroupTypeOK, AtFront, DEFAULT_SUBSCRIPTION, Id

\* on_remote_subscription keeps the queues consistent.
LEMMA SubscribeStep ==
    ASSUME Inv, NEW e \in Endpoint, NEW c \in Client, on_remote_subscription(e, c),
           IdsOutlast
    PROVE  Inv'
  <1>1. CASE e \in targets
    <2>1. UNCHANGED <<eventgroup, pending_remote_subscriptions, toClient>>
      BY <1>1, Zenon DEF on_remote_subscription
    <2>2. TypeOK'
      BY <1>1, <2>1, Zenon
         DEF Inv, TypeOK, on_remote_subscription, answered, eventgroup, clientVars, expiry
    <2>3. QueuesMatchPending'
      BY <2>1, QueuesUnchanged, Zenon DEF Inv, eventgroup
    <2>4. NoneButNew({})
      BY <2>1, OutstandingIntro, Zenon
         DEF NoneButNew, on_remote_subscription, clientVars, expiry
    <2>5. OutstandingIsFront'
      BY <2>1, <2>4, FrontsUnchanged, OutstandingStep, Zenon DEF Inv, eventgroup
    <2> QED BY <2>2, <2>3, <2>5, Zenon DEF Inv
  <1>2. CASE e \notin targets
    <2>1. /\ add_pending_subscription(e, 1, c)
          /\ send_command(id_to_send(e), 1, c)
          /\ pending_remote_subscriptions' = pending_remote_subscriptions
               \cup {[client |-> c, id |-> subscription_id', subscriber |-> e]}
          /\ told' = [told EXCEPT ![e] = "nothing"]
          /\ wants' = [wants EXCEPT ![e] = "subscribed"]
          /\ UNCHANGED <<targets, unsubscribing, expired, expiring, unsent, announced,
                         known, offered, fromClient, clientVars>>
      BY <1>2, Zenon DEF on_remote_subscription, expiry
    <2>2. EventgroupTypeOK /\ QueuesMatchPending
      BY Zenon DEF Inv, TypeOK, EventgroupTypeOK
    <2>3. EventgroupTypeOK' /\ QueuesMatchPending'
      BY <2>1, <2>2, AddPending, Zenon
    <2>4. PICK new \in Id :
            /\ subscription_id' = new
            /\ IdIsFree(new)
            /\ \/ id_to_send(e) = DEFAULT_SUBSCRIPTION
               \/ id_to_send(e) = new /\ AtFront(new)'
            /\ \A id : id # new /\ AtFront(id) => AtFront(id)'
      BY <2>1, <2>2, AddPending, Zenon
    <2>5. /\ toClient' \in Seq(ClientCommand)
          /\ \A i \in DOMAIN toClient' :
                \/ \E k \in DOMAIN toClient : toClient'[i].id = toClient[k].id
                \/ id_to_send(e) # DEFAULT_SUBSCRIPTION /\ toClient'[i].id = id_to_send(e)
      <3>1. id_to_send(e) \in Id \cup {DEFAULT_SUBSCRIPTION} /\ toClient \in Seq(ClientCommand)
        BY <2>4, Zenon DEF Inv, TypeOK
      <3> HIDE DEF DEFAULT_SUBSCRIPTION
      <3> QED BY <2>1, <3>1, SendCommand, Zenon
    <2>6. TypeOK'
      BY <2>1, <2>3, <2>4, <2>5 DEF Inv, TypeOK, EventgroupTypeOK, clientVars
    <2>7. NoneButNew({id \in {new} : AtFront(new)'})
      BY <2>1, <2>4, <2>5, OutstandingIntro, Zenon DEF NoneButNew, clientVars
    <2>8. \A id \in Outstanding : AtFront(id) => AtFront(id)'
      BY <2>4, Zenon DEF IdIsFree
    <2>9. OutstandingIsFront'
      BY <2>7, <2>8, OutstandingStep, Zenon DEF Inv
    <2> QED BY <2>3, <2>6, <2>9, Zenon DEF Inv
  <1> QED BY <1>1, <1>2, Zenon

\* on_unsubscribe, up to the pending subscription it adds.
LEMMA UnsubscribeStep ==
    ASSUME Inv, NEW e \in Endpoint, NEW c \in Client, on_unsubscribe(e, c), IdsOutlast
    PROVE  Inv'
  <1>1. /\ add_pending_subscription(e, 0, c)
        /\ unsubscribing' = {[subscriber |-> e, id |-> id_to_send(e), client |-> c]}
        /\ wants' = [wants EXCEPT ![e] = "unsubscribed"]
        /\ told' = [told EXCEPT ![e] = "nothing"]
        /\ UNCHANGED <<targets, pending_remote_subscriptions, expired, expiring, unsent,
                       announced, known, offered, toClient, fromClient, clientVars>>
    BY Zenon DEF on_unsubscribe, expiry
  <1>2. EventgroupTypeOK /\ QueuesMatchPending
    BY DEF Inv, TypeOK, EventgroupTypeOK
  <1>3. EventgroupTypeOK' /\ QueuesMatchPending'
    BY <1>1, <1>2, AddPending, Zenon
  <1>4. PICK new \in Id :
          /\ IdIsFree(new)
          /\ \/ id_to_send(e) = DEFAULT_SUBSCRIPTION
             \/ id_to_send(e) = new /\ AtFront(new)'
          /\ \A id : id # new /\ AtFront(id) => AtFront(id)'
    BY <1>1, <1>2, AddPending, Zenon
  <1>5. TypeOK'
    BY <1>1, <1>3, <1>4 DEF Inv, TypeOK, EventgroupTypeOK, clientVars
  <1>6. NoneButNew({id_to_send(e)})
    BY <1>1, OutstandingIntro DEF NoneButNew, clientVars
  <1>7. \A id \in {id_to_send(e)} : AtFront(id)'
    BY <1>3, <1>4, DefaultAtFront, Zenon
  <1>8. \A id \in Outstanding : AtFront(id) => AtFront(id)'
    BY <1>4, Zenon DEF IdIsFree
  <1>9. OutstandingIsFront'
    BY <1>6, <1>7, <1>8, OutstandingStep, Zenon DEF Inv
  <1> QED BY <1>3, <1>5, <1>9 DEF Inv

\* on_unsubscribe: the command is sent after the mutex was released.
LEMMA UnsubscribeSendStep ==
    ASSUME Inv, on_unsubscribe_send
    PROVE  Inv'
  <1>1. PICK u \in unsubscribing : /\ targets' = targets \ {u.subscriber}
                                   /\ send_command(u.id, 0, u.client)
    BY Zenon DEF on_unsubscribe_send
  <1>2. /\ u.id \in Id \cup {DEFAULT_SUBSCRIPTION} /\ u.client \in Client
        /\ toClient \in Seq(ClientCommand)
    BY Zenon DEF Inv, TypeOK
  <1>3. /\ toClient' \in Seq(ClientCommand)
        /\ \A i \in DOMAIN toClient' :
              \/ \E k \in DOMAIN toClient : toClient'[i].id = toClient[k].id
              \/ u.id # DEFAULT_SUBSCRIPTION /\ toClient'[i].id = u.id
    <2> HIDE DEF DEFAULT_SUBSCRIPTION
    <2> QED BY <1>1, <1>2, SendCommand, Zenon
  <1>4. TypeOK'
    BY <1>1, <1>3, Zenon DEF Inv, TypeOK, on_unsubscribe_send, clientVars, expiry
  <1>5. UNCHANGED <<pending_subscriptions, pending_subscriptions_by_remote>>
    BY Zenon DEF on_unsubscribe_send
  <1>6. QueuesMatchPending'
    BY <1>5, QueuesUnchanged, Zenon DEF Inv
  <1>7. NoneButNew({})
    BY <1>3, OutstandingIntro, Zenon DEF NoneButNew, on_unsubscribe_send, clientVars, expiry
  <1>8. OutstandingIsFront'
    BY <1>5, <1>7, FrontsUnchanged, OutstandingStep, Zenon DEF Inv
  <1> QED BY <1>4, <1>6, <1>8, Zenon DEF Inv

\* expire_subscriptions finds a target expired, and removes it.
LEMMA ExpireStep ==
    ASSUME Inv, NEW e \in Endpoint,
           expire_subscriptions(e) \/ expire_subscriptions_remove(e)
    PROVE  Inv'
  <1>1. UNCHANGED <<pending_subscriptions, pending_subscriptions_by_remote, toClient,
                    fromClient, asked, unsubscribing, unsent>>
    BY Zenon DEF expire_subscriptions, expire_subscriptions_remove, clientVars, eventgroup
  <1>2. TypeOK'
    BY Zenon
       DEF Inv, TypeOK, expire_subscriptions, expire_subscriptions_remove, clientVars, eventgroup
  <1>3. QueuesMatchPending'
    BY <1>1, QueuesUnchanged, Zenon DEF Inv
  <1>4. NoneButNew({})
    BY <1>1, OutstandingIntro, Zenon DEF NoneButNew
  <1>5. OutstandingIsFront'
    BY <1>1, <1>4, FrontsUnchanged, OutstandingStep, Zenon DEF Inv
  <1> QED BY <1>2, <1>3, <1>5, Zenon DEF Inv

\* A command that is to be sent later is kept.
LEMMA KeepCommand ==
    ASSUME unsent \subseteq ClientCommand, NEW id \in Id \cup {DEFAULT_SUBSCRIPTION},
           NEW ttl \in {0, 1}, NEW c \in Client, keep_command(id, ttl, c)
    PROVE  /\ unsent' \subseteq ClientCommand
           /\ \A u \in unsent' : \/ u \in unsent
                                 \/ /\ id # DEFAULT_SUBSCRIPTION
                                    /\ u.id = id /\ u.ttl = ttl /\ u.client = c
  <1>1. CASE id # DEFAULT_SUBSCRIPTION
    <2>1. PICK m : m = [ttl |-> ttl, id |-> id, client |-> c]
      BY Zenon
    <2>2. m \in ClientCommand /\ m.id = id /\ m.ttl = ttl /\ m.client = c
      BY <1>1, <2>1, Zenon DEF ClientCommand
    <2> QED BY <1>1, <2>1, <2>2, Zenon DEF keep_command
  <1>2. CASE id = DEFAULT_SUBSCRIPTION
    BY <1>2, Zenon DEF keep_command
  <1> QED BY <1>1, <1>2, Zenon

\* expire_subscriptions: the unsubscription of one endpoint is queued.
LEMMA ExpireQueueStep ==
    ASSUME Inv, NEW e \in Endpoint, NEW c \in Client, expire_subscriptions_queue(e, c),
           IdsOutlast
    PROVE  Inv'
  <1>1. /\ expiring' = expiring \ {e}
        /\ UNCHANGED <<targets, pending_remote_subscriptions, unsubscribing, expired,
                       announced, known, offered, toClient, fromClient, clientVars, wants,
                       told>>
    BY Zenon DEF expire_subscriptions_queue
  <1>2. CASE add_pending_subscription(e, 0, c) /\ keep_command(id_to_send(e), 0, c)
    <2>2. EventgroupTypeOK /\ QueuesMatchPending
      BY Zenon DEF Inv, TypeOK, EventgroupTypeOK
    <2>3. EventgroupTypeOK' /\ QueuesMatchPending'
      BY <1>2, <2>2, AddPending, Zenon
    <2>4. PICK new \in Id :
            /\ IdIsFree(new)
            /\ \/ id_to_send(e) = DEFAULT_SUBSCRIPTION
               \/ id_to_send(e) = new /\ AtFront(new)'
            /\ \A id : id # new /\ AtFront(id) => AtFront(id)'
      BY <1>2, <2>2, AddPending, Zenon
    <2>5. /\ unsent' \subseteq ClientCommand
          /\ \A u \in unsent' : \/ u \in unsent
                                \/ id_to_send(e) # DEFAULT_SUBSCRIPTION /\ u.id = id_to_send(e)
      <3>1. id_to_send(e) \in Id \cup {DEFAULT_SUBSCRIPTION} /\ unsent \subseteq ClientCommand
        BY <2>4, Zenon DEF Inv, TypeOK
      <3> HIDE DEF DEFAULT_SUBSCRIPTION
      <3> QED BY <1>2, <3>1, KeepCommand, Zenon
    <2>6. TypeOK'
      BY <1>1, <2>3, <2>5, Zenon DEF Inv, TypeOK, EventgroupTypeOK, clientVars
    <2>7. NoneButNew({id \in {new} : AtFront(new)'})
      BY <1>1, <2>4, <2>5, OutstandingIntro, Zenon DEF NoneButNew, clientVars
    <2>8. \A id \in Outstanding : AtFront(id) => AtFront(id)'
      BY <2>4, Zenon DEF IdIsFree
    <2>9. OutstandingIsFront'
      BY <2>7, <2>8, OutstandingStep, Zenon DEF Inv
    <2> QED BY <2>3, <2>6, <2>9, Zenon DEF Inv
  <1>3. CASE UNCHANGED <<subscription_id, pending_subscriptions,
                         pending_subscriptions_by_remote, unsent>>
    <2>1. TypeOK'
      BY <1>1, <1>3, Zenon DEF Inv, TypeOK, clientVars
    <2>2. QueuesMatchPending'
      BY <1>3, QueuesUnchanged, Zenon DEF Inv
    <2>3. NoneButNew({})
      BY <1>1, <1>3, OutstandingIntro, Zenon DEF NoneButNew, clientVars
    <2>4. OutstandingIsFront'
      BY <1>3, <2>3, FrontsUnchanged, OutstandingStep, Zenon DEF Inv
    <2> QED BY <2>1, <2>2, <2>4, Zenon DEF Inv
  <1> QED BY <1>2, <1>3, Zenon DEF expire_subscriptions_queue

\* What sends a command that was kept changes.
KeptSent ==
    UNCHANGED <<eventgroup, pending_remote_subscriptions, unsubscribing, expired,
                expiring, announced, known, offered, fromClient, clientVars, wants, told>>

\* A command that was kept is sent: its id only moves.
LEMMA KeptSentStep ==
    ASSUME Inv, KeptSent, NEW u \in unsent, unsent' = unsent \ {u},
           \/ toClient' = toClient
           \/ toClient' = Append(toClient, u)
           \/ send_command(u.id, u.ttl, u.client)
    PROVE  Inv'
  <1>1. /\ u \in ClientCommand /\ u.id \in Id /\ u.ttl \in {0, 1} /\ u.client \in Client
        /\ toClient \in Seq(ClientCommand) /\ u.id \in Outstanding
    BY OutstandingIntro, Zenon DEF Inv, TypeOK, ClientCommand
  <1>2. /\ toClient' \in Seq(ClientCommand)
        /\ \A i \in DOMAIN toClient' :
              \/ \E k \in DOMAIN toClient : toClient'[i].id = toClient[k].id
              \/ toClient'[i].id = u.id
    <2>1. CASE toClient' = toClient
      BY <1>1, <2>1, Zenon
    <2>2. CASE toClient' = Append(toClient, u)
      <3>1. toClient' \in Seq(ClientCommand)
        BY <1>1, <2>2
      <3>2. ASSUME NEW i \in DOMAIN toClient'
            PROVE  (i \in DOMAIN toClient /\ toClient'[i] = toClient[i]) \/ toClient'[i] = u
        BY <1>1, <2>2
      <3> QED BY <3>1, <3>2, Zenon
    <2>3. CASE send_command(u.id, u.ttl, u.client)
      BY <1>1, <2>3, SendCommand, Zenon
    <2> QED BY <2>1, <2>2, <2>3, Zenon
  <1>3. TypeOK'
    BY <1>2, Zenon DEF Inv, TypeOK, KeptSent, eventgroup, clientVars
  <1>4. UNCHANGED <<pending_subscriptions, pending_subscriptions_by_remote>>
    BY Zenon DEF KeptSent, eventgroup
  <1>5. QueuesMatchPending'
    BY <1>4, QueuesUnchanged, Zenon DEF Inv
  <1>6. NoneButNew({})
    BY <1>1, <1>2, OutstandingIntro, Zenon DEF NoneButNew, KeptSent, clientVars
  <1>7. OutstandingIsFront'
    BY <1>4, <1>6, FrontsUnchanged, OutstandingStep, Zenon DEF Inv
  <1> QED BY <1>3, <1>5, <1>7, Zenon DEF Inv

\* expire_subscriptions and on_unsubscribe_ack send what they kept.
LEMMA KeptIsSent ==
    ASSUME NEW id, expire_subscriptions_send(id) \/ on_unsubscribe_ack_send(id)
    PROVE  /\ KeptSent
           /\ \E u \in unsent :
                /\ unsent' = unsent \ {u}
                /\ \/ toClient' = toClient /\ ~alive
                   \/ toClient' = Append(toClient, u)
                   \/ send_command(u.id, u.ttl, u.client)
  <1>1. KeptSent
    BY Zenon DEF expire_subscriptions_send, on_unsubscribe_ack_send, KeptSent
  <1>2. CASE expire_subscriptions_send(id)
    BY <1>1, <1>2, Zenon DEF expire_subscriptions_send
  <1>3. CASE on_unsubscribe_ack_send(id)
    BY <1>1, <1>3, Zenon DEF on_unsubscribe_ack_send
  <1> QED BY <1>2, <1>3, Zenon

\* The service becomes known to service discovery.
LEMMA AnnounceStep ==
    ASSUME Inv, Announce
    PROVE  Inv'
  <1>1. UNCHANGED <<pending_subscriptions, pending_subscriptions_by_remote, toClient,
                    fromClient, asked, unsubscribing, unsent>>
    BY Zenon DEF Announce, clientVars, eventgroup, expiry
  <1>2. TypeOK'
    BY Zenon DEF Inv, TypeOK, Announce, clientVars, eventgroup, expiry
  <1>3. QueuesMatchPending'
    BY <1>1, QueuesUnchanged, Zenon DEF Inv
  <1>4. NoneButNew({})
    BY <1>1, OutstandingIntro, Zenon DEF NoneButNew
  <1>5. OutstandingIsFront'
    BY <1>1, <1>4, FrontsUnchanged, OutstandingStep, Zenon DEF Inv
  <1> QED BY <1>2, <1>3, <1>5, Zenon DEF Inv

-----------------------------------------------------------------------------
(* The steps of the routing manager *)

\* What every answer does to the queues and the commands under way.
AnswerKeeps ==
    /\ EventgroupTypeOK'
    /\ QueuesMatchPending'
    /\ toClient' \in Seq(ClientCommand)
    /\ \A id : AtFront(id) => AtFront(id)'
    /\ \A i \in DOMAIN toClient' :
         \/ toClient'[i].id \in Outstanding
         \/ \E h \in Id : toClient'[i].id = h /\ AtFront(h)'
    /\ unsent' \subseteq ClientCommand
    /\ \A u \in unsent' :
         \/ u.id \in Outstanding
         \/ \E h \in Id : u.id = h /\ AtFront(h)'

\* An answer to the front of a queue removes it and sends the next front.
LEMMA FrontAnswered ==
    ASSUME Inv, NEW id, is_front(id), NEW n \in DOMAIN queue_of(id),
           remove_pending_subscription(id, n),
           \/ send_front(remaining_queue(id, n)) /\ unsent' = unsent
           \/ keep_front(remaining_queue(id, n)) /\ toClient' = toClient,
           subscription_id' = subscription_id
    PROVE  AnswerKeeps
  <1> DEFINE rest == remaining_queue(id, n)
  <1>1. EventgroupTypeOK /\ QueuesMatchPending
    BY Zenon DEF Inv, TypeOK, EventgroupTypeOK
  <1>2. /\ EventgroupTypeOK'
        /\ QueuesMatchPending'
        /\ \A j : AtFront(j) => AtFront(j)'
        /\ rest # <<>> =>
             /\ Head(rest) \in DOMAIN pending_subscriptions
             /\ \A j : j = Head(rest) => AtFront(j)'
    BY <1>1, RemovePending, Zenon
  <1> HIDE DEF rest
  <1>3. toClient \in Seq(ClientCommand) /\ unsent \subseteq ClientCommand
    BY Zenon DEF Inv, TypeOK
  <1>k. /\ \A i \in DOMAIN toClient : toClient[i].id \in Outstanding
        /\ \A u \in unsent : u.id \in Outstanding
    BY OutstandingIntro, Zenon
  <1>4. CASE rest = <<>>
    <2>1. toClient' = toClient /\ unsent' = unsent
      BY <1>4, Zenon DEF send_front, keep_front, rest
    <2> QED BY <1>2, <1>3, <1>k, <2>1, Zenon DEF AnswerKeeps
  <1>5. CASE rest # <<>>
    <2>1. PICK h \in DOMAIN pending_subscriptions : h = Head(rest)
      BY <1>2, <1>5, Zenon
    <2>2. AtFront(h)'
      BY <1>2, <1>5, <2>1, Zenon
    <2>4. /\ h \in Id /\ pending_subscriptions[h].ttl \in {0, 1}
          /\ pending_subscriptions[h].client \in Client
      BY <1>1, Zenon DEF EventgroupTypeOK, PendingSubscription
    <2>5. CASE send_front(rest) /\ unsent' = unsent
      <3>1. send_command(h, pending_subscriptions[h].ttl, pending_subscriptions[h].client)
        BY <1>5, <2>1, <2>5, Zenon DEF send_front
      <3>2. /\ toClient' \in Seq(ClientCommand)
            /\ \A i \in DOMAIN toClient' :
                  \/ \E k \in DOMAIN toClient : toClient'[i].id = toClient[k].id
                  \/ toClient'[i].id = h
        BY <1>3, <2>4, <3>1, SendCommand, Zenon
      <3> QED BY <1>2, <1>3, <1>k, <2>2, <2>4, <2>5, <3>2, Zenon DEF AnswerKeeps
    <2>6. CASE keep_front(rest) /\ toClient' = toClient
      <3>1. keep_command(h, 1, pending_subscriptions[h].client)
        BY <1>5, <2>1, <2>6, Zenon DEF keep_front
      <3>2. /\ unsent' \subseteq ClientCommand
            /\ \A u \in unsent' : u \in unsent \/ u.id = h
        BY <1>3, <2>4, <3>1, KeepCommand, Zenon
      <3> QED BY <1>2, <1>3, <1>k, <2>2, <2>4, <2>6, <3>2, Zenon DEF AnswerKeeps
    <2> QED BY <2>5, <2>6, Zenon DEF rest
  <1> QED BY <1>4, <1>5, Zenon

\* An answer to anything else changes neither.
LEMMA AnswerIgnored ==
    ASSUME Inv, UNCHANGED <<subscription_id, pending_subscriptions,
                            pending_subscriptions_by_remote, toClient, unsent>>
    PROVE  AnswerKeeps
  <1>1. /\ EventgroupTypeOK' /\ toClient' \in Seq(ClientCommand)
        /\ unsent' \subseteq ClientCommand
    BY Zenon DEF Inv, TypeOK, EventgroupTypeOK
  <1>2. QueuesMatchPending'
    BY QueuesUnchanged, Zenon DEF Inv
  <1>3. /\ \A i \in DOMAIN toClient' : toClient'[i].id \in Outstanding
        /\ \A u \in unsent' : u.id \in Outstanding
    BY OutstandingIntro, Zenon
  <1> QED BY <1>1, <1>2, <1>3, FrontsUnchanged, Zenon DEF AnswerKeeps

\* Reading the client's connection only takes commands off it.
LEMMA ReadCommand ==
    ASSUME TypeOK, fromClient # <<>>, fromClient' = Tail(fromClient)
    PROVE  /\ fromClient' \in Seq(Answer \cup OfferCommand)
           /\ \A i \in DOMAIN fromClient' :
                fromClient'[i] \in Answer => fromClient'[i].id \in Outstanding
  <1>1. fromClient \in Seq(Answer \cup OfferCommand)
    BY Zenon DEF TypeOK
  <1>2. fromClient' \in Seq(Answer \cup OfferCommand)
    BY <1>1
  <1>3. ASSUME NEW i \in DOMAIN fromClient'
        PROVE  i + 1 \in DOMAIN fromClient /\ fromClient'[i] = fromClient[i + 1]
    BY <1>1
  <1> QED BY <1>2, <1>3, OutstandingIntro, Zenon

\* Answering a pending remote subscription keeps the types.
LEMMA SettleType ==
    ASSUME TypeOK, NEW id, NEW n, NEW c,
           NEW outcome \in {"acknowledged", "rejected"}, settle(id, n, c, outcome)
    PROVE  /\ pending_remote_subscriptions' \subseteq
                 [client : Client, id : Id, subscriber : Endpoint]
           /\ told' \in [Endpoint -> {"nothing", "acknowledged", "crossed", "rejected"}]
  BY Zenon DEF TypeOK, settle, answered

\* The rest of the type invariant, for the handlers of the client's commands.
SdTypeOK ==
    /\ targets \subseteq Endpoint
    /\ pending_remote_subscriptions \subseteq
         [client : Client, id : Id, subscriber : Endpoint]
    /\ announced \in BOOLEAN /\ offered \in BOOLEAN
    /\ told \in [Endpoint -> {"nothing", "acknowledged", "crossed", "rejected"}]

\* on_stop_offer_service settles what is pending as if it were answered.
LEMMA StopOffer ==
    ASSUME Inv, on_stop_offer_service, UNCHANGED <<subscription_id, unsent>>
    PROVE  AnswerKeeps /\ SdTypeOK'
  <1>1. SdTypeOK'
    BY Zenon DEF Inv, TypeOK, SdTypeOK, on_stop_offer_service
  <1>2. toClient' = toClient
    BY Zenon DEF on_stop_offer_service
  <1>3. CASE announced
    <2>1. clear_pending_subscriptions
      BY <1>3, Zenon DEF on_stop_offer_service
    <2>2. DOMAIN pending_subscriptions' = {}
      BY <2>1, Zenon DEF clear_pending_subscriptions
    <2>3. EventgroupTypeOK'
      BY <2>1, <2>2 DEF Inv, TypeOK, EventgroupTypeOK, clear_pending_subscriptions
    <2>4. QueuesMatchPending'
      BY <2>1, <2>2 DEF QueuesMatchPending, clear_pending_subscriptions
    <2>5. \A id : AtFront(id)'
      BY <2>2, Zenon DEF AtFront
    <2>6. /\ \A i \in DOMAIN toClient' : toClient'[i].id \in Outstanding
          /\ \A u \in unsent' : u.id \in Outstanding
      BY <1>2, OutstandingIntro, Zenon
    <2>7. toClient' \in Seq(ClientCommand) /\ unsent' \subseteq ClientCommand
      BY <1>2, Zenon DEF Inv, TypeOK
    <2> QED BY <1>1, <2>3, <2>4, <2>5, <2>6, <2>7, Zenon DEF AnswerKeeps
  <1>4. CASE ~announced
    BY <1>1, <1>2, <1>4, AnswerIgnored, Zenon DEF on_stop_offer_service
  <1> QED BY <1>3, <1>4, Zenon

\* A step of the routing manager that leaves ids and the client alone.
LEMMA RoutingStep ==
    ASSUME Inv, AnswerKeeps, SdTypeOK', fromClient' \in Seq(Answer \cup OfferCommand),
           \A i \in DOMAIN fromClient' :
              fromClient'[i] \in Answer => fromClient'[i].id \in Outstanding,
           UNCHANGED <<subscription_id, unsubscribing, expired, expiring, known, clientVars,
                       wants>>
    PROVE  Inv'
  <1>1. TypeOK'
    BY Zenon DEF Inv, TypeOK, AnswerKeeps, EventgroupTypeOK, SdTypeOK, clientVars
  <1>2. NoneButNew({h \in Id : AtFront(h)'})
    BY OutstandingIntro, Zenon DEF NoneButNew, AnswerKeeps, clientVars
  <1>3. OutstandingIsFront'
    BY <1>2, OutstandingStep, Zenon DEF Inv, AnswerKeeps
  <1> QED BY <1>1, <1>3, Zenon DEF Inv, AnswerKeeps

\* A command of the client is handled: an answer, an offer or its end.
LEMMA MessageStep ==
    ASSUME Inv, on_message
    PROVE  Inv'
  <1> DEFINE m == Head(fromClient)
  <1>1. /\ fromClient # <<>> /\ fromClient' = Tail(fromClient)
        /\ UNCHANGED <<subscription_id, unsubscribing, expired, expiring, known, clientVars,
                       wants>>
    BY Zenon DEF on_message
  <1>2. /\ fromClient' \in Seq(Answer \cup OfferCommand)
        /\ \A i \in DOMAIN fromClient' :
              fromClient'[i] \in Answer => fromClient'[i].id \in Outstanding
    BY <1>1, ReadCommand, Zenon DEF Inv
  <1>3. /\ targets \subseteq Endpoint
        /\ announced \in BOOLEAN /\ offered \in BOOLEAN
        /\ SdTypeOK
    BY Zenon DEF Inv, TypeOK, SdTypeOK
  <1>4. CASE on_subscribe_ack(m.id, m.client) /\ UNCHANGED <<offered, announced, unsent>>
    <2> DEFINE id == m.id
    <2>1. CASE is_front(id)
      <3>1. PICK n \in DOMAIN queue_of(id) :
              /\ remove_pending_subscription(id, n)
              /\ add_targets(id, n)
              /\ settle(id, n, m.client, "acknowledged")
              /\ send_front(remaining_queue(id, n))
        BY <1>4, <2>1, Zenon DEF on_subscribe_ack
      <3>2. AnswerKeeps
        BY <1>1, <1>4, <2>1, <3>1, FrontAnswered, Zenon
      <3>3. removed_ids(id, n) \subseteq DOMAIN pending_subscriptions
        <4>1. remote_of_id(id) \in Remote
          BY <2>1, ConstantsAssumption, Zenon
             DEF Inv, TypeOK, is_front, remote_of_id, PendingSubscription
        <4>2. queue_of(id) \in Seq(Id) /\ n \in 1 .. Len(queue_of(id))
          BY <4>1 DEF Inv, TypeOK, queue_of
        <4>3. \A i \in DOMAIN queue_of(id) : queue_of(id)[i] \in DOMAIN pending_subscriptions
          BY <4>1, Zenon DEF Inv, QueuesMatchPending, queue_of
        <4> QED BY <4>2, <4>3 DEF removed_ids
      <3>4. targets' \subseteq Endpoint
        BY <1>3, <3>1, <3>3 DEF add_targets, Subscribers, Inv, TypeOK, PendingSubscription
      <3>5. SdTypeOK'
        BY <1>3, <1>4, <3>1, <3>4, SettleType, Zenon DEF SdTypeOK, Inv
      <3> QED BY <1>1, <1>2, <3>2, <3>5, RoutingStep, Zenon
    <2>2. CASE ~is_front(id)
      <3>1. UNCHANGED <<pending_subscriptions, pending_subscriptions_by_remote,
                        targets, pending_remote_subscriptions, told, toClient>>
        BY <1>4, <2>2, Zenon DEF on_subscribe_ack
      <3>2. AnswerKeeps
        BY <1>1, <1>4, <3>1, AnswerIgnored, Zenon
      <3>3. SdTypeOK'
        BY <1>3, <1>4, <3>1, Zenon DEF SdTypeOK
      <3> QED BY <1>1, <1>2, <3>2, <3>3, RoutingStep, Zenon
    <2> QED BY <2>1, <2>2, Zenon
  <1>5. CASE on_subscribe_nack(m.id, m.client) /\ UNCHANGED <<offered, announced, unsent>>
    <2> DEFINE id == m.id
    <2>1. CASE is_front(id)
      <3>1. PICK n \in DOMAIN queue_of(id) :
              /\ remove_pending_subscription(id, n)
              /\ settle(id, n, m.client, "rejected")
              /\ send_front(remaining_queue(id, n))
        BY <1>5, <2>1, Zenon DEF on_subscribe_nack
      <3>2. AnswerKeeps
        BY <1>1, <1>5, <2>1, <3>1, FrontAnswered, Zenon
      <3>3. targets' = targets
        BY <1>5, Zenon DEF on_subscribe_nack
      <3>4. SdTypeOK'
        BY <1>3, <1>5, <3>1, <3>3, SettleType, Zenon DEF SdTypeOK, Inv
      <3> QED BY <1>1, <1>2, <3>2, <3>4, RoutingStep
    <2>2. CASE ~is_front(id)
      <3>1. UNCHANGED <<pending_subscriptions, pending_subscriptions_by_remote,
                        targets, pending_remote_subscriptions, told, toClient>>
        BY <1>5, <2>2, Zenon DEF on_subscribe_nack
      <3>2. AnswerKeeps
        BY <1>1, <1>5, <3>1, AnswerIgnored, Zenon
      <3>3. SdTypeOK'
        BY <1>3, <1>5, <3>1 DEF SdTypeOK
      <3> QED BY <1>1, <1>2, <3>2, <3>3, RoutingStep
    <2> QED BY <2>1, <2>2
  <1>6. CASE on_unsubscribe_ack(m.id) /\ UNCHANGED <<offered, announced>>
    <2> DEFINE id == m.id
    <2>1. SdTypeOK'
      BY <1>3, <1>6, Zenon DEF SdTypeOK, on_unsubscribe_ack
    <2>2. CASE is_front(id)
      <3>1. PICK n \in DOMAIN queue_of(id) :
              /\ remove_pending_subscription(id, n)
              /\ keep_front(remaining_queue(id, n))
        BY <1>6, <2>2, Zenon DEF on_unsubscribe_ack
      <3>2. toClient' = toClient
        BY <1>6, Zenon DEF on_unsubscribe_ack
      <3>3. AnswerKeeps
        BY <1>1, <2>2, <3>1, <3>2, FrontAnswered, Zenon
      <3> QED BY <1>1, <1>2, <2>1, <3>3, RoutingStep, Zenon
    <2>3. CASE ~is_front(id)
      <3>1. AnswerKeeps
        BY <1>1, <1>6, <2>3, AnswerIgnored, Zenon DEF on_unsubscribe_ack
      <3> QED BY <1>1, <1>2, <2>1, <3>1, RoutingStep, Zenon
    <2> QED BY <2>2, <2>3
  <1>7. CASE /\ offered' = TRUE
             /\ UNCHANGED <<pending_subscriptions, pending_subscriptions_by_remote,
                            targets, pending_remote_subscriptions, told, toClient,
                            announced, unsent>>
    <2>1. AnswerKeeps
      BY <1>1, <1>7, AnswerIgnored, Zenon
    <2>2. SdTypeOK'
      BY <1>3, <1>7, Zenon DEF SdTypeOK
    <2> QED BY <1>1, <1>2, <2>1, <2>2, RoutingStep
  <1>8. CASE on_stop_offer_service /\ UNCHANGED unsent
    BY <1>1, <1>2, <1>8, StopOffer, RoutingStep, Zenon
  <1> QED BY <1>4, <1>5, <1>6, <1>7, <1>8, Zenon DEF on_message

\* The client is lost: its service is no longer offered.
LEMMA DeregisterStep ==
    ASSUME Inv, Deregister
    PROVE  Inv'
  <1>1. /\ on_stop_offer_service /\ fromClient' = fromClient
        /\ UNCHANGED <<subscription_id, unsubscribing, expired, expiring, known, clientVars,
                       wants>>
    BY Zenon DEF Deregister, expiry
  <1>2. AnswerKeeps /\ SdTypeOK'
    <2>1. unsent' = unsent
      BY Zenon DEF Deregister, expiry
    <2> QED BY <1>1, <2>1, StopOffer, Zenon
  <1>3. /\ fromClient' \in Seq(Answer \cup OfferCommand)
        /\ \A i \in DOMAIN fromClient' :
              fromClient'[i] \in Answer => fromClient'[i].id \in Outstanding
    BY <1>1, OutstandingIntro, Zenon DEF Inv, TypeOK
  <1> QED BY <1>1, <1>2, <1>3, RoutingStep, Zenon

-----------------------------------------------------------------------------
(* The steps of the local client *)

\* The client's steps move ids from one place to the next.
LEMMA ClientMoves ==
    ASSUME Inv, ClientUnchanged, NoneButNew({}),
           toClient' \in Seq(ClientCommand),
           fromClient' \in Seq(Answer \cup OfferCommand),
           alive' \in BOOLEAN, offering' \in BOOLEAN,
           asked' \subseteq [id : Id, client : Client],
           remote_subscriber_count' \in Nat, notifying' \in BOOLEAN
    PROVE  Inv'
  <1>1. UNCHANGED <<eventgroup, sd, offered, wants, told>>
    BY Zenon DEF ClientUnchanged
  <1>2. TypeOK'
    BY <1>1, Zenon DEF Inv, TypeOK, eventgroup, sd, expiry
  <1>3. QueuesMatchPending'
    BY <1>1, QueuesUnchanged, Zenon DEF Inv, eventgroup
  <1>4. OutstandingIsFront'
    BY <1>1, FrontsUnchanged, OutstandingStep, Zenon DEF Inv, eventgroup
  <1> QED BY <1>2, <1>3, <1>4, Zenon DEF Inv

\* Appending to and reading from the client's connections.
LEMMA AppendCommand ==
    ASSUME TypeOK, NEW m \in Answer \cup OfferCommand, fromClient' = Append(fromClient, m),
           m \in Answer => m.id \in Outstanding
    PROVE  /\ fromClient' \in Seq(Answer \cup OfferCommand)
           /\ \A i \in DOMAIN fromClient' :
                fromClient'[i] \in Answer => fromClient'[i].id \in Outstanding
  <1>1. fromClient \in Seq(Answer \cup OfferCommand)
    BY Zenon DEF TypeOK
  <1>2. fromClient' \in Seq(Answer \cup OfferCommand)
    BY <1>1
  <1>3. ASSUME NEW i \in DOMAIN fromClient'
        PROVE  \/ i \in DOMAIN fromClient /\ fromClient'[i] = fromClient[i]
               \/ fromClient'[i] = m
    BY <1>1
  <1> QED BY <1>2, <1>3, OutstandingIntro, Zenon

\* The client takes the oldest command; what is left is still outstanding.
LEMMA TakeCommand ==
    ASSUME TypeOK, toClient # <<>>, toClient' = Tail(toClient)
    PROVE  /\ toClient' \in Seq(ClientCommand)
           /\ Head(toClient) \in ClientCommand
           /\ Head(toClient).id \in Outstanding
           /\ \A i \in DOMAIN toClient' : toClient'[i].id \in Outstanding
  <1>1. toClient \in Seq(ClientCommand)
    BY Zenon DEF TypeOK
  <1>2. toClient' \in Seq(ClientCommand) /\ Head(toClient) \in ClientCommand
    BY <1>1
  <1>3. 1 \in DOMAIN toClient /\ Head(toClient) = toClient[1]
    BY <1>1
  <1>4. ASSUME NEW i \in DOMAIN toClient'
        PROVE  i + 1 \in DOMAIN toClient /\ toClient'[i] = toClient[i + 1]
    BY <1>1
  <1> QED BY <1>2, <1>3, <1>4, OutstandingIntro, Zenon

\* The client answers, offers and stops offering.
LEMMA ClientStepInv ==
    ASSUME Inv, ClientStep
    PROVE  Inv'
  <1> USE DEF Inv
  <1>1. ASSUME NEW command \in {"OFFER_SERVICE", "STOP_OFFER_SERVICE"}
        PROVE  /\ [command |-> command] \in OfferCommand
               /\ [command |-> command] \notin Answer
    BY Zenon DEF OfferCommand, Answer
  <1>2. CASE offer_service
    <2>1. /\ fromClient' \in Seq(Answer \cup OfferCommand)
          /\ \A i \in DOMAIN fromClient' :
                fromClient'[i] \in Answer => fromClient'[i].id \in Outstanding
      BY <1>1, <1>2, AppendCommand, Zenon DEF offer_service
    <2>2. NoneButNew({})
      BY <1>2, <2>1, OutstandingIntro, Zenon DEF NoneButNew, offer_service, ClientUnchanged, sd, expiry
    <2> QED BY <1>2, <2>1, <2>2, ClientMoves, Zenon DEF offer_service, TypeOK
  <1>3. CASE stop_offer_service
    <2>1. /\ fromClient' \in Seq(Answer \cup OfferCommand)
          /\ \A i \in DOMAIN fromClient' :
                fromClient'[i] \in Answer => fromClient'[i].id \in Outstanding
      BY <1>1, <1>3, AppendCommand, Zenon DEF stop_offer_service
    <2>2. NoneButNew({})
      BY <1>3, <2>1, OutstandingIntro, Zenon DEF NoneButNew, stop_offer_service, ClientUnchanged, sd, expiry
    <2> QED BY <1>3, <2>1, <2>2, ClientMoves, Zenon DEF stop_offer_service, TypeOK
  <1>4. CASE on_subscribe_command
    <2>1. /\ toClient' \in Seq(ClientCommand)
          /\ Head(toClient) \in ClientCommand
          /\ Head(toClient).id \in Outstanding
          /\ \A i \in DOMAIN toClient' : toClient'[i].id \in Outstanding
      BY <1>4, TakeCommand, Zenon DEF on_subscribe_command
    <2>2. NoneButNew({})
      <3>1. /\ asked' = asked \cup {[id |-> Head(toClient).id, client |-> Head(toClient).client]}
            /\ UNCHANGED <<fromClient, unsubscribing, unsent>>
        BY <1>4, Zenon DEF on_subscribe_command, ClientUnchanged, sd, expiry
      <3>2. \A a \in asked' : a.id \in Outstanding
        BY <2>1, <3>1, OutstandingIntro
      <3> QED BY <2>1, <3>1, <3>2, OutstandingIntro, Zenon DEF NoneButNew
    <2>3. asked' \subseteq [id : Id, client : Client]
      BY <1>4, <2>1 DEF on_subscribe_command, TypeOK, ClientCommand
    <2> QED BY <1>4, <2>1, <2>2, <2>3, ClientMoves, Zenon DEF on_subscribe_command, TypeOK
  <1>5. ASSUME NEW a \in asked, NEW command \in {"SUBSCRIBE_ACK", "SUBSCRIBE_NACK"},
               subscription_accepted_cbk(a, command)
        PROVE  Inv'
    <2> DEFINE m == [command |-> command, id |-> a.id, client |-> a.client]
    <2>1. m \in Answer /\ m.id \in Outstanding
      BY OutstandingIntro, Zenon DEF TypeOK, Answer
    <2>2. fromClient' = Append(fromClient, m)
      BY <1>5, Zenon DEF subscription_accepted_cbk
    <2> HIDE DEF m
    <2>3. /\ fromClient' \in Seq(Answer \cup OfferCommand)
          /\ \A i \in DOMAIN fromClient' :
                fromClient'[i] \in Answer => fromClient'[i].id \in Outstanding
      BY <2>1, <2>2, AppendCommand, Zenon
    <2>4. NoneButNew({})
      BY <1>5, <2>3, OutstandingIntro, Zenon
         DEF NoneButNew, subscription_accepted_cbk, ClientUnchanged, sd, expiry
    <2>5. /\ asked' \subseteq [id : Id, client : Client]
          /\ remote_subscriber_count' \in Nat
      BY <1>5 DEF subscription_accepted_cbk, TypeOK
    <2> QED BY <1>5, <2>3, <2>4, <2>5, ClientMoves, Zenon DEF subscription_accepted_cbk, TypeOK
  <1>6. CASE on_unsubscribe_command
    <2>1. /\ toClient' \in Seq(ClientCommand)
          /\ Head(toClient) \in ClientCommand
          /\ Head(toClient).id \in Outstanding
          /\ \A i \in DOMAIN toClient' : toClient'[i].id \in Outstanding
      BY <1>6, TakeCommand, Zenon DEF on_unsubscribe_command
    <2> DEFINE m == [command |-> "UNSUBSCRIBE_ACK", id |-> Head(toClient).id,
                     client |-> Head(toClient).client]
    <2>2. m \in Answer /\ m.id \in Outstanding
      BY <2>1, Zenon DEF Answer, ClientCommand
    <2>3. fromClient' = Append(fromClient, m)
      BY <1>6, Zenon DEF on_unsubscribe_command
    <2> HIDE DEF m
    <2>4. /\ fromClient' \in Seq(Answer \cup OfferCommand)
          /\ \A i \in DOMAIN fromClient' :
                fromClient'[i] \in Answer => fromClient'[i].id \in Outstanding
      BY <2>2, <2>3, AppendCommand, Zenon
    <2>5. NoneButNew({})
      BY <1>6, <2>1, <2>4, OutstandingIntro, Zenon
         DEF NoneButNew, on_unsubscribe_command, ClientUnchanged, sd, expiry
    <2>6. remote_subscriber_count' \in Nat /\ notifying' \in BOOLEAN
      BY <1>6 DEF on_unsubscribe_command, TypeOK
    <2> QED BY <1>6, <2>1, <2>4, <2>5, <2>6, ClientMoves, Zenon DEF on_unsubscribe_command, TypeOK
  <1>7. CASE Crash
    <2>1. NoneButNew({})
      BY <1>7, OutstandingIntro DEF NoneButNew, Crash, ClientUnchanged, sd, expiry
    <2>2. toClient' \in Seq(ClientCommand)
      BY <1>7 DEF Crash
    <2> QED BY <1>7, <2>1, <2>2, ClientMoves, Zenon DEF Crash, TypeOK
  <1>8. CASE Restart
    <2>1. NoneButNew({})
      BY <1>8, OutstandingIntro, Zenon DEF NoneButNew, Restart, ClientUnchanged, sd, expiry
    <2> QED BY <1>8, <2>1, ClientMoves, Zenon DEF Restart, TypeOK
  <1> QED BY <1>2, <1>3, <1>4, <1>5, <1>6, <1>7, <1>8, Zenon DEF ClientStep

-----------------------------------------------------------------------------
(* The theorems *)

\* At the start nothing is pending.
LEMMA InitInv ==
    ASSUME Init PROVE Inv
  <1>1. TypeOK
    <2>1. /\ subscription_id \in 0 .. MaxId
          /\ toClient \in Seq(ClientCommand)
          /\ fromClient \in Seq(Answer \cup OfferCommand)
          /\ pending_subscriptions_by_remote \in [Remote -> Seq(Id)]
      BY ConstantsAssumption DEF Init
    <2>2. /\ DOMAIN pending_subscriptions \subseteq Id
          /\ pending_subscriptions \in
               [DOMAIN pending_subscriptions -> PendingSubscription]
      BY Zenon DEF Init
    <2> QED BY <2>1, <2>2, Zenon DEF Init, TypeOK
  <1>2. QueuesMatchPending
    BY DEF Init, QueuesMatchPending
  <1>3. OutstandingIsFront
    BY Zenon DEF Init, OutstandingIsFront, AtFront
  <1> QED BY <1>1, <1>2, <1>3, Zenon DEF Inv

\* A stuttering step changes nothing.
LEMMA StutterInv ==
    ASSUME Inv, UNCHANGED vars PROVE Inv'
  <1>1. UNCHANGED <<eventgroup, sd, offered, toClient, fromClient, clientVars, wants, told>>
    BY Zenon DEF vars
  <1>2. NoneButNew({})
    BY <1>1, OutstandingIntro, Zenon DEF NoneButNew, sd, expiry, clientVars
  <1>3. ClientUnchanged
    BY <1>1, Zenon DEF ClientUnchanged
  <1> QED BY <1>1, <1>2, <1>3, ClientMoves, Zenon DEF Inv, TypeOK, clientVars

\* Every step keeps the inductive invariant.
LEMMA NextInv ==
    ASSUME Inv, [Next]_vars PROVE Inv'
  <1>1. CASE SdStep
    <2>1. \A e \in Endpoint : clients_of[e] \subseteq Client
      BY ConstantsAssumption, Zenon
    <2>2. ASSUME NEW e \in Endpoint, NEW c \in clients_of[e],
                 \/ on_remote_subscription(e, c)
                 \/ on_unsubscribe(e, c)
                 \/ expire_subscriptions_queue(e, c),
                 IdsOutlast
          PROVE  Inv'
      BY <2>1, <2>2, SubscribeStep, UnsubscribeStep, ExpireQueueStep, Zenon
    <2> QED BY <1>1, <2>2, UnsubscribeSendStep, ExpireStep, KeptIsSent, KeptSentStep,
               AnnounceStep, Zenon DEF SdStep
  <1>2. ASSUME NEW id \in Id, on_unsubscribe_ack_send(id)
        PROVE  Inv'
    BY <1>2, KeptIsSent, KeptSentStep, Zenon
  <1> QED BY <1>1, <1>2, MessageStep, DeregisterStep, ClientStepInv, StutterInv, Zenon DEF Next

\* The inductive invariant: whatever the numbers of endpoints, remotes and ids,
\* eventgroupinfo's map and queues agree and the commands under way for pending
\* (un)subscriptions are exactly at the fronts of the queues.
THEOREM InvAlways == Spec => []Inv
  BY InitInv, NextInv, PTL DEF Spec

\* Type correctness of the routing manager's and the client's state.
THEOREM TypeCorrect == Spec => []TypeOK
  BY InvAlways, PTL DEF Inv

\* remove_pending_subscription never meets a queued id without an entry in the
\* map, and no pending subscription is forgotten by its remote's queue.
THEOREM QueuesConsistent == Spec => []QueuesMatchPending
  BY InvAlways, PTL DEF Inv

\* (Un)subscriptions of one remote reach the local client one at a time, and no
\* answer arrives "in wrong order".
THEOREM OneAtATime == Spec => []OutstandingIsFront
  BY InvAlways, PTL DEF Inv

-----------------------------------------------------------------------------
(* What a step does to the map of pending (un)subscriptions *)

\* Some entries leave the map, the others keep their values.
Shrinks ==
    /\ DOMAIN pending_subscriptions' \subseteq DOMAIN pending_subscriptions
    /\ \A i \in DOMAIN pending_subscriptions' :
          pending_subscriptions'[i] = pending_subscriptions[i]

\* One entry joins the map under an id that nothing else refers to.
Grows(new, e, ttl, c) ==
    /\ new \in Id /\ IdIsFree(new)
    /\ DOMAIN pending_subscriptions' = DOMAIN pending_subscriptions \cup {new}
    /\ pending_subscriptions'[new] = [subscriber |-> e, ttl |-> ttl, client |-> c]
    /\ \A i \in DOMAIN pending_subscriptions :
          i # new /\ pending_subscriptions'[i] = pending_subscriptions[i]

\* add_pending_subscription adds one entry, at the end of its remote's queue.
LEMMA PendingAdded ==
    ASSUME EventgroupTypeOK, NEW e \in Endpoint, NEW ttl, NEW c,
           add_pending_subscription(e, ttl, c), IdsOutlast
    PROVE  \E new \in Id :
             /\ new = next_id(subscription_id) /\ subscription_id' = new
             /\ Grows(new, e, ttl, c)
             /\ pending_subscriptions_by_remote' =
                  [pending_subscriptions_by_remote EXCEPT ![remote_of[e]] = Append(@, new)]
  <1>1. PICK new : new = next_id(subscription_id)
    BY Zenon
  <1>2. new \in Id /\ IdIsFree(new)
    BY <1>1, NextIdFree, Zenon
  <1>3. /\ subscription_id' = new
        /\ pending_subscriptions' =
             [i \in DOMAIN pending_subscriptions \cup {new} |->
                IF i = new THEN [subscriber |-> e, ttl |-> ttl, client |-> c]
                           ELSE pending_subscriptions[i]]
        /\ pending_subscriptions_by_remote' =
             [pending_subscriptions_by_remote EXCEPT ![remote_of[e]] = Append(@, new)]
    BY <1>1, Zenon DEF add_pending_subscription
  <1>4. new \notin DOMAIN pending_subscriptions
    BY <1>2, Zenon DEF IdIsFree
  <1>5. Grows(new, e, ttl, c)
    BY <1>2, <1>3, <1>4, Zenon DEF Grows
  <1> QED BY <1>1, <1>2, <1>3, <1>5, Zenon

\* remove_pending_subscription takes entries of one remote and one kind.
LEMMA PendingRemoved ==
    ASSUME Inv, NEW id, is_front(id), NEW n \in DOMAIN queue_of(id), removes(id, n),
           remove_pending_subscription(id, n)
    PROVE  /\ Shrinks
           /\ DOMAIN pending_subscriptions' =
                DOMAIN pending_subscriptions \ removed_ids(id, n)
           /\ id \in removed_ids(id, n)
           /\ \A i \in removed_ids(id, n) :
                /\ i \in DOMAIN pending_subscriptions
                /\ remote_of_id(i) = remote_of_id(id)
                /\ pending_subscriptions[i].ttl = pending_subscriptions[id].ttl
  <1>1. /\ Shrinks
        /\ DOMAIN pending_subscriptions' =
             DOMAIN pending_subscriptions \ removed_ids(id, n)
    BY Zenon DEF remove_pending_subscription, Shrinks
  <1>2. PICK r \in Remote : r = remote_of_id(id)
    BY ConstantsAssumption, Zenon DEF Inv, TypeOK, is_front, remote_of_id, PendingSubscription
  <1>3. PICK q \in Seq(Id) : q = queue_of(id) /\ q = pending_subscriptions_by_remote[r]
    BY <1>2, Zenon DEF Inv, TypeOK, queue_of
  <1>4. q # <<>> /\ q[1] = id /\ n \in 1 .. Len(q)
    BY <1>3 DEF is_front
  <1>5. \A k \in 1 .. n : pending_subscriptions[q[k]].ttl = pending_subscriptions[q[1]].ttl
    BY <1>3, Zenon DEF removes
  <1>6. \A k \in 1 .. n : /\ q[k] \in DOMAIN pending_subscriptions
                          /\ remote_of_id(q[k]) = r
    BY <1>3, <1>4 DEF Inv, QueuesMatchPending
  <1>7. removed_ids(id, n) = {q[k] : k \in 1 .. n}
    BY <1>3, Zenon DEF removed_ids
  <1>8. id \in removed_ids(id, n)
    BY <1>4, <1>7
  <1> QED BY <1>1, <1>2, <1>4, <1>5, <1>6, <1>7, <1>8

-----------------------------------------------------------------------------
(* Who was acknowledged is served *)

\* A Subscribe entry that service discovery keeps waiting and the pending
\* subscription with its id are one and the same (on_remote_subscription).
Matches ==
    \A p \in pending_remote_subscriptions :
        p.id \in DOMAIN pending_subscriptions =>
            /\ pending_subscriptions[p.id].subscriber = p.subscriber
            /\ pending_subscriptions[p.id].ttl = 1
            /\ pending_subscriptions[p.id].client = p.client

\* While on_unsubscribe is between its two halves its subscriber stays
\* unsubscribed: service discovery takes up one entry after the other.
Gone ==
    /\ \A u \in unsubscribing : wants[u.subscriber] = "unsubscribed"
    /\ \A u, v \in unsubscribing : u = v

\* Who is told "acknowledged" has not been found expired since.
NotExpired ==
    \A e \in Endpoint :
        wants[e] = "subscribed" /\ told[e] = "acknowledged" => e \notin expired

\* The inductive invariant of AcknowledgedIsTarget.
AckInv == AcknowledgedIsTarget /\ NotExpired /\ Matches /\ Gone

\* Matches is kept while no entry is added.
LEMMA MatchesKept ==
    ASSUME Matches, Shrinks,
           pending_remote_subscriptions' \subseteq pending_remote_subscriptions
    PROVE  Matches'
  BY Zenon DEF Matches, Shrinks

\* Matches is kept by an (un)subscription that becomes pending.
LEMMA MatchesAdded ==
    ASSUME Matches, NEW new, NEW e, NEW ttl, NEW c, Grows(new, e, ttl, c),
           \/ pending_remote_subscriptions' = pending_remote_subscriptions
           \/ ttl = 1 /\ pending_remote_subscriptions' = pending_remote_subscriptions
                \cup {[client |-> c, id |-> new, subscriber |-> e]}
    PROVE  Matches'
  <1> SUFFICES ASSUME NEW p \in pending_remote_subscriptions',
                      p.id \in DOMAIN pending_subscriptions'
               PROVE  /\ pending_subscriptions'[p.id].subscriber = p.subscriber
                      /\ pending_subscriptions'[p.id].ttl = 1
                      /\ pending_subscriptions'[p.id].client = p.client
    BY Zenon DEF Matches
  <1>1. CASE p \in pending_remote_subscriptions
    <2>1. p.id # new
      BY <1>1, Zenon DEF Grows, IdIsFree
    <2>2. p.id \in DOMAIN pending_subscriptions
      BY <2>1, Zenon DEF Grows
    <2> QED BY <1>1, <2>2, Zenon DEF Grows, Matches
  <1>2. CASE p = [client |-> c, id |-> new, subscriber |-> e] /\ ttl = 1
    BY <1>2 DEF Grows
  <1> QED BY <1>1, <1>2, Zenon

\* AckInv is kept by a step that leaves all it is about alone.
LEMMA AckUnchanged ==
    ASSUME AckInv, UNCHANGED <<wants, told, targets, pending_subscriptions,
                               pending_remote_subscriptions, unsubscribing, expired>>
    PROVE  AckInv'
  BY Zenon DEF AckInv, AcknowledgedIsTarget, NotExpired, Matches, Gone

\* Service discovery's steps keep AckInv.
LEMMA AckSd ==
    ASSUME Inv, AckInv, NEW e \in Endpoint, NEW c \in Client,
           \/ on_remote_subscription(e, c)
           \/ on_unsubscribe(e, c)
           \/ expire_subscriptions_queue(e, c),
           IdsOutlast
    PROVE  AckInv'
  <1> USE DEF AckInv
  <1>0. EventgroupTypeOK
    BY Zenon DEF Inv, TypeOK, EventgroupTypeOK
  <1>t. /\ wants \in [Endpoint -> {"subscribed", "unsubscribed"}]
        /\ told \in [Endpoint -> {"nothing", "acknowledged", "crossed", "rejected"}]
    BY Zenon DEF Inv, TypeOK
  <1>1. CASE on_remote_subscription(e, c)
    <2>1. /\ unsubscribing = {} /\ unsubscribing' = {}
          /\ wants' = [wants EXCEPT ![e] = "subscribed"] /\ expired' = expired
      BY <1>1, Zenon DEF on_remote_subscription, EntryMayArrive, SdReady, expiry
    <2>2. Gone'
      BY <2>1, Zenon DEF Gone
    <2>3. CASE e \in targets
      <3>1. /\ told' = [told EXCEPT ![e] = answered(e, "acknowledged")]
            /\ UNCHANGED <<targets, pending_subscriptions, pending_remote_subscriptions>>
        BY <1>1, <2>3, Zenon DEF on_remote_subscription, eventgroup
      <3>2. Matches'
        BY <3>1, Zenon DEF Matches
      <3>3. AcknowledgedIsTarget'
        BY <1>t, <2>1, <2>3, <3>1, Zenon DEF AcknowledgedIsTarget
      <3>4. NotExpired'
        BY <1>t, <2>1, <3>1, Zenon DEF NotExpired, answered
      <3> QED BY <2>2, <3>2, <3>3, <3>4, Zenon
    <2>4. CASE e \notin targets
      <3>1. /\ add_pending_subscription(e, 1, c)
            /\ pending_remote_subscriptions' = pending_remote_subscriptions
                 \cup {[client |-> c, id |-> subscription_id', subscriber |-> e]}
            /\ told' = [told EXCEPT ![e] = "nothing"]
            /\ targets' = targets
        BY <1>1, <2>4, Zenon DEF on_remote_subscription
      <3>2. PICK new \in Id : subscription_id' = new /\ Grows(new, e, 1, c)
        BY <1>0, <3>1, PendingAdded, Zenon
      <3>3. Matches'
        BY <3>1, <3>2, MatchesAdded, Zenon
      <3>4. AcknowledgedIsTarget' /\ NotExpired'
        BY <1>t, <2>1, <3>1, Zenon DEF AcknowledgedIsTarget, NotExpired
      <3> QED BY <2>2, <3>3, <3>4, Zenon
    <2> QED BY <2>3, <2>4, Zenon
  <1>2. CASE on_unsubscribe(e, c)
    <2>1. /\ add_pending_subscription(e, 0, c)
          /\ unsubscribing' = {[subscriber |-> e, id |-> id_to_send(e), client |-> c]}
          /\ wants' = [wants EXCEPT ![e] = "unsubscribed"]
          /\ told' = [told EXCEPT ![e] = "nothing"]
          /\ UNCHANGED <<targets, pending_remote_subscriptions, expired>>
      BY <1>2, Zenon DEF on_unsubscribe, expiry
    <2>2. PICK new \in Id : Grows(new, e, 0, c)
      BY <1>0, <2>1, PendingAdded, Zenon
    <2>3. Matches'
      BY <2>1, <2>2, MatchesAdded, Zenon
    <2>4. Gone'
      BY <1>t, <2>1 DEF Gone
    <2>5. AcknowledgedIsTarget' /\ NotExpired'
      BY <1>t, <2>1, Zenon DEF AcknowledgedIsTarget, NotExpired
    <2> QED BY <2>3, <2>4, <2>5, Zenon
  <1>3. CASE expire_subscriptions_queue(e, c)
    <2>1. UNCHANGED <<targets, pending_remote_subscriptions, unsubscribing, expired, wants,
                      told>>
      BY <1>3, Zenon DEF expire_subscriptions_queue
    <2>2. CASE add_pending_subscription(e, 0, c)
      <3>1. PICK new \in Id : Grows(new, e, 0, c)
        BY <1>0, <2>2, PendingAdded, Zenon
      <3>2. Matches'
        BY <2>1, <3>1, MatchesAdded, Zenon
      <3> QED BY <2>1, <3>2, Zenon DEF Gone, AcknowledgedIsTarget, NotExpired
    <2>3. CASE UNCHANGED pending_subscriptions
      BY <2>1, <2>3, AckUnchanged, Zenon
    <2> QED BY <1>3, <2>2, <2>3, Zenon DEF expire_subscriptions_queue
  <1> QED BY <1>1, <1>2, <1>3, Zenon

\* Answering entries of one kind keeps AckInv: who is told "acknowledged" has
\* become a target in the same step.
LEMMA AckAnswer ==
    ASSUME Inv, AckInv, NEW id, is_front(id), NEW n \in DOMAIN queue_of(id), removes(id, n),
           remove_pending_subscription(id, n), NEW c, NEW outcome,
           \/ outcome = "acknowledged" /\ add_targets(id, n)
           \/ outcome = "rejected" /\ targets' = targets,
           settle(id, n, c, outcome), UNCHANGED <<wants, unsubscribing, expired>>
    PROVE  AckInv'
  <1> USE DEF AckInv
  <1>1. /\ Shrinks
        /\ \A i \in removed_ids(id, n) : i \in DOMAIN pending_subscriptions
    BY PendingRemoved, Zenon
  <1>2. /\ pending_remote_subscriptions' \subseteq pending_remote_subscriptions
        /\ told' = [e \in Endpoint |->
                      IF \E p \in settled(id, n, c) : p.subscriber = e
                      THEN answered(e, outcome) ELSE told[e]]
    BY Zenon DEF settle
  <1>3. Matches'
    BY <1>1, <1>2, MatchesKept, Zenon
  <1>4. Gone'
    BY Zenon DEF Gone
  <1>5. targets \subseteq targets'
    BY Zenon DEF add_targets
  <1>6. ASSUME NEW e \in Endpoint, wants'[e] = "subscribed", told'[e] = "acknowledged"
        PROVE  e \in targets' /\ e \notin expired
    <2>1. CASE \E p \in settled(id, n, c) : p.subscriber = e
      <3>1. PICK p \in settled(id, n, c) : p.subscriber = e
        BY <2>1, Zenon
      <3>2. outcome = "acknowledged" /\ add_targets(id, n) /\ e \notin expired
        BY <1>2, <1>6, <2>1, Zenon DEF answered
      <3>3. p \in pending_remote_subscriptions /\ p.id \in removed_ids(id, n)
        BY Zenon DEF settled
      <3>4. pending_subscriptions[p.id].subscriber = e
        BY <1>1, <3>1, <3>3, Zenon DEF Matches
      <3> QED BY <3>2, <3>3, <3>4, Zenon DEF add_targets, Subscribers
    <2>2. CASE ~ \E p \in settled(id, n, c) : p.subscriber = e
      BY <1>2, <1>5, <1>6, <2>2, Zenon DEF AcknowledgedIsTarget, NotExpired
    <2> QED BY <2>1, <2>2, Zenon
  <1> QED BY <1>3, <1>4, <1>6, Zenon DEF AcknowledgedIsTarget, NotExpired

\* A service that is no longer offered leaves nobody acknowledged without events.
LEMMA AckStop ==
    ASSUME AckInv, on_stop_offer_service, UNCHANGED <<wants, unsubscribing, expired>>
    PROVE  AckInv'
  <1> USE DEF AckInv
  <1>1. pending_remote_subscriptions' = {}
    BY Zenon DEF on_stop_offer_service
  <1>2. Matches'
    BY <1>1, Zenon DEF Matches
  <1>3. Gone'
    BY Zenon DEF Gone
  <1>4. CASE announced
    BY <1>2, <1>3, <1>4, Zenon DEF on_stop_offer_service, AcknowledgedIsTarget, NotExpired
  <1>5. CASE ~announced
    BY <1>2, <1>3, <1>5, Zenon DEF on_stop_offer_service, AcknowledgedIsTarget, NotExpired
  <1> QED BY <1>4, <1>5, Zenon

\* Every command of the client keeps AckInv.
LEMMA AckMessage ==
    ASSUME Inv, AckInv, on_message
    PROVE  AckInv'
  <1> DEFINE m == Head(fromClient)
  <1>1. UNCHANGED <<unsubscribing, wants, expired>>
    BY Zenon DEF on_message
  <1>2. CASE on_subscribe_ack(m.id, m.client)
    <2>1. CASE is_front(m.id)
      <3>1. PICK n \in DOMAIN queue_of(m.id) :
              /\ removes(m.id, n)
              /\ remove_pending_subscription(m.id, n)
              /\ add_targets(m.id, n)
              /\ settle(m.id, n, m.client, "acknowledged")
        BY <1>2, <2>1, Zenon DEF on_subscribe_ack
      <3> QED BY <1>1, <2>1, <3>1, AckAnswer, Zenon
    <2>2. CASE ~is_front(m.id)
      BY <1>1, <1>2, <2>2, AckUnchanged, Zenon DEF on_subscribe_ack
    <2> QED BY <2>1, <2>2, Zenon
  <1>3. CASE on_subscribe_nack(m.id, m.client)
    <2>1. CASE is_front(m.id)
      <3>1. PICK n \in DOMAIN queue_of(m.id) :
              /\ removes(m.id, n)
              /\ remove_pending_subscription(m.id, n)
              /\ settle(m.id, n, m.client, "rejected")
        BY <1>3, <2>1, Zenon DEF on_subscribe_nack
      <3>2. targets' = targets
        BY <1>3, Zenon DEF on_subscribe_nack
      <3> QED BY <1>1, <2>1, <3>1, <3>2, AckAnswer, Zenon
    <2>2. CASE ~is_front(m.id)
      BY <1>1, <1>3, <2>2, AckUnchanged, Zenon DEF on_subscribe_nack
    <2> QED BY <2>1, <2>2
  <1>4. CASE on_unsubscribe_ack(m.id)
    <2>1. UNCHANGED <<targets, pending_remote_subscriptions, told>>
      BY <1>4, Zenon DEF on_unsubscribe_ack
    <2>2. CASE is_front(m.id)
      <3>1. PICK n \in DOMAIN queue_of(m.id) :
              /\ removes(m.id, n)
              /\ remove_pending_subscription(m.id, n)
        BY <1>4, <2>2, Zenon DEF on_unsubscribe_ack
      <3>2. Shrinks
        BY <2>2, <3>1, PendingRemoved, Zenon
      <3>3. Matches'
        BY <2>1, <3>2, MatchesKept, Zenon DEF AckInv
      <3> QED BY <1>1, <2>1, <3>3, Zenon DEF AckInv, AcknowledgedIsTarget, NotExpired, Gone
    <2>3. CASE ~is_front(m.id)
      BY <1>1, <1>4, <2>1, <2>3, AckUnchanged, Zenon DEF on_unsubscribe_ack
    <2> QED BY <2>2, <2>3
  <1>5. CASE UNCHANGED <<pending_subscriptions, targets, pending_remote_subscriptions, told>>
    BY <1>1, <1>5, AckUnchanged, Zenon
  <1>6. CASE on_stop_offer_service
    BY <1>1, <1>6, AckStop, Zenon
  <1> QED BY <1>2, <1>3, <1>4, <1>5, <1>6, Zenon DEF on_message

\* Every step keeps AckInv.
LEMMA AckNext ==
    ASSUME Inv, AckInv, [Next]_vars
    PROVE  AckInv'
  <1>1. CASE SdStep
    <2>1. \A e \in Endpoint : clients_of[e] \subseteq Client
      BY ConstantsAssumption, Zenon
    <2>2. ASSUME NEW e \in Endpoint, NEW c \in clients_of[e],
                 \/ on_remote_subscription(e, c)
                 \/ on_unsubscribe(e, c)
                 \/ expire_subscriptions_queue(e, c),
                 IdsOutlast
          PROVE  AckInv'
      BY <2>1, <2>2, AckSd, Zenon
    <2>3. CASE on_unsubscribe_send
      <3>1. PICK u \in unsubscribing : targets' = targets \ {u.subscriber}
        BY <2>3, Zenon DEF on_unsubscribe_send
      <3>2. /\ unsubscribing' = {}
            /\ UNCHANGED <<pending_subscriptions, pending_remote_subscriptions, expired,
                           wants, told>>
        BY <2>3, Zenon DEF on_unsubscribe_send, expiry
      <3>3. wants[u.subscriber] = "unsubscribed"
        BY Zenon DEF AckInv, Gone
      <3>4. AcknowledgedIsTarget'
        BY <3>1, <3>2, <3>3, Zenon DEF AckInv, AcknowledgedIsTarget
      <3> QED BY <3>2, <3>4, Zenon DEF AckInv, NotExpired, Matches, Gone
    <2>4. ASSUME NEW e \in Endpoint, expire_subscriptions(e)
          PROVE  AckInv'
      <3>1. /\ expired' = expired \cup {e}
            /\ told' = [told EXCEPT ![e] = "nothing"]
            /\ UNCHANGED <<targets, pending_subscriptions, pending_remote_subscriptions,
                           unsubscribing, wants>>
        BY <2>4, Zenon DEF expire_subscriptions, eventgroup
      <3>2. told \in [Endpoint -> {"nothing", "acknowledged", "crossed", "rejected"}]
        BY Zenon DEF Inv, TypeOK
      <3>3. AcknowledgedIsTarget' /\ NotExpired'
        BY <3>1, <3>2, Zenon DEF AckInv, AcknowledgedIsTarget, NotExpired
      <3> QED BY <3>1, <3>3, Zenon DEF AckInv, Matches, Gone
    <2>5. ASSUME NEW e \in Endpoint, expire_subscriptions_remove(e)
          PROVE  AckInv'
      <3>1. /\ e \in expired /\ targets' = targets \ {e} /\ expired' = expired \ {e}
            /\ UNCHANGED <<pending_subscriptions, pending_remote_subscriptions,
                           unsubscribing, wants, told>>
        BY <2>5, Zenon DEF expire_subscriptions_remove
      <3>2. AcknowledgedIsTarget' /\ NotExpired'
        BY <3>1, Zenon DEF AckInv, AcknowledgedIsTarget, NotExpired
      <3> QED BY <3>1, <3>2, Zenon DEF AckInv, Matches, Gone
    <2>6. ASSUME NEW id \in Id, expire_subscriptions_send(id)
          PROVE  AckInv'
      BY <2>6, KeptIsSent, AckUnchanged, Zenon DEF KeptSent, eventgroup
    <2>7. CASE Announce
      BY <2>7, AckUnchanged, Zenon DEF Announce, eventgroup, expiry
    <2> QED BY <1>1, <2>2, <2>3, <2>4, <2>5, <2>6, <2>7, Zenon DEF SdStep
  <1>2. CASE Deregister
    BY <1>2, AckStop, Zenon DEF Deregister, expiry
  <1>3. CASE ClientStep
    <2>1. ClientUnchanged
      BY <1>3, Zenon DEF ClientStep, offer_service, stop_offer_service, on_subscribe_command,
                  subscription_accepted_cbk, on_unsubscribe_command, Crash, Restart
    <2> QED BY <2>1, AckUnchanged, Zenon DEF ClientUnchanged, eventgroup, sd, expiry
  <1>4. CASE UNCHANGED vars
    BY <1>4, AckUnchanged, Zenon DEF vars, eventgroup, sd, expiry
  <1>5. ASSUME NEW id \in Id, on_unsubscribe_ack_send(id)
        PROVE  AckInv'
    BY <1>5, KeptIsSent, AckUnchanged, Zenon DEF KeptSent, eventgroup
  <1> QED BY <1>1, <1>2, <1>3, <1>4, <1>5, AckMessage, Zenon DEF Next

-----------------------------------------------------------------------------
(* Commands under way *)

\* What a connection holds before and after its oldest command is read.
LEMMA TailElements ==
    ASSUME NEW S, NEW s \in Seq(S), s # <<>>
    PROVE  /\ Tail(s) \in Seq(S) /\ Head(s) \in S
           /\ 1 \in DOMAIN s /\ s[1] = Head(s)
           /\ \A j \in DOMAIN Tail(s) : j + 1 \in DOMAIN s /\ Tail(s)[j] = s[j + 1]
           /\ \A i \in DOMAIN s : \/ s[i] = Head(s)
                                  \/ i - 1 \in DOMAIN Tail(s) /\ Tail(s)[i - 1] = s[i]
  OBVIOUS

\* What a connection holds before and after a command is added to it.
LEMMA AppendElements ==
    ASSUME NEW S, NEW s \in Seq(S), NEW m \in S
    PROVE  /\ Append(s, m) \in Seq(S)
           /\ Len(s) + 1 \in DOMAIN Append(s, m) /\ Append(s, m)[Len(s) + 1] = m
           /\ \A i \in DOMAIN s : i \in DOMAIN Append(s, m) /\ Append(s, m)[i] = s[i]
           /\ \A i \in DOMAIN Append(s, m) :
                \/ i \in DOMAIN s /\ Append(s, m)[i] = s[i]
                \/ Append(s, m)[i] = m
  OBVIOUS

\* send_command adds one command when the client can be reached.
LEMMA CommandSent ==
    ASSUME toClient \in Seq(ClientCommand), NEW id \in Id \cup {DEFAULT_SUBSCRIPTION},
           NEW ttl \in {0, 1}, NEW c \in Client, send_command(id, ttl, c)
    PROVE  /\ \A i \in DOMAIN toClient : i \in DOMAIN toClient' /\ toClient'[i] = toClient[i]
           /\ \A i \in DOMAIN toClient' :
                \/ i \in DOMAIN toClient /\ toClient'[i] = toClient[i]
                \/ /\ toClient'[i] = [ttl |-> ttl, id |-> id, client |-> c]
                   /\ id # DEFAULT_SUBSCRIPTION
           /\ offered /\ alive /\ id # DEFAULT_SUBSCRIPTION =>
                \E i \in DOMAIN toClient' : toClient'[i].id = id
  <1>1. CASE offered /\ alive /\ id # DEFAULT_SUBSCRIPTION
    <2>1. PICK m : m = [ttl |-> ttl, id |-> id, client |-> c]
      BY Zenon
    <2>2. m \in ClientCommand /\ m.id = id
      BY <1>1, <2>1, Zenon DEF ClientCommand
    <2>3. toClient' = Append(toClient, m)
      BY <1>1, <2>1, Zenon DEF send_command
    <2> QED BY <1>1, <2>1, <2>2, <2>3, AppendElements
  <1>2. CASE ~(offered /\ alive /\ id # DEFAULT_SUBSCRIPTION)
    BY <1>2, Zenon DEF send_command
  <1> QED BY <1>1, <1>2, Zenon

\* OutstandingIntro, after the step.
LEMMA OutstandingIntroNext ==
    /\ \A i \in DOMAIN toClient' : toClient'[i].id \in Outstanding'
    /\ \A a \in asked' : a.id \in Outstanding'
    /\ \A i \in DOMAIN fromClient' :
         fromClient'[i] \in Answer => fromClient'[i].id \in Outstanding'
    /\ \A u \in unsubscribing' \cup unsent' : u.id \in Outstanding'
  BY Zenon DEF Outstanding

\* Whatever is outstanding before a step is so after it, but for the ids S.
NoneLost(S) ==
    /\ \A i \in DOMAIN toClient : toClient[i].id \in Outstanding' \cup S
    /\ \A a \in asked : a.id \in Outstanding' \cup S
    /\ \A i \in DOMAIN fromClient :
         fromClient[i] \in Answer => fromClient[i].id \in Outstanding' \cup S
    /\ \A u \in unsubscribing \cup unsent : u.id \in Outstanding' \cup S

-----------------------------------------------------------------------------
(* No wake-up is lost *)

\* Without crossing, an eventgroup has pending (un)subscriptions only while its
\* service is announced, and what is announced is offered.
Quiet ==
    /\ announced => offered
    /\ ~announced => \A r \in Remote : pending_subscriptions_by_remote[r] = <<>>

\* The inductive invariant of FrontIsUnderWay.
FrontInv == FrontIsUnderWay /\ Quiet

\* The front of every queue that is not empty stays under way over a step that
\* loses no command but those about S, if the new fronts are sent.
LEMMA FrontKept ==
    ASSUME FrontIsUnderWay, NEW S, NoneLost(S),
           alive' /\ offered' => alive /\ offered,
           alive' /\ offered' =>
             \A r \in Remote : pending_subscriptions_by_remote'[r] # <<>> =>
               \/ Head(pending_subscriptions_by_remote'[r]) \in Outstanding'
               \/ /\ pending_subscriptions_by_remote[r] # <<>>
                  /\ Head(pending_subscriptions_by_remote'[r])
                       = Head(pending_subscriptions_by_remote[r])
                  /\ Head(pending_subscriptions_by_remote[r]) \notin S
    PROVE  FrontIsUnderWay'
  <1>1. ASSUME NEW id \in Outstanding, id \notin S
        PROVE  id \in Outstanding'
    <2>1. \/ \E i \in DOMAIN toClient : id = toClient[i].id
          \/ \E a \in asked : id = a.id
          \/ \E i \in DOMAIN fromClient : fromClient[i] \in Answer /\ id = fromClient[i].id
          \/ \E u \in unsubscribing \cup unsent : id = u.id
      BY Zenon DEF Outstanding
    <2> QED BY <1>1, <2>1, Zenon DEF NoneLost
  <1> SUFFICES ASSUME alive', offered', NEW r \in Remote,
                      pending_subscriptions_by_remote'[r] # <<>>
               PROVE  Head(pending_subscriptions_by_remote'[r]) \in Outstanding'
    BY Zenon DEF FrontIsUnderWay
  <1> QED BY <1>1, Zenon DEF FrontIsUnderWay

\* A step that leaves the queues alone and loses no command.
LEMMA FrontUnchanged ==
    ASSUME FrontIsUnderWay, NoneLost({}), alive' /\ offered' => alive /\ offered,
           UNCHANGED pending_subscriptions_by_remote
    PROVE  FrontIsUnderWay'
  BY FrontKept, Zenon

\* The fronts after add_pending_subscription.
LEMMA FrontAdded ==
    ASSUME EventgroupTypeOK, NEW e \in Endpoint, NEW new \in Id,
           new = next_id(subscription_id),
           pending_subscriptions_by_remote' =
             [pending_subscriptions_by_remote EXCEPT ![remote_of[e]] = Append(@, new)],
           NEW r \in Remote, pending_subscriptions_by_remote'[r] # <<>>
    PROVE  \/ /\ pending_subscriptions_by_remote[r] # <<>>
              /\ Head(pending_subscriptions_by_remote'[r])
                   = Head(pending_subscriptions_by_remote[r])
           \/ /\ Head(pending_subscriptions_by_remote'[r]) = new
              /\ id_to_send(e) = new
  <1>1. remote_of[e] \in Remote
    BY ConstantsAssumption, Zenon
  <1>2. PICK q \in Seq(Id) : q = pending_subscriptions_by_remote[r]
    BY Zenon DEF EventgroupTypeOK
  <1>3. CASE r # remote_of[e]
    BY <1>1, <1>3, Zenon DEF EventgroupTypeOK
  <1>4. CASE r = remote_of[e] /\ q = <<>>
    <2>1. pending_subscriptions_by_remote'[r] = Append(q, new)
      BY <1>1, <1>2, <1>4, Zenon DEF EventgroupTypeOK
    <2>2. Head(Append(q, new)) = new
      BY <1>4
    <2> QED BY <1>2, <1>4, <2>1, <2>2, Zenon DEF id_to_send
  <1>5. CASE r = remote_of[e] /\ q # <<>>
    <2>1. pending_subscriptions_by_remote'[r] = Append(q, new)
      BY <1>1, <1>2, <1>5, Zenon DEF EventgroupTypeOK
    <2>2. Head(Append(q, new)) = Head(q)
      BY <1>5
    <2> QED BY <1>2, <1>5, <2>1, <2>2, Zenon
  <1> QED BY <1>2, <1>3, <1>4, <1>5, Zenon

\* Without crossing, entries and expirations find the service announced.
LEMMA Announced ==
    ASSUME CrossingSd = FALSE, InStep
    PROVE  announced
  BY Zenon DEF InStep

\* An (un)subscription becomes pending and is sent, or will be by its thread.
LEMMA FrontSent ==
    ASSUME Inv, FrontInv, CrossingSd = FALSE, InStep,
           NEW e \in Endpoint, NEW ttl \in {0, 1}, NEW c \in Client,
           add_pending_subscription(e, ttl, c), IdsOutlast,
           \/ send_command(id_to_send(e), ttl, c) /\ UNCHANGED <<unsubscribing, unsent>>
           \/ /\ UNCHANGED <<toClient, unsent>> /\ unsubscribing = {}
              /\ \E u \in unsubscribing' : u.id = id_to_send(e)
           \/ keep_command(id_to_send(e), ttl, c) /\ UNCHANGED <<toClient, unsubscribing>>,
           UNCHANGED <<asked, fromClient, offered, alive, announced>>
    PROVE  FrontInv'
  <1>1. EventgroupTypeOK /\ toClient \in Seq(ClientCommand)
    BY Zenon DEF Inv, TypeOK, EventgroupTypeOK
  <1>2. announced
    BY Announced, Zenon
  <1>3. PICK new \in Id :
          /\ new = next_id(subscription_id)
          /\ pending_subscriptions_by_remote' =
               [pending_subscriptions_by_remote EXCEPT ![remote_of[e]] = Append(@, new)]
    BY <1>1, PendingAdded, Zenon
  <1>4. id_to_send(e) \in {new, DEFAULT_SUBSCRIPTION}
    BY <1>3, Zenon DEF id_to_send
  <1>5. new # DEFAULT_SUBSCRIPTION
    BY DEF Id, DEFAULT_SUBSCRIPTION
  <1>6. /\ NoneLost({})
        /\ offered /\ alive /\ id_to_send(e) = new => new \in Outstanding'
    <2>1. CASE send_command(id_to_send(e), ttl, c) /\ UNCHANGED <<unsubscribing, unsent>>
      <3>1. /\ \A i \in DOMAIN toClient : i \in DOMAIN toClient' /\ toClient'[i] = toClient[i]
            /\ offered /\ alive /\ id_to_send(e) # DEFAULT_SUBSCRIPTION =>
                 \E i \in DOMAIN toClient' : toClient'[i].id = id_to_send(e)
        BY <1>1, <1>4, <2>1, CommandSent
      <3>2. NoneLost({})
        BY <2>1, <3>1, OutstandingIntroNext, Zenon DEF NoneLost
      <3> QED BY <1>5, <3>1, <3>2, OutstandingIntroNext, Zenon
    <2>2. CASE /\ UNCHANGED <<toClient, unsent>> /\ unsubscribing = {}
               /\ \E u \in unsubscribing' : u.id = id_to_send(e)
      BY <2>2, OutstandingIntroNext, Zenon DEF NoneLost
    <2>3. CASE /\ keep_command(id_to_send(e), ttl, c)
               /\ UNCHANGED <<toClient, unsubscribing>>
      <3>1. unsent \subseteq unsent'
        BY <2>3, Zenon DEF keep_command
      <3>2. id_to_send(e) = new => \E u \in unsent' : u.id = new
        <4>1. PICK u : u = [ttl |-> ttl, id |-> new, client |-> c]
          BY Zenon
        <4>2. u.id = new
          BY <4>1, Zenon
        <4> QED BY <1>5, <2>3, <4>1, <4>2, Zenon DEF keep_command
      <3> QED BY <2>3, <3>1, <3>2, OutstandingIntroNext, Zenon DEF NoneLost
    <2> QED BY <2>1, <2>2, <2>3, Zenon
  <1>7. FrontIsUnderWay'
    <2>1. ASSUME alive', offered', NEW r \in Remote,
                 pending_subscriptions_by_remote'[r] # <<>>
          PROVE  \/ Head(pending_subscriptions_by_remote'[r]) \in Outstanding'
                 \/ /\ pending_subscriptions_by_remote[r] # <<>>
                    /\ Head(pending_subscriptions_by_remote'[r])
                         = Head(pending_subscriptions_by_remote[r])
      BY <1>1, <1>3, <1>6, <2>1, FrontAdded, Zenon
    <2> QED BY <1>6, <2>1, FrontKept, Zenon DEF FrontInv
  <1>8. Quiet'
    BY <1>2, Zenon DEF FrontInv, Quiet
  <1> QED BY <1>7, <1>8, Zenon DEF FrontInv

\* The answer to a front removes it, and the next front is sent.
LEMMA FrontReplaced ==
    ASSUME Inv, FrontInv, NEW id, is_front(id), NEW n \in DOMAIN queue_of(id),
           removes(id, n), remove_pending_subscription(id, n),
           \/ send_front(remaining_queue(id, n)) /\ unsent' = unsent
           \/ keep_front(remaining_queue(id, n)) /\ toClient' = toClient,
           NEW S, S \subseteq {id},
           \A i \in DOMAIN fromClient :
              fromClient[i] \in Answer => fromClient[i].id \in Outstanding' \cup S,
           UNCHANGED <<subscription_id, asked, unsubscribing, offered, alive, announced>>
    PROVE  FrontInv'
  <1> DEFINE q == pending_subscriptions_by_remote
             rest == remaining_queue(id, n)
  <1>1. PICK r0 \in Remote : r0 = remote_of_id(id)
    BY ConstantsAssumption, Zenon DEF Inv, TypeOK, is_front, remote_of_id, PendingSubscription
  <1>2. /\ q \in [Remote -> Seq(Id)] /\ toClient \in Seq(ClientCommand)
        /\ EventgroupTypeOK /\ QueuesMatchPending
    BY Zenon DEF Inv, TypeOK, EventgroupTypeOK
  <1>3. q' = [q EXCEPT ![r0] = rest]
    BY <1>1, Zenon DEF remove_pending_subscription
  <1>4. queue_of(id) \in Seq(Id) /\ n \in 1 .. Len(queue_of(id))
    BY <1>1, <1>2 DEF queue_of
  <1>5. rest \in Seq(Id)
    BY <1>4, SuffixProperties, Zenon DEF remaining_queue
  <1>6. rest # <<>> => /\ Head(rest) \in DOMAIN pending_subscriptions
                       /\ Head(rest) \in Id /\ Head(rest) # DEFAULT_SUBSCRIPTION
                       /\ pending_subscriptions[Head(rest)].ttl \in {0, 1}
                       /\ pending_subscriptions[Head(rest)].client \in Client
    <2>1. rest # <<>> => Head(rest) \in DOMAIN pending_subscriptions
      BY <1>2, RemovePending, Zenon
    <2> QED BY <1>2, <2>1 DEF EventgroupTypeOK, PendingSubscription, Id, DEFAULT_SUBSCRIPTION
  <1>7. /\ \A i \in DOMAIN toClient : i \in DOMAIN toClient' /\ toClient'[i] = toClient[i]
        /\ unsent \subseteq unsent'
        /\ offered /\ alive /\ rest # <<>> => Head(rest) \in Outstanding'
    <2>1. CASE rest = <<>>
      BY <2>1, Zenon DEF send_front, keep_front
    <2>2. CASE rest # <<>> /\ send_front(rest) /\ unsent' = unsent
      <3>1. PICK h \in Id, ttl \in {0, 1}, c \in Client :
              /\ h = Head(rest) /\ ttl = pending_subscriptions[Head(rest)].ttl
              /\ c = pending_subscriptions[Head(rest)].client
        BY <1>6, <2>2, Zenon
      <3>2. send_command(h, ttl, c) /\ h \in Id /\ h # DEFAULT_SUBSCRIPTION
        BY <1>6, <2>2, <3>1, Zenon DEF send_front
      <3>3. /\ \A i \in DOMAIN toClient :
                 i \in DOMAIN toClient' /\ toClient'[i] = toClient[i]
            /\ offered /\ alive => \E i \in DOMAIN toClient' : toClient'[i].id = h
        BY <1>2, <3>2, CommandSent
      <3> QED BY <2>2, <3>1, <3>3, OutstandingIntroNext, Zenon
    <2>3. CASE rest # <<>> /\ keep_front(rest) /\ toClient' = toClient
      <3>1. PICK u : u = [ttl |-> 1, id |-> Head(rest),
                          client |-> pending_subscriptions[Head(rest)].client]
        BY Zenon
      <3>2. unsent' = unsent \cup {u} /\ u.id = Head(rest)
        BY <1>6, <2>3, <3>1, Zenon DEF keep_front, keep_command
      <3> QED BY <2>3, <3>2, OutstandingIntroNext, Zenon
    <2> QED BY <2>1, <2>2, <2>3, Zenon
  <1>8. NoneLost(S)
    BY <1>7, OutstandingIntroNext, Zenon DEF NoneLost
  <1>9. ASSUME offered, alive, NEW r \in Remote, q'[r] # <<>>
        PROVE  \/ Head(q'[r]) \in Outstanding'
               \/ q[r] # <<>> /\ Head(q'[r]) = Head(q[r]) /\ Head(q[r]) \notin S
    <2>1. CASE r = r0
      <3>1. q'[r] = rest
        BY <1>2, <1>3, <2>1, Zenon
      <3> QED BY <1>7, <1>9, <3>1, Zenon
    <2>2. CASE r # r0
      <3>1. q'[r] = q[r]
        BY <1>2, <1>3, <2>2, Zenon
      <3>2. q[r] \in Seq(Id) /\ 1 \in DOMAIN q[r] /\ Head(q[r]) = q[r][1]
        BY <1>2, <1>9, <3>1
      <3>3. remote_of_id(q[r][1]) = r
        BY <1>2, <3>2, Zenon DEF QueuesMatchPending
      <3> QED BY <1>1, <1>9, <2>2, <3>1, <3>2, <3>3, Zenon
    <2> QED BY <2>1, <2>2, Zenon
  <1>10. FrontIsUnderWay'
    <2> HIDE DEF rest
    <2> QED BY <1>8, <1>9, FrontKept, Zenon DEF FrontInv
  <1>11. Quiet'
    <2>1. announced
      <3>1. q[r0] # <<>>
        BY <1>1, Zenon DEF is_front, queue_of
      <3> QED BY <3>1, Zenon DEF FrontInv, Quiet
    <2> QED BY <2>1, Zenon DEF FrontInv, Quiet
  <1> QED BY <1>10, <1>11, Zenon DEF FrontInv

\* An answer that is not about a front is no front's answer.
LEMMA FrontNotAnswered ==
    ASSUME Inv, FrontInv, NEW id, ~is_front(id), NoneLost({id}),
           UNCHANGED <<pending_subscriptions_by_remote, offered, alive, announced>>
    PROVE  FrontInv'
  <1> DEFINE q == pending_subscriptions_by_remote
  <1>1. ASSUME NEW r \in Remote, q[r] # <<>>
        PROVE  Head(q[r]) # id
    <2>1. q[r] \in Seq(Id) /\ 1 \in DOMAIN q[r] /\ Head(q[r]) = q[r][1]
      BY <1>1 DEF Inv, TypeOK
    <2>2. q[r][1] \in DOMAIN pending_subscriptions /\ remote_of_id(q[r][1]) = r
      BY <2>1, Zenon DEF Inv, QueuesMatchPending
    <2> QED BY <1>1, <2>1, <2>2, Zenon DEF is_front, queue_of
  <1>2. FrontIsUnderWay'
    BY <1>1, FrontKept, Zenon DEF FrontInv
  <1> QED BY <1>2, Zenon DEF FrontInv, Quiet

\* A service that is no longer offered has nothing pending.
LEMMA FrontStop ==
    ASSUME FrontInv, on_stop_offer_service
    PROVE  FrontInv'
  <1>1. ~offered' /\ ~announced'
    BY Zenon DEF on_stop_offer_service
  <1>2. \A r \in Remote : pending_subscriptions_by_remote'[r] = <<>>
    BY Zenon DEF on_stop_offer_service, clear_pending_subscriptions, FrontInv, Quiet
  <1> QED BY <1>1, <1>2, Zenon DEF FrontInv, FrontIsUnderWay, Quiet

\* Reading the client's connection only loses the command that is read.
LEMMA FrontRead ==
    ASSUME TypeOK, fromClient # <<>>, fromClient' = Tail(fromClient),
           NEW i \in DOMAIN fromClient, fromClient[i] \in Answer
    PROVE  \/ fromClient[i].id \in Outstanding'
           \/ Head(fromClient) \in Answer /\ fromClient[i].id = Head(fromClient).id
  <1>1. fromClient \in Seq(Answer \cup OfferCommand)
    BY Zenon DEF TypeOK
  <1>2. \/ fromClient[i] = Head(fromClient)
        \/ \E j \in DOMAIN fromClient' : fromClient'[j] = fromClient[i]
    BY <1>1, TailElements, Zenon
  <1> QED BY <1>2, OutstandingIntroNext, Zenon

\* Every command of the client keeps FrontInv.
LEMMA FrontMessage ==
    ASSUME Inv, FrontInv, on_message
    PROVE  FrontInv'
  <1> DEFINE m == Head(fromClient)
  <1>1. /\ fromClient # <<>> /\ fromClient' = Tail(fromClient)
        /\ UNCHANGED <<subscription_id, unsubscribing, clientVars>>
    BY Zenon DEF on_message
  <1>2. UNCHANGED <<subscription_id, asked, unsubscribing, alive>>
    BY <1>1, Zenon DEF clientVars
  <1>3. \A i \in DOMAIN fromClient : fromClient[i] \in Answer =>
           \/ fromClient[i].id \in Outstanding'
           \/ m \in Answer /\ fromClient[i].id = m.id
    BY <1>1, FrontRead, Zenon DEF Inv
  <1>4. ASSUME UNCHANGED <<toClient, unsent>> PROVE NoneLost({m.id})
    BY <1>2, <1>3, <1>4, OutstandingIntroNext, Zenon DEF NoneLost
  <1>5. CASE on_subscribe_ack(m.id, m.client) /\ UNCHANGED <<offered, announced, unsent>>
    <2>1. CASE is_front(m.id)
      <3>1. PICK n \in DOMAIN queue_of(m.id) :
              /\ removes(m.id, n)
              /\ remove_pending_subscription(m.id, n)
              /\ send_front(remaining_queue(m.id, n))
        BY <1>5, <2>1, Zenon DEF on_subscribe_ack
      <3> QED BY <1>2, <1>3, <1>5, <2>1, <3>1, FrontReplaced, Zenon
    <2>2. CASE ~is_front(m.id)
      <3>1. UNCHANGED <<pending_subscriptions_by_remote, toClient>>
        BY <1>5, <2>2, Zenon DEF on_subscribe_ack
      <3> QED BY <1>2, <1>4, <1>5, <2>2, <3>1, FrontNotAnswered, Zenon
    <2> QED BY <2>1, <2>2
  <1>6. CASE on_subscribe_nack(m.id, m.client) /\ UNCHANGED <<offered, announced, unsent>>
    <2>1. CASE is_front(m.id)
      <3>1. PICK n \in DOMAIN queue_of(m.id) :
              /\ removes(m.id, n)
              /\ remove_pending_subscription(m.id, n)
              /\ send_front(remaining_queue(m.id, n))
        BY <1>6, <2>1, Zenon DEF on_subscribe_nack
      <3> QED BY <1>2, <1>3, <1>6, <2>1, <3>1, FrontReplaced, Zenon
    <2>2. CASE ~is_front(m.id)
      <3>1. UNCHANGED <<pending_subscriptions_by_remote, toClient>>
        BY <1>6, <2>2, Zenon DEF on_subscribe_nack
      <3> QED BY <1>2, <1>4, <1>6, <2>2, <3>1, FrontNotAnswered
    <2> QED BY <2>1, <2>2
  <1>7. CASE on_unsubscribe_ack(m.id) /\ UNCHANGED <<offered, announced>>
    <2>1. CASE is_front(m.id)
      <3>1. PICK n \in DOMAIN queue_of(m.id) :
              /\ removes(m.id, n)
              /\ remove_pending_subscription(m.id, n)
              /\ keep_front(remaining_queue(m.id, n))
        BY <1>7, <2>1, Zenon DEF on_unsubscribe_ack
      <3>2. toClient' = toClient
        BY <1>7, Zenon DEF on_unsubscribe_ack
      <3> QED BY <1>2, <1>3, <1>7, <2>1, <3>1, <3>2, FrontReplaced, Zenon
    <2>2. CASE ~is_front(m.id)
      <3>1. UNCHANGED <<pending_subscriptions_by_remote, toClient, unsent>>
        BY <1>7, <2>2, Zenon DEF on_unsubscribe_ack
      <3> QED BY <1>2, <1>4, <1>7, <2>2, <3>1, FrontNotAnswered, Zenon
    <2> QED BY <2>1, <2>2
  <1>8. CASE /\ m.command = "OFFER_SERVICE" /\ offered' = TRUE
             /\ UNCHANGED <<pending_subscriptions_by_remote, toClient, announced, unsent>>
    <2>1. m \notin Answer
      BY <1>8, Zenon DEF Answer
    <2>2. NoneLost({})
      BY <1>2, <1>3, <1>8, <2>1, OutstandingIntroNext, Zenon DEF NoneLost
    <2>3. CASE offered
      BY <1>2, <1>8, <2>2, <2>3, FrontUnchanged, Zenon DEF FrontInv, Quiet
    <2>4. CASE ~offered
      BY <1>8, <2>4, Zenon DEF FrontInv, FrontIsUnderWay, Quiet
    <2> QED BY <2>3, <2>4, Zenon
  <1>9. CASE on_stop_offer_service
    BY <1>9, FrontStop, Zenon
  <1> QED BY <1>5, <1>6, <1>7, <1>8, <1>9, Zenon DEF on_message

\* The client's steps move ids on, and lose none while it lives.
LEMMA FrontClient ==
    ASSUME Inv, FrontInv, ClientStep
    PROVE  FrontInv'
  <1>1. ClientUnchanged
    BY Zenon DEF ClientStep, offer_service, stop_offer_service, on_subscribe_command,
           subscription_accepted_cbk, on_unsubscribe_command, Crash, Restart
  <1>2. /\ UNCHANGED <<pending_subscriptions_by_remote, offered, announced, unsubscribing,
                       unsent>>
        /\ Quiet'
    BY <1>1, Zenon DEF ClientUnchanged, eventgroup, sd, expiry, FrontInv, Quiet
  <1>3. /\ toClient \in Seq(ClientCommand)
        /\ fromClient \in Seq(Answer \cup OfferCommand)
    BY Zenon DEF Inv, TypeOK
  <1>4. ASSUME alive', offered, NoneLost({}) PROVE FrontInv'
    <2>1. alive
      BY <1>4, Zenon DEF ClientStep, offer_service, stop_offer_service, on_subscribe_command,
                  subscription_accepted_cbk, on_unsubscribe_command, Crash, Restart
    <2> QED BY <1>2, <1>4, <2>1, FrontUnchanged, Zenon DEF FrontInv
  <1>5. ASSUME NEW m \in Answer \cup OfferCommand, fromClient' = Append(fromClient, m)
        PROVE  /\ \A i \in DOMAIN fromClient :
                    fromClient[i] \in Answer => fromClient[i].id \in Outstanding'
               /\ m \in Answer => m.id \in Outstanding'
    <2>1. /\ \A i \in DOMAIN fromClient : i \in DOMAIN fromClient'
                                          /\ fromClient'[i] = fromClient[i]
          /\ \E i \in DOMAIN fromClient' : fromClient'[i] = m
      BY <1>3, <1>5, AppendElements
    <2> QED BY <2>1, OutstandingIntroNext, Zenon
  <1>6. CASE ~alive' \/ ~offered
    BY <1>2, <1>6, Zenon DEF FrontInv, FrontIsUnderWay
  <1>7. ASSUME offer_service \/ stop_offer_service, alive', offered PROVE FrontInv'
    <2>1. PICK m \in OfferCommand : fromClient' = Append(fromClient, m)
      BY <1>7, Zenon DEF offer_service, stop_offer_service, OfferCommand
    <2>2. UNCHANGED <<asked, toClient>>
      BY <1>7, Zenon DEF offer_service, stop_offer_service
    <2>3. NoneLost({})
      BY <1>2, <1>5, <2>1, <2>2, OutstandingIntroNext, Zenon DEF NoneLost
    <2> QED BY <1>4, <1>7, <2>3, Zenon
  <1>8. ASSUME on_subscribe_command, alive', offered PROVE FrontInv'
    <2>1. /\ toClient # <<>> /\ toClient' = Tail(toClient)
          /\ asked' = asked \cup {[id |-> Head(toClient).id,
                                   client |-> Head(toClient).client]}
          /\ UNCHANGED fromClient
      BY <1>8, Zenon DEF on_subscribe_command
    <2>2. \A i \in DOMAIN toClient : \/ toClient[i] = Head(toClient)
                                     \/ \E j \in DOMAIN toClient' : toClient'[j] = toClient[i]
      BY <1>3, <2>1, TailElements, Zenon
    <2>3. Head(toClient).id \in Outstanding'
      <3>1. PICK a : a = [id |-> Head(toClient).id, client |-> Head(toClient).client]
        BY Zenon
      <3>2. a \in asked' /\ a.id = Head(toClient).id
        BY <2>1, <3>1, Zenon
      <3> QED BY <3>2, OutstandingIntroNext, Zenon
    <2>4. \A i \in DOMAIN toClient : toClient[i].id \in Outstanding'
      BY <2>2, <2>3, OutstandingIntroNext, Zenon
    <2>5. \A a \in asked : a.id \in Outstanding'
      BY <2>1, OutstandingIntroNext, Zenon
    <2>6. NoneLost({})
      BY <1>2, <2>1, <2>4, <2>5, OutstandingIntroNext, Zenon DEF NoneLost
    <2> QED BY <1>4, <1>8, <2>6, Zenon
  <1>9. ASSUME NEW a \in asked, NEW command \in {"SUBSCRIBE_ACK", "SUBSCRIBE_NACK"},
               subscription_accepted_cbk(a, command), alive', offered
        PROVE  FrontInv'
    <2>1. PICK m : m = [command |-> command, id |-> a.id, client |-> a.client]
      BY Zenon
    <2>2. m \in Answer /\ m.id = a.id
      BY <2>1, Zenon DEF Inv, TypeOK, Answer
    <2>3. /\ fromClient' = Append(fromClient, m)
          /\ asked' = asked \ {a} /\ UNCHANGED toClient
      BY <1>9, <2>1, Zenon DEF subscription_accepted_cbk
    <2>4. /\ a.id \in Outstanding'
          /\ \A i \in DOMAIN fromClient :
               fromClient[i] \in Answer => fromClient[i].id \in Outstanding'
      BY <1>5, <2>2, <2>3, Zenon
    <2>5. \A b \in asked : b.id \in Outstanding'
      BY <2>3, <2>4, OutstandingIntroNext, Zenon
    <2>6. NoneLost({})
      BY <1>2, <2>3, <2>4, <2>5, OutstandingIntroNext, Zenon DEF NoneLost
    <2> QED BY <1>4, <1>9, <2>6, Zenon
  <1>10. ASSUME on_unsubscribe_command, alive', offered PROVE FrontInv'
    <2>1. PICK m : m = [command |-> "UNSUBSCRIBE_ACK", id |-> Head(toClient).id,
                        client |-> Head(toClient).client]
      BY Zenon
    <2>2. /\ toClient # <<>> /\ toClient' = Tail(toClient)
          /\ fromClient' = Append(fromClient, m) /\ UNCHANGED asked
      BY <1>10, <2>1, Zenon DEF on_unsubscribe_command
    <2>3. /\ Head(toClient) \in ClientCommand
          /\ \A i \in DOMAIN toClient : \/ toClient[i] = Head(toClient)
                                        \/ \E j \in DOMAIN toClient' :
                                             toClient'[j] = toClient[i]
      BY <1>3, <2>2, TailElements, Zenon
    <2>4. m \in Answer /\ m.id = Head(toClient).id
      BY <2>1, <2>3, Zenon DEF Answer, ClientCommand
    <2>5. /\ Head(toClient).id \in Outstanding'
          /\ \A i \in DOMAIN fromClient :
               fromClient[i] \in Answer => fromClient[i].id \in Outstanding'
      BY <1>5, <2>2, <2>4, Zenon
    <2>6. \A i \in DOMAIN toClient : toClient[i].id \in Outstanding'
      BY <2>3, <2>5, OutstandingIntroNext, Zenon
    <2>7. NoneLost({})
      BY <1>2, <2>2, <2>5, <2>6, OutstandingIntroNext, Zenon DEF NoneLost
    <2> QED BY <1>4, <1>10, <2>7
  <1>11. Crash \/ Restart => ~alive' \/ ~offered
    BY Zenon DEF Crash, Restart
  <1> QED BY <1>6, <1>7, <1>8, <1>9, <1>10, <1>11, Zenon DEF ClientStep

\* A command that was kept is sent to the living client.
LEMMA FrontKeptSent ==
    ASSUME Inv, FrontInv, KeptSent, NEW u \in unsent, unsent' = unsent \ {u},
           \/ toClient' = toClient /\ ~alive
           \/ toClient' = Append(toClient, u)
           \/ send_command(u.id, u.ttl, u.client)
    PROVE  FrontInv'
  <1>1. UNCHANGED <<pending_subscriptions_by_remote, unsubscribing, announced, offered,
                    fromClient, asked, alive>>
    BY Zenon DEF KeptSent, eventgroup, clientVars
  <1>2. /\ u \in ClientCommand /\ u.id \in Id /\ u.ttl \in {0, 1} /\ u.client \in Client
        /\ toClient \in Seq(ClientCommand)
    BY Zenon DEF Inv, TypeOK, ClientCommand
  <1>3. CASE ~offered \/ ~alive
    BY <1>1, <1>3, Zenon DEF FrontInv, FrontIsUnderWay, Quiet
  <1>4. CASE offered /\ alive
    <2>1. u.id # DEFAULT_SUBSCRIPTION
      BY <1>2 DEF Id, DEFAULT_SUBSCRIPTION
    <2>2. /\ \A i \in DOMAIN toClient : i \in DOMAIN toClient' /\ toClient'[i] = toClient[i]
          /\ \E i \in DOMAIN toClient' : toClient'[i].id = u.id
      <3>1. CASE toClient' = Append(toClient, u)
        BY <1>2, <3>1, AppendElements
      <3>2. CASE send_command(u.id, u.ttl, u.client)
        BY <1>2, <1>4, <2>1, <3>2, CommandSent, Zenon
      <3> QED BY <1>4, <3>1, <3>2, Zenon
    <2>3. NoneLost({})
      <3>1. \A v \in unsent : v \in unsent' \/ v.id = u.id
        BY Zenon
      <3> QED BY <1>1, <2>2, <3>1, OutstandingIntroNext, Zenon DEF NoneLost
    <2> QED BY <1>1, <2>3, FrontUnchanged, Zenon DEF FrontInv, Quiet
  <1> QED BY <1>3, <1>4, Zenon

\* Every step keeps FrontInv when service discovery's work does not cross the
\* stop of the service.
LEMMA FrontNext ==
    ASSUME Inv, AckInv, FrontInv, CrossingSd = FALSE, [Next]_vars
    PROVE  FrontInv'
  <1>1. CASE SdStep
    <2>1. \A e \in Endpoint : clients_of[e] \subseteq Client
      BY ConstantsAssumption, Zenon
    <2>2. ASSUME NEW e \in Endpoint, NEW c \in clients_of[e],
                 on_remote_subscription(e, c), IdsOutlast
          PROVE  FrontInv'
      <3>1. /\ InStep
            /\ UNCHANGED <<unsubscribing, unsent, announced, offered, fromClient, asked,
                           alive>>
        BY <2>2, Zenon DEF on_remote_subscription, EntryMayArrive, clientVars, expiry
      <3>2. CASE add_pending_subscription(e, 1, c) /\ send_command(id_to_send(e), 1, c)
        BY <2>1, <2>2, <3>1, <3>2, FrontSent, Zenon
      <3>3. CASE UNCHANGED <<eventgroup, toClient>>
        <4>1. NoneLost({})
          BY <3>1, <3>3, OutstandingIntroNext, Zenon DEF NoneLost
        <4> QED BY <3>1, <3>3, <4>1, FrontUnchanged, Zenon DEF eventgroup, FrontInv, Quiet
      <3> QED BY <2>2, <3>2, <3>3, Zenon DEF on_remote_subscription
    <2>3. ASSUME NEW e \in Endpoint, NEW c \in clients_of[e], on_unsubscribe(e, c),
                 IdsOutlast
          PROVE  FrontInv'
      <3>1. /\ InStep /\ unsubscribing = {} /\ add_pending_subscription(e, 0, c)
            /\ unsubscribing' = {[subscriber |-> e, id |-> id_to_send(e), client |-> c]}
            /\ UNCHANGED <<announced, offered, unsent, toClient, fromClient, asked, alive>>
        BY <2>3, Zenon DEF on_unsubscribe, EntryMayArrive, SdReady, clientVars, expiry
      <3>2. \E u \in unsubscribing' : u.id = id_to_send(e)
        BY <3>1, Zenon
      <3> QED BY <2>1, <2>3, <3>1, <3>2, FrontSent, Zenon
    <2>4. ASSUME NEW e \in Endpoint, NEW c \in clients_of[e],
                 expire_subscriptions_queue(e, c), IdsOutlast
          PROVE  FrontInv'
      <3>1. UNCHANGED <<unsubscribing, announced, offered, toClient, fromClient, asked, alive>>
        BY <2>4, Zenon DEF expire_subscriptions_queue, clientVars
      <3>2. CASE InStep /\ add_pending_subscription(e, 0, c) /\ keep_command(id_to_send(e), 0, c)
        BY <2>1, <2>4, <3>1, <3>2, FrontSent, Zenon
      <3>3. CASE UNCHANGED <<pending_subscriptions_by_remote, unsent>>
        <4>1. NoneLost({})
          BY <3>1, <3>3, OutstandingIntroNext, Zenon DEF NoneLost
        <4> QED BY <3>1, <3>3, <4>1, FrontUnchanged, Zenon DEF FrontInv, Quiet
      <3> QED BY <2>4, <3>2, <3>3, Zenon DEF expire_subscriptions_queue
    <2>5. CASE on_unsubscribe_send
      <3>1. PICK u \in unsubscribing : send_command(u.id, 0, u.client)
        BY <2>5, Zenon DEF on_unsubscribe_send
      <3>2. UNCHANGED <<pending_subscriptions_by_remote, unsent, announced, offered,
                        fromClient, asked, alive>>
        BY <2>5, Zenon DEF on_unsubscribe_send, clientVars, expiry
      <3>3. /\ u.id \in Id \cup {DEFAULT_SUBSCRIPTION} /\ u.client \in Client
            /\ toClient \in Seq(ClientCommand)
        BY Zenon DEF Inv, TypeOK
      <3>4. /\ \A i \in DOMAIN toClient :
                 i \in DOMAIN toClient' /\ toClient'[i] = toClient[i]
            /\ offered /\ alive /\ u.id # DEFAULT_SUBSCRIPTION =>
                 \E i \in DOMAIN toClient' : toClient'[i].id = u.id
        BY <3>1, <3>3, CommandSent, Zenon
      <3>5. \A v \in unsubscribing : v.id = u.id
        BY Zenon DEF AckInv, Gone
      <3>6. CASE ~offered \/ ~alive
        BY <3>2, <3>6, Zenon DEF FrontInv, FrontIsUnderWay, Quiet
      <3>7. CASE offered /\ alive
        <4>1. \A v \in unsubscribing : v.id \in Outstanding' \cup {DEFAULT_SUBSCRIPTION}
          BY <3>4, <3>5, <3>7, OutstandingIntroNext, Zenon
        <4>2. NoneLost({DEFAULT_SUBSCRIPTION})
          BY <3>2, <3>4, <4>1, OutstandingIntroNext, Zenon DEF NoneLost
        <4>3. ~is_front(DEFAULT_SUBSCRIPTION)
          BY DEF is_front, Inv, TypeOK, Id, DEFAULT_SUBSCRIPTION
        <4> QED BY <3>2, <4>2, <4>3, FrontNotAnswered, Zenon
      <3> QED BY <3>6, <3>7, Zenon
    <2>6. ASSUME NEW e \in Endpoint,
                 expire_subscriptions(e) \/ expire_subscriptions_remove(e)
          PROVE  FrontInv'
      <3>1. UNCHANGED <<pending_subscriptions_by_remote, unsubscribing, unsent, announced,
                        offered, toClient, fromClient, asked, alive>>
        BY <2>6, Zenon
           DEF expire_subscriptions, expire_subscriptions_remove, clientVars, eventgroup
      <3>2. NoneLost({})
        BY <3>1, OutstandingIntroNext, Zenon DEF NoneLost
      <3> QED BY <3>1, <3>2, FrontUnchanged, Zenon DEF FrontInv, Quiet
    <2>7. CASE Announce
      <3>1. /\ offered /\ announced'
            /\ UNCHANGED <<pending_subscriptions_by_remote, unsubscribing, unsent, offered,
                           toClient, fromClient, asked, alive>>
        BY <2>7, Zenon DEF Announce, clientVars, eventgroup, expiry
      <3>2. NoneLost({})
        BY <3>1, OutstandingIntroNext, Zenon DEF NoneLost
      <3> QED BY <3>1, <3>2, FrontUnchanged, Zenon DEF FrontInv, Quiet
    <2>8. ASSUME NEW id \in Id, expire_subscriptions_send(id)
          PROVE  FrontInv'
      BY <2>8, KeptIsSent, FrontKeptSent, Zenon
    <2> QED BY <1>1, <2>2, <2>3, <2>4, <2>5, <2>6, <2>7, <2>8, Zenon DEF SdStep
  <1>2. CASE Deregister
    BY <1>2, FrontStop, Zenon DEF Deregister
  <1>3. CASE UNCHANGED vars
    <2>1. UNCHANGED <<pending_subscriptions_by_remote, unsubscribing, unsent, announced,
                      offered, toClient, fromClient, asked, alive>>
      BY <1>3, Zenon DEF vars, eventgroup, sd, expiry, clientVars
    <2>2. NoneLost({})
      BY <2>1, OutstandingIntroNext, Zenon DEF NoneLost
    <2> QED BY <2>1, <2>2, FrontUnchanged, Zenon DEF FrontInv, Quiet
  <1>4. ASSUME NEW id \in Id, on_unsubscribe_ack_send(id)
        PROVE  FrontInv'
    BY <1>4, KeptIsSent, FrontKeptSent, Zenon
  <1> QED BY <1>1, <1>2, <1>3, <1>4, FrontMessage, FrontClient, Zenon DEF Next

-----------------------------------------------------------------------------
(* Service discovery waits only for what is pending *)

\* What a command says of a pending (un)subscription is what the map has.
About(id, ttl, c) ==
    id \in DOMAIN pending_subscriptions =>
        pending_subscriptions[id].ttl = ttl /\ pending_subscriptions[id].client = c

\* The same after the step.
AboutNext(id, ttl, c) ==
    id \in DOMAIN pending_subscriptions' =>
        pending_subscriptions'[id].ttl = ttl /\ pending_subscriptions'[id].client = c

\* An UNSUBSCRIBE_ACK answers an unsubscription, any other answer a subscription.
AnswerTtl(m) == IF m.command = "UNSUBSCRIBE_ACK" THEN 0 ELSE 1

\* Commands, questions and answers under way carry the kind and the client of
\* the (un)subscription they are about (send_subscription, on_message).
CommandsMatch ==
    /\ \A i \in DOMAIN toClient : About(toClient[i].id, toClient[i].ttl, toClient[i].client)
    /\ \A a \in asked : About(a.id, 1, a.client)
    /\ \A i \in DOMAIN fromClient : fromClient[i] \in Answer =>
          About(fromClient[i].id, AnswerTtl(fromClient[i]), fromClient[i].client)
    /\ \A u \in unsubscribing : About(u.id, 0, u.client)
    /\ \A u \in unsent : About(u.id, u.ttl, u.client)

\* A pending (un)subscription is kept under a client of its subscriber.
ClientsKnown ==
    \A id \in DOMAIN pending_subscriptions :
        pending_subscriptions[id].client \in clients_of[pending_subscriptions[id].subscriber]

\* get_client knows all endpoints of one remote by the same client.
OneClientPerRemote ==
    \A e, f \in Endpoint : remote_of[e] = remote_of[f] =>
        \A c \in clients_of[e], d \in clients_of[f] : c = d

\* The inductive invariant of SdWaitsForPending.
WaitsInv == SdWaitsForPending /\ CommandsMatch /\ ClientsKnown

\* Commands stay right when the (un)subscriptions they are about stay, and the
\* new ones are right.
LEMMA CommandsKept ==
    ASSUME CommandsMatch,
           \A id \in Outstanding : \A ttl, c : About(id, ttl, c) => AboutNext(id, ttl, c),
           \A i \in DOMAIN toClient' :
              \/ \E k \in DOMAIN toClient : toClient'[i] = toClient[k]
              \/ AboutNext(toClient'[i].id, toClient'[i].ttl, toClient'[i].client),
           \A a \in asked' : a \in asked \/ AboutNext(a.id, 1, a.client),
           \A i \in DOMAIN fromClient' : fromClient'[i] \in Answer =>
              \/ \E k \in DOMAIN fromClient : fromClient'[i] = fromClient[k]
              \/ AboutNext(fromClient'[i].id, AnswerTtl(fromClient'[i]), fromClient'[i].client),
           \A u \in unsubscribing' : u \in unsubscribing \/ AboutNext(u.id, 0, u.client),
           \A u \in unsent' : u \in unsent \/ AboutNext(u.id, u.ttl, u.client)
    PROVE  CommandsMatch'
  <1>1. \A i \in DOMAIN toClient :
          AboutNext(toClient[i].id, toClient[i].ttl, toClient[i].client)
    BY OutstandingIntro, Zenon DEF CommandsMatch
  <1>2. \A a \in asked : AboutNext(a.id, 1, a.client)
    BY OutstandingIntro, Zenon DEF CommandsMatch
  <1>3. \A i \in DOMAIN fromClient : fromClient[i] \in Answer =>
          AboutNext(fromClient[i].id, AnswerTtl(fromClient[i]), fromClient[i].client)
    BY OutstandingIntro, Zenon DEF CommandsMatch
  <1>4. \A u \in unsubscribing : AboutNext(u.id, 0, u.client)
    BY OutstandingIntro, Zenon DEF CommandsMatch
  <1>5. \A i \in DOMAIN toClient' :
          AboutNext(toClient'[i].id, toClient'[i].ttl, toClient'[i].client)
    BY <1>1, Zenon
  <1>6. \A a \in asked' : AboutNext(a.id, 1, a.client)
    BY <1>2, Zenon
  <1>7. \A i \in DOMAIN fromClient' : fromClient'[i] \in Answer =>
          AboutNext(fromClient'[i].id, AnswerTtl(fromClient'[i]), fromClient'[i].client)
    BY <1>3, Zenon
  <1>8. \A u \in unsubscribing' : AboutNext(u.id, 0, u.client)
    BY <1>4, Zenon
  <1>9. \A u \in unsent' : AboutNext(u.id, u.ttl, u.client)
    <2>1. \A u \in unsent : AboutNext(u.id, u.ttl, u.client)
      BY OutstandingIntro, Zenon DEF CommandsMatch
    <2> QED BY <2>1, Zenon
  <1> QED BY <1>5, <1>6, <1>7, <1>8, <1>9, Zenon DEF CommandsMatch, About, AboutNext, AnswerTtl

\* What a command says stays right while entries only leave the map.
LEMMA AboutShrinks ==
    ASSUME Shrinks
    PROVE  \A id, ttl, c : About(id, ttl, c) => AboutNext(id, ttl, c)
  BY Zenon DEF Shrinks, About, AboutNext

\* The clients stay known while entries only leave the map.
LEMMA KnownShrinks ==
    ASSUME ClientsKnown, Shrinks
    PROVE  ClientsKnown'
  BY Zenon DEF Shrinks, ClientsKnown

\* An entry that joins the map changes nothing that is under way.
LEMMA AboutGrows ==
    ASSUME NEW new, NEW e, NEW ttl, NEW c, Grows(new, e, ttl, c)
    PROVE  /\ \A id \in Outstanding : \A t, d : About(id, t, d) => AboutNext(id, t, d)
           /\ AboutNext(new, ttl, c)
  <1>1. new \notin Outstanding
    BY Zenon DEF Grows, IdIsFree
  <1>2. \A id \in Outstanding : \A t, d : About(id, t, d) => AboutNext(id, t, d)
    BY <1>1, Zenon DEF Grows, About, AboutNext
  <1>3. AboutNext(new, ttl, c)
    BY DEF Grows, AboutNext
  <1> QED BY <1>2, <1>3, Zenon

\* A new entry is kept under a client of its subscriber.
LEMMA KnownGrows ==
    ASSUME ClientsKnown, NEW new, NEW e, NEW ttl, NEW c \in clients_of[e],
           Grows(new, e, ttl, c)
    PROVE  ClientsKnown'
  BY DEF ClientsKnown, Grows

\* Service discovery keeps waiting for what stays pending.
LEMMA WaitsGrow ==
    ASSUME SdWaitsForPending, NEW new, NEW e, NEW ttl, NEW c, Grows(new, e, ttl, c),
           \/ pending_remote_subscriptions' = pending_remote_subscriptions
           \/ ttl = 1 /\ pending_remote_subscriptions' = pending_remote_subscriptions
                \cup {[client |-> c, id |-> new, subscriber |-> e]}
    PROVE  SdWaitsForPending'
  <1> SUFFICES ASSUME NEW p \in pending_remote_subscriptions'
               PROVE  /\ p.id \in DOMAIN pending_subscriptions'
                      /\ pending_subscriptions'[p.id].subscriber = p.subscriber
                      /\ pending_subscriptions'[p.id].ttl = 1
    BY Zenon DEF SdWaitsForPending
  <1>1. CASE p \in pending_remote_subscriptions
    BY <1>1, Zenon DEF Grows, SdWaitsForPending
  <1>2. CASE p = [client |-> c, id |-> new, subscriber |-> e] /\ ttl = 1
    BY <1>2 DEF Grows
  <1> QED BY <1>1, <1>2, Zenon

\* A subscription or unsubscription that becomes pending keeps WaitsInv.
LEMMA WaitsAdded ==
    ASSUME Inv, WaitsInv, NEW e \in Endpoint, NEW ttl \in {0, 1}, NEW c \in clients_of[e],
           add_pending_subscription(e, ttl, c), IdsOutlast,
           \/ pending_remote_subscriptions' = pending_remote_subscriptions
           \/ ttl = 1 /\ pending_remote_subscriptions' = pending_remote_subscriptions
                \cup {[client |-> c, id |-> subscription_id', subscriber |-> e]},
           \/ send_command(id_to_send(e), ttl, c) /\ UNCHANGED <<unsubscribing, unsent>>
           \/ /\ UNCHANGED <<toClient, unsent>> /\ ttl = 0
              /\ unsubscribing' = {[subscriber |-> e, id |-> id_to_send(e), client |-> c]}
           \/ keep_command(id_to_send(e), ttl, c) /\ UNCHANGED <<toClient, unsubscribing>>,
           UNCHANGED <<asked, fromClient>>
    PROVE  WaitsInv'
  <1>1. EventgroupTypeOK /\ toClient \in Seq(ClientCommand) /\ c \in Client
    BY ConstantsAssumption, Zenon DEF Inv, TypeOK, EventgroupTypeOK
  <1>2. PICK new \in Id : /\ new = next_id(subscription_id) /\ subscription_id' = new
                          /\ Grows(new, e, ttl, c)
    BY <1>1, PendingAdded, Zenon
  <1>3. /\ \A id \in Outstanding : \A t, d : About(id, t, d) => AboutNext(id, t, d)
        /\ AboutNext(new, ttl, c)
    BY <1>2, AboutGrows, Zenon
  <1>4. SdWaitsForPending'
    BY <1>2, WaitsGrow, Zenon DEF WaitsInv
  <1>5. ClientsKnown'
    BY <1>2, KnownGrows, Zenon DEF WaitsInv
  <1>6. id_to_send(e) \in {new, DEFAULT_SUBSCRIPTION}
    BY <1>2, Zenon DEF id_to_send
  <1>7. AboutNext(id_to_send(e), ttl, c)
    <2>1. DEFAULT_SUBSCRIPTION \notin DOMAIN pending_subscriptions'
      BY <1>1, <1>2 DEF Grows, EventgroupTypeOK, Id, DEFAULT_SUBSCRIPTION
    <2> QED BY <1>3, <1>6, <2>1, Zenon DEF AboutNext
  <1>8. /\ \A i \in DOMAIN toClient' :
             \/ \E k \in DOMAIN toClient : toClient'[i] = toClient[k]
             \/ AboutNext(toClient'[i].id, toClient'[i].ttl, toClient'[i].client)
        /\ \A u \in unsubscribing' : u \in unsubscribing \/ AboutNext(u.id, 0, u.client)
        /\ \A u \in unsent' : u \in unsent \/ AboutNext(u.id, u.ttl, u.client)
    <2>1. CASE send_command(id_to_send(e), ttl, c) /\ UNCHANGED <<unsubscribing, unsent>>
      <3>1. PICK k \in Id \cup {DEFAULT_SUBSCRIPTION} : k = id_to_send(e)
        BY <1>6, Zenon
      <3>2. \A i \in DOMAIN toClient' :
               \/ i \in DOMAIN toClient /\ toClient'[i] = toClient[i]
               \/ toClient'[i] = [ttl |-> ttl, id |-> k, client |-> c]
        <4>1. send_command(k, ttl, c)
          BY <2>1, <3>1, Zenon
        <4> QED BY <1>1, <4>1, CommandSent
      <3>3. AboutNext(k, ttl, c)
        BY <1>7, <3>1, Zenon
      <3> QED BY <2>1, <3>2, <3>3
    <2>2. CASE /\ UNCHANGED <<toClient, unsent>> /\ ttl = 0
               /\ unsubscribing' = {[subscriber |-> e, id |-> id_to_send(e), client |-> c]}
      BY <1>7, <2>2
    <2>3. CASE /\ keep_command(id_to_send(e), ttl, c)
               /\ UNCHANGED <<toClient, unsubscribing>>
      <3>1. PICK k \in Id \cup {DEFAULT_SUBSCRIPTION} : k = id_to_send(e)
        BY <1>6, Zenon
      <3>2. \A u \in unsent' : u \in unsent \/ (u.id = k /\ u.ttl = ttl /\ u.client = c)
        <4>1. keep_command(k, ttl, c) /\ unsent \subseteq ClientCommand
          BY <2>3, <3>1, Zenon DEF Inv, TypeOK
        <4> HIDE DEF DEFAULT_SUBSCRIPTION
        <4> QED BY <1>1, <4>1, KeepCommand
      <3>3. AboutNext(k, ttl, c)
        BY <1>7, <3>1, Zenon
      <3>4. \A u \in unsent' : u \in unsent \/ AboutNext(u.id, u.ttl, u.client)
        BY <3>2, <3>3, Zenon
      <3> QED BY <2>3, <3>4, Zenon
    <2> QED BY <2>1, <2>2, <2>3, Zenon
  <1>9. CommandsMatch'
    BY <1>3, <1>8, CommandsKept, Zenon DEF WaitsInv
  <1> QED BY <1>4, <1>5, <1>9, Zenon DEF WaitsInv

\* The answer to a front settles exactly the Subscribe entries whose pending
\* subscriptions it removes.
LEMMA WaitsAnswered ==
    ASSUME Inv, Matches, WaitsInv, OneClientPerRemote, NEW id, is_front(id),
           NEW n \in DOMAIN queue_of(id), removes(id, n), remove_pending_subscription(id, n),
           NEW c, pending_subscriptions[id].client = c,
           pending_remote_subscriptions' = pending_remote_subscriptions \ settled(id, n, c)
    PROVE  SdWaitsForPending'
  <1>1. /\ Shrinks
        /\ DOMAIN pending_subscriptions' =
             DOMAIN pending_subscriptions \ removed_ids(id, n)
        /\ \A i \in removed_ids(id, n) :
             /\ i \in DOMAIN pending_subscriptions
             /\ remote_of_id(i) = remote_of_id(id)
    BY PendingRemoved, Zenon
  <1>2. ASSUME NEW p \in pending_remote_subscriptions, p.id \in removed_ids(id, n)
        PROVE  p.client = c
    <2>1. /\ p.id \in DOMAIN pending_subscriptions /\ id \in DOMAIN pending_subscriptions
          /\ remote_of_id(p.id) = remote_of_id(id)
      BY <1>1, <1>2, Zenon DEF is_front
    <2>2. PICK e \in Endpoint, f \in Endpoint :
            e = pending_subscriptions[p.id].subscriber /\ f = pending_subscriptions[id].subscriber
      BY <2>1, Zenon DEF Inv, TypeOK, PendingSubscription
    <2>3. remote_of[e] = remote_of[f]
      BY <2>1, <2>2, Zenon DEF remote_of_id
    <2>4. pending_subscriptions[p.id].client \in clients_of[e] /\ c \in clients_of[f]
      BY <2>1, <2>2, Zenon DEF WaitsInv, ClientsKnown
    <2>5. pending_subscriptions[p.id].client = c
      BY <2>3, <2>4 DEF OneClientPerRemote
    <2> QED BY <2>1, <2>5, Zenon DEF Matches
  <1>3. ASSUME NEW p \in pending_remote_subscriptions'
        PROVE  p \in pending_remote_subscriptions /\ p.id \in DOMAIN pending_subscriptions'
    BY <1>1, <1>2, Zenon DEF settled, WaitsInv, SdWaitsForPending
  <1> QED BY <1>1, <1>3, Zenon DEF WaitsInv, SdWaitsForPending, Shrinks

\* The next front is sent with its own kind and client.
LEMMA WaitsFrontSent ==
    ASSUME Inv, NEW id, is_front(id), NEW n \in DOMAIN queue_of(id), removes(id, n),
           remove_pending_subscription(id, n), send_front(remaining_queue(id, n)),
           subscription_id' = subscription_id, NEW i \in DOMAIN toClient'
    PROVE  \/ \E k \in DOMAIN toClient : toClient'[i] = toClient[k]
           \/ AboutNext(toClient'[i].id, toClient'[i].ttl, toClient'[i].client)
  <1> DEFINE rest == remaining_queue(id, n)
  <1>1. toClient \in Seq(ClientCommand) /\ EventgroupTypeOK /\ QueuesMatchPending
    BY Zenon DEF Inv, TypeOK, EventgroupTypeOK
  <1>2. CASE rest = <<>>
    BY <1>2, Zenon DEF send_front
  <1>3. CASE rest # <<>>
    <2>1. Head(rest) \in DOMAIN pending_subscriptions
      BY <1>1, <1>3, RemovePending
    <2>2. PICK h \in Id, ttl \in {0, 1}, c \in Client :
            /\ h = Head(rest) /\ ttl = pending_subscriptions[Head(rest)].ttl
            /\ c = pending_subscriptions[Head(rest)].client
      BY <1>1, <2>1, Zenon DEF EventgroupTypeOK, PendingSubscription
    <2>3. send_command(h, ttl, c)
      BY <1>3, <2>2, Zenon DEF send_front
    <2>4. \/ i \in DOMAIN toClient /\ toClient'[i] = toClient[i]
          \/ toClient'[i] = [ttl |-> ttl, id |-> h, client |-> c]
      BY <1>1, <2>3, CommandSent
    <2>5. Shrinks
      BY PendingRemoved, Zenon
    <2>6. AboutNext(h, ttl, c)
      BY <2>2, <2>5, Zenon DEF Shrinks, AboutNext
    <2> QED BY <2>4, <2>6
  <1> QED BY <1>2, <1>3, Zenon

\* What follows an answered unsubscription is a subscription, and kept as one.
LEMMA WaitsFrontKept ==
    ASSUME Inv, NEW id, is_front(id), NEW n \in DOMAIN queue_of(id), removes(id, n),
           remove_pending_subscription(id, n), keep_front(remaining_queue(id, n)),
           subscription_id' = subscription_id, pending_subscriptions[id].ttl = 0,
           NEW u \in unsent'
    PROVE  u \in unsent \/ AboutNext(u.id, u.ttl, u.client)
  <1> DEFINE rest == remaining_queue(id, n)
  <1>1. unsent \subseteq ClientCommand /\ EventgroupTypeOK /\ QueuesMatchPending
    BY Zenon DEF Inv, TypeOK, EventgroupTypeOK
  <1>2. CASE rest = <<>>
    BY <1>2, Zenon DEF keep_front
  <1>3. CASE rest # <<>>
    <2>1. PICK r \in Remote : r = remote_of_id(id)
      BY ConstantsAssumption, Zenon DEF Inv, TypeOK, is_front, remote_of_id, PendingSubscription
    <2>2. PICK q \in Seq(Id) : q = queue_of(id)
      BY <2>1, Zenon DEF Inv, TypeOK, queue_of
    <2>3. /\ q[1] = id /\ n \in 1 .. Len(q)
          /\ rest = SubSeq(q, n + 1, Len(q))
      BY <2>2 DEF is_front, remaining_queue
    <2>4. n < Len(q) /\ Head(rest) = q[n + 1]
      <3>1. PICK t : t = SubSeq(q, n + 1, Len(q))
        BY Zenon
      <3>2. /\ t \in Seq(Id) /\ Len(t) = Len(q) - n
            /\ \A i \in 1 .. (Len(q) - n) : t[i] = q[n + i]
        BY <2>3, <3>1, SuffixProperties, Zenon
      <3>3. t # <<>> /\ Head(rest) = Head(t)
        BY <1>3, <2>3, <3>1, Zenon
      <3>4. n < Len(q) /\ Head(t) = q[n + 1]
        BY <2>3, <3>2, <3>3
      <3> QED BY <3>3, <3>4, Zenon
    <2>5. /\ \A i \in 1 .. n : pending_subscriptions[q[i]].ttl = pending_subscriptions[q[1]].ttl
          /\ n < Len(q) => pending_subscriptions[q[n + 1]].ttl # pending_subscriptions[q[1]].ttl
      BY <2>2, Zenon DEF removes
    <2>6. Head(rest) \in DOMAIN pending_subscriptions
      BY <1>1, <1>3, RemovePending, Zenon
    <2>7. PICK h \in Id, c \in Client :
            h = Head(rest) /\ c = pending_subscriptions[Head(rest)].client
      BY <1>1, <2>6, Zenon DEF EventgroupTypeOK, PendingSubscription
    <2>8. pending_subscriptions[h].ttl = 1
      <3>1. pending_subscriptions[h].ttl \in {0, 1}
        BY <1>1, <2>6, <2>7, Zenon DEF EventgroupTypeOK, PendingSubscription
      <3>2. pending_subscriptions[h].ttl # 0
        BY <2>3, <2>4, <2>5, <2>7, Zenon
      <3> QED BY <3>1, <3>2, Zenon
    <2>9. keep_command(h, 1, c)
      BY <1>3, <2>7, Zenon DEF keep_front
    <2>10. u \in unsent \/ (u.id = h /\ u.ttl = 1 /\ u.client = c)
      BY <1>1, <2>9, KeepCommand
    <2>11. Shrinks
      BY PendingRemoved, Zenon
    <2>12. AboutNext(h, 1, c)
      BY <2>7, <2>8, <2>11, Zenon DEF Shrinks, AboutNext
    <2> QED BY <2>10, <2>12, Zenon
  <1> QED BY <1>2, <1>3, Zenon

\* Every command of the client keeps WaitsInv.
LEMMA WaitsMessage ==
    ASSUME Inv, Matches, WaitsInv, OneClientPerRemote, on_message
    PROVE  WaitsInv'
  <1> DEFINE m == Head(fromClient)
  <1>1. /\ fromClient # <<>> /\ fromClient' = Tail(fromClient)
        /\ UNCHANGED <<subscription_id, unsubscribing, clientVars>>
    BY Zenon DEF on_message
  <1>2. UNCHANGED <<subscription_id, asked, unsubscribing>>
    BY <1>1, Zenon DEF clientVars
  <1>3. /\ fromClient \in Seq(Answer \cup OfferCommand)
        /\ 1 \in DOMAIN fromClient /\ fromClient[1] = m
        /\ \A i \in DOMAIN fromClient' :
             \E k \in DOMAIN fromClient : fromClient'[i] = fromClient[k]
    BY <1>1, TailElements DEF Inv, TypeOK
  <1>4. m \in Answer => About(m.id, AnswerTtl(m), m.client)
    BY <1>3, Zenon DEF WaitsInv, CommandsMatch
  <1>5. m.command \notin {"OFFER_SERVICE", "STOP_OFFER_SERVICE"} => m \in Answer
    BY <1>3 DEF OfferCommand
  <1>6. ASSUME Shrinks,
               \A i \in DOMAIN toClient' :
                 \/ \E k \in DOMAIN toClient : toClient'[i] = toClient[k]
                 \/ AboutNext(toClient'[i].id, toClient'[i].ttl, toClient'[i].client),
               \A u \in unsent' : u \in unsent \/ AboutNext(u.id, u.ttl, u.client)
        PROVE  CommandsMatch' /\ ClientsKnown'
    BY <1>2, <1>3, <1>6, AboutShrinks, CommandsKept, KnownShrinks, Zenon DEF WaitsInv
  <1>7. ASSUME UNCHANGED <<pending_subscriptions, pending_remote_subscriptions, toClient,
                           unsent>>
        PROVE  WaitsInv'
    <2>1. Shrinks
      BY <1>7, Zenon DEF Shrinks
    <2>2. CommandsMatch' /\ ClientsKnown'
      BY <1>6, <1>7, <2>1, Zenon
    <2> QED BY <1>7, <2>2, Zenon DEF WaitsInv, SdWaitsForPending
  <1>8. ASSUME m \in Answer, is_front(m.id), NEW n \in DOMAIN queue_of(m.id),
               removes(m.id, n), remove_pending_subscription(m.id, n),
               send_front(remaining_queue(m.id, n)), unsent' = unsent, SdWaitsForPending'
        PROVE  WaitsInv'
    <2>1. Shrinks
      BY <1>8, PendingRemoved, Zenon
    <2>2. \A i \in DOMAIN toClient' :
             \/ \E k \in DOMAIN toClient : toClient'[i] = toClient[k]
             \/ AboutNext(toClient'[i].id, toClient'[i].ttl, toClient'[i].client)
      BY <1>2, <1>8, WaitsFrontSent, Zenon
    <2> QED BY <1>6, <1>8, <2>1, <2>2, Zenon DEF WaitsInv
  <1>9. ASSUME m \in Answer,
               is_front(m.id), NEW n \in DOMAIN queue_of(m.id), NEW outcome,
               removes(m.id, n), remove_pending_subscription(m.id, n),
               settle(m.id, n, m.client, outcome), send_front(remaining_queue(m.id, n)),
               unsent' = unsent
        PROVE  WaitsInv'
    <2>1. pending_subscriptions[m.id].client = m.client
      BY <1>4, <1>9, Zenon DEF About, is_front
    <2>2. pending_remote_subscriptions' =
            pending_remote_subscriptions \ settled(m.id, n, m.client)
      BY <1>9, Zenon DEF settle
    <2>3. SdWaitsForPending'
      BY <1>9, <2>1, <2>2, WaitsAnswered, Zenon
    <2> QED BY <1>8, <1>9, <2>3, Zenon
  <1>10. CASE m.command \notin {"OFFER_SERVICE", "STOP_OFFER_SERVICE"}
              /\ on_subscribe_ack(m.id, m.client) /\ unsent' = unsent
    <2>1. CASE is_front(m.id)
      <3>1. PICK n \in DOMAIN queue_of(m.id) :
              /\ removes(m.id, n)
              /\ remove_pending_subscription(m.id, n)
              /\ settle(m.id, n, m.client, "acknowledged")
              /\ send_front(remaining_queue(m.id, n))
        BY <1>10, <2>1, Zenon DEF on_subscribe_ack
      <3> QED BY <1>5, <1>9, <1>10, <2>1, <3>1, Zenon
    <2>2. CASE ~is_front(m.id)
      BY <1>7, <1>10, <2>2, Zenon DEF on_subscribe_ack
    <2> QED BY <2>1, <2>2, Zenon
  <1>11. CASE m.command \notin {"OFFER_SERVICE", "STOP_OFFER_SERVICE"}
              /\ on_subscribe_nack(m.id, m.client) /\ unsent' = unsent
    <2>1. CASE is_front(m.id)
      <3>1. PICK n \in DOMAIN queue_of(m.id) :
              /\ removes(m.id, n)
              /\ remove_pending_subscription(m.id, n)
              /\ settle(m.id, n, m.client, "rejected")
              /\ send_front(remaining_queue(m.id, n))
        BY <1>11, <2>1, Zenon DEF on_subscribe_nack
      <3> QED BY <1>5, <1>9, <1>11, <2>1, <3>1, Zenon
    <2>2. CASE ~is_front(m.id)
      BY <1>7, <1>11, <2>2, Zenon DEF on_subscribe_nack
    <2> QED BY <2>1, <2>2
  <1>12. CASE m.command = "UNSUBSCRIBE_ACK" /\ on_unsubscribe_ack(m.id)
    <2>1. CASE is_front(m.id)
      <3>1. PICK n \in DOMAIN queue_of(m.id) :
              /\ removes(m.id, n)
              /\ remove_pending_subscription(m.id, n)
              /\ keep_front(remaining_queue(m.id, n))
        BY <1>12, <2>1, Zenon DEF on_unsubscribe_ack
      <3>2. /\ m \in Answer
            /\ UNCHANGED <<pending_remote_subscriptions, toClient>>
        BY <1>5, <1>12, Zenon DEF on_unsubscribe_ack
      <3>3. pending_subscriptions[m.id].ttl = 0
        BY <1>4, <1>12, <2>1, <3>2, Zenon DEF About, AnswerTtl, is_front
      <3>4. /\ Shrinks
            /\ DOMAIN pending_subscriptions' =
                 DOMAIN pending_subscriptions \ removed_ids(m.id, n)
            /\ \A i \in removed_ids(m.id, n) :
                 pending_subscriptions[i].ttl = pending_subscriptions[m.id].ttl
        BY <2>1, <3>1, PendingRemoved, Zenon
      <3>5. \A p \in pending_remote_subscriptions : p.id \in DOMAIN pending_subscriptions'
        BY <3>3, <3>4 DEF WaitsInv, SdWaitsForPending
      <3>6. SdWaitsForPending'
        BY <3>2, <3>4, <3>5, Zenon DEF WaitsInv, SdWaitsForPending, Shrinks
      <3>7. \A u \in unsent' : u \in unsent \/ AboutNext(u.id, u.ttl, u.client)
        BY <1>2, <2>1, <3>1, <3>3, WaitsFrontKept, Zenon
      <3>8. CommandsMatch' /\ ClientsKnown'
        BY <1>6, <3>2, <3>4, <3>7, Zenon
      <3> QED BY <3>6, <3>8, Zenon DEF WaitsInv
    <2>2. CASE ~is_front(m.id)
      BY <1>7, <1>12, <2>2, Zenon DEF on_unsubscribe_ack
    <2> QED BY <2>1, <2>2
  <1>13. CASE on_stop_offer_service /\ UNCHANGED unsent
    <2>1. pending_remote_subscriptions' = {} /\ UNCHANGED <<toClient, unsent>>
      BY <1>13, Zenon DEF on_stop_offer_service
    <2>2. Shrinks
      BY <1>13, Zenon DEF on_stop_offer_service, clear_pending_subscriptions, Shrinks
    <2>3. CommandsMatch' /\ ClientsKnown'
      BY <1>6, <2>1, <2>2, Zenon
    <2> QED BY <2>1, <2>3, Zenon DEF WaitsInv, SdWaitsForPending
  <1> QED BY <1>7, <1>10, <1>11, <1>12, <1>13, Zenon DEF on_message

\* The client's questions and answers carry what its commands said.
LEMMA WaitsClient ==
    ASSUME Inv, WaitsInv, ClientStep
    PROVE  WaitsInv'
  <1>1. ClientUnchanged
    BY Zenon DEF ClientStep, offer_service, stop_offer_service, on_subscribe_command,
           subscription_accepted_cbk, on_unsubscribe_command, Crash, Restart
  <1>2. UNCHANGED <<pending_subscriptions, pending_remote_subscriptions, unsubscribing,
                    unsent>>
    BY <1>1, Zenon DEF ClientUnchanged, eventgroup, sd, expiry
  <1>3. SdWaitsForPending' /\ ClientsKnown'
    BY <1>2, Zenon DEF WaitsInv, SdWaitsForPending, ClientsKnown
  <1>4. /\ toClient \in Seq(ClientCommand)
        /\ fromClient \in Seq(Answer \cup OfferCommand)
    BY DEF Inv, TypeOK
  <1>5. \A id, ttl, c : About(id, ttl, c) <=> AboutNext(id, ttl, c)
    BY <1>2, Zenon DEF About, AboutNext
  <1>6. ASSUME \A i \in DOMAIN toClient' :
                 \E k \in DOMAIN toClient : toClient'[i] = toClient[k],
               \A a \in asked' : a \in asked \/ AboutNext(a.id, 1, a.client),
               \A i \in DOMAIN fromClient' : fromClient'[i] \in Answer =>
                 \/ \E k \in DOMAIN fromClient : fromClient'[i] = fromClient[k]
                 \/ AboutNext(fromClient'[i].id, AnswerTtl(fromClient'[i]),
                              fromClient'[i].client)
        PROVE  WaitsInv'
    <2>1. CommandsMatch'
      BY <1>2, <1>5, <1>6, CommandsKept, Zenon DEF WaitsInv
    <2> QED BY <1>3, <2>1, Zenon DEF WaitsInv
  <1>7. ASSUME NEW m \in Answer \cup OfferCommand, fromClient' = Append(fromClient, m),
               m \in Answer => AboutNext(m.id, AnswerTtl(m), m.client)
        PROVE  \A i \in DOMAIN fromClient' : fromClient'[i] \in Answer =>
                 \/ \E k \in DOMAIN fromClient : fromClient'[i] = fromClient[k]
                 \/ AboutNext(fromClient'[i].id, AnswerTtl(fromClient'[i]),
                              fromClient'[i].client)
    <2>1. \A i \in DOMAIN fromClient' :
             \/ i \in DOMAIN fromClient /\ fromClient'[i] = fromClient[i]
             \/ fromClient'[i] = m
      BY <1>4, <1>7, AppendElements
    <2> QED BY <1>7, <2>1, Zenon
  <1>8. ASSUME toClient # <<>>, toClient' = Tail(toClient)
        PROVE  /\ \A i \in DOMAIN toClient' :
                    \E k \in DOMAIN toClient : toClient'[i] = toClient[k]
               /\ Head(toClient) \in ClientCommand
               /\ AboutNext(Head(toClient).id, Head(toClient).ttl, Head(toClient).client)
    <2>1. /\ Head(toClient) \in ClientCommand
          /\ 1 \in DOMAIN toClient /\ toClient[1] = Head(toClient)
          /\ \A i \in DOMAIN toClient' :
               \E k \in DOMAIN toClient : toClient'[i] = toClient[k]
      BY <1>4, <1>8, TailElements, Zenon
    <2>2. About(Head(toClient).id, Head(toClient).ttl, Head(toClient).client)
      BY <2>1, Zenon DEF WaitsInv, CommandsMatch
    <2> QED BY <1>5, <2>1, <2>2, Zenon
  <1>9. CASE offer_service \/ stop_offer_service
    <2>1. PICK m \in OfferCommand : fromClient' = Append(fromClient, m)
      BY <1>9, Zenon DEF offer_service, stop_offer_service, OfferCommand
    <2>2. m \notin Answer
      BY Zenon DEF OfferCommand, Answer
    <2>3. UNCHANGED <<asked, toClient>>
      BY <1>9, Zenon DEF offer_service, stop_offer_service
    <2> QED BY <1>6, <1>7, <2>1, <2>2, <2>3, Zenon
  <1>10. CASE on_subscribe_command
    <2>1. PICK a : a = [id |-> Head(toClient).id, client |-> Head(toClient).client]
      BY Zenon
    <2>2. /\ toClient # <<>> /\ toClient' = Tail(toClient) /\ Head(toClient).ttl = 1
          /\ asked' = asked \cup {a} /\ UNCHANGED fromClient
      BY <1>10, <2>1, Zenon DEF on_subscribe_command
    <2>3. AboutNext(a.id, 1, a.client)
      BY <1>8, <2>1, <2>2, Zenon
    <2> QED BY <1>6, <1>8, <2>2, <2>3, Zenon
  <1>11. ASSUME NEW a \in asked, NEW command \in {"SUBSCRIBE_ACK", "SUBSCRIBE_NACK"},
                subscription_accepted_cbk(a, command)
         PROVE  WaitsInv'
    <2>1. PICK m : m = [command |-> command, id |-> a.id, client |-> a.client]
      BY Zenon
    <2>2. /\ m \in Answer /\ m.id = a.id /\ m.client = a.client
          /\ AnswerTtl(m) = 1
      BY <2>1, Zenon DEF Inv, TypeOK, Answer, AnswerTtl
    <2>3. /\ fromClient' = Append(fromClient, m)
          /\ asked' = asked \ {a} /\ UNCHANGED toClient
      BY <1>11, <2>1, Zenon DEF subscription_accepted_cbk
    <2>4. AboutNext(a.id, 1, a.client)
      BY <1>5, Zenon DEF WaitsInv, CommandsMatch
    <2> QED BY <1>6, <1>7, <2>2, <2>3, <2>4, Zenon
  <1>12. CASE on_unsubscribe_command
    <2>1. PICK m : m = [command |-> "UNSUBSCRIBE_ACK", id |-> Head(toClient).id,
                        client |-> Head(toClient).client]
      BY Zenon
    <2>2. /\ toClient # <<>> /\ toClient' = Tail(toClient) /\ Head(toClient).ttl = 0
          /\ fromClient' = Append(fromClient, m) /\ UNCHANGED asked
      BY <1>12, <2>1, Zenon DEF on_unsubscribe_command
    <2>3. /\ m \in Answer /\ m.id = Head(toClient).id /\ m.client = Head(toClient).client
          /\ AnswerTtl(m) = 0
      BY <1>8, <2>1, <2>2, Zenon DEF ClientCommand, Answer, AnswerTtl
    <2>4. AboutNext(m.id, AnswerTtl(m), m.client)
      BY <1>8, <2>2, <2>3, Zenon
    <2> QED BY <1>6, <1>7, <1>8, <2>2, <2>3, <2>4, Zenon
  <1>13. CASE Crash
    <2>1. asked' = {} /\ toClient' = <<>> /\ fromClient' = fromClient
      BY <1>13, Zenon DEF Crash
    <2> QED BY <1>6, <2>1
  <1>14. CASE Restart
    <2>1. UNCHANGED <<asked, toClient, fromClient>>
      BY <1>14, Zenon DEF Restart
    <2> QED BY <1>6, <2>1, Zenon
  <1> QED BY <1>9, <1>10, <1>11, <1>12, <1>13, <1>14, Zenon DEF ClientStep

\* Steps that leave the map, its waiting entries and most commands alone.
LEMMA WaitsUnchanged ==
    ASSUME WaitsInv, UNCHANGED <<pending_subscriptions, pending_remote_subscriptions,
                                 asked, fromClient>>,
           \A i \in DOMAIN toClient' :
              \/ \E k \in DOMAIN toClient : toClient'[i] = toClient[k]
              \/ AboutNext(toClient'[i].id, toClient'[i].ttl, toClient'[i].client),
           unsubscribing' \subseteq unsubscribing, unsent' \subseteq unsent
    PROVE  WaitsInv'
  <1>1. SdWaitsForPending' /\ ClientsKnown'
    BY Zenon DEF WaitsInv, SdWaitsForPending, ClientsKnown
  <1>2. \A id, ttl, c : About(id, ttl, c) => AboutNext(id, ttl, c)
    BY Zenon DEF About, AboutNext
  <1>3. CommandsMatch'
    BY <1>2, CommandsKept, Zenon DEF WaitsInv
  <1> QED BY <1>1, <1>3, Zenon DEF WaitsInv

\* A command that was kept says the same once it is sent.
LEMMA WaitsKeptSent ==
    ASSUME Inv, WaitsInv, KeptSent, NEW u \in unsent, unsent' = unsent \ {u},
           \/ toClient' = toClient
           \/ toClient' = Append(toClient, u)
           \/ send_command(u.id, u.ttl, u.client)
    PROVE  WaitsInv'
  <1>1. UNCHANGED <<pending_subscriptions, pending_remote_subscriptions, asked, fromClient,
                    unsubscribing>>
    BY Zenon DEF KeptSent, eventgroup, clientVars
  <1>2. /\ u \in ClientCommand /\ u.id \in Id /\ u.ttl \in {0, 1} /\ u.client \in Client
        /\ toClient \in Seq(ClientCommand)
    BY Zenon DEF Inv, TypeOK, ClientCommand
  <1>3. PICK k \in Id, ttl \in {0, 1}, c \in Client :
          k = u.id /\ ttl = u.ttl /\ c = u.client
    BY <1>2, Zenon
  <1>4. AboutNext(k, ttl, c)
    BY <1>1, <1>3, Zenon DEF WaitsInv, CommandsMatch, About, AboutNext
  <1>5. \A i \in DOMAIN toClient' :
           \/ \E j \in DOMAIN toClient : toClient'[i] = toClient[j]
           \/ AboutNext(toClient'[i].id, toClient'[i].ttl, toClient'[i].client)
    <2>1. CASE toClient' = toClient
      BY <2>1, Zenon
    <2>2. CASE toClient' = Append(toClient, u)
      <3>1. \A i \in DOMAIN toClient' :
               \/ i \in DOMAIN toClient /\ toClient'[i] = toClient[i]
               \/ toClient'[i] = u
        BY <1>2, <2>2, AppendElements
      <3> QED BY <1>3, <1>4, <3>1, Zenon
    <2>3. CASE send_command(u.id, u.ttl, u.client)
      <3>1. PICK m : m = [ttl |-> ttl, id |-> k, client |-> c]
        BY Zenon
      <3>2. m.ttl = ttl /\ m.id = k /\ m.client = c
        BY <3>1, Zenon
      <3>3. \A i \in DOMAIN toClient' :
               \/ i \in DOMAIN toClient /\ toClient'[i] = toClient[i]
               \/ toClient'[i] = m
        <4>1. send_command(k, ttl, c)
          BY <1>3, <2>3, Zenon
        <4> QED BY <1>2, <3>1, <4>1, CommandSent
      <3> QED BY <1>4, <3>2, <3>3, Zenon
    <2> QED BY <2>1, <2>2, <2>3, Zenon
  <1>6. unsent' \subseteq unsent
    BY Zenon
  <1> QED BY <1>1, <1>5, <1>6, WaitsUnchanged, Zenon

\* Every step keeps WaitsInv when a remote is known by one client.
LEMMA WaitsNext ==
    ASSUME Inv, AckInv, WaitsInv, OneClientPerRemote, [Next]_vars
    PROVE  WaitsInv'
  <1>1. CASE SdStep
    <2>1. ASSUME NEW e \in Endpoint, NEW c \in clients_of[e], on_remote_subscription(e, c),
                 IdsOutlast
          PROVE  WaitsInv'
      <3>1. UNCHANGED <<unsubscribing, unsent, fromClient, asked>>
        BY <2>1, Zenon DEF on_remote_subscription, clientVars, expiry
      <3>2. CASE /\ add_pending_subscription(e, 1, c) /\ send_command(id_to_send(e), 1, c)
                 /\ pending_remote_subscriptions' = pending_remote_subscriptions
                      \cup {[client |-> c, id |-> subscription_id', subscriber |-> e]}
        BY <2>1, <3>1, <3>2, WaitsAdded, Zenon
      <3>3. CASE UNCHANGED <<eventgroup, pending_remote_subscriptions, toClient>>
        BY <3>1, <3>3, WaitsUnchanged, Zenon DEF eventgroup
      <3> QED BY <2>1, <3>2, <3>3, Zenon DEF on_remote_subscription
    <2>2. ASSUME NEW e \in Endpoint, NEW c \in clients_of[e], on_unsubscribe(e, c),
                 IdsOutlast
          PROVE  WaitsInv'
      <3>1. /\ add_pending_subscription(e, 0, c)
            /\ unsubscribing' = {[subscriber |-> e, id |-> id_to_send(e), client |-> c]}
            /\ UNCHANGED <<pending_remote_subscriptions, unsent, toClient, fromClient, asked>>
        BY <2>2, Zenon DEF on_unsubscribe, clientVars, expiry
      <3> QED BY <2>2, <3>1, WaitsAdded, Zenon
    <2>3. ASSUME NEW e \in Endpoint, NEW c \in clients_of[e],
                 expire_subscriptions_queue(e, c), IdsOutlast
          PROVE  WaitsInv'
      <3>1. UNCHANGED <<pending_remote_subscriptions, unsubscribing, toClient, fromClient,
                        asked>>
        BY <2>3, Zenon DEF expire_subscriptions_queue, clientVars
      <3>2. CASE add_pending_subscription(e, 0, c) /\ keep_command(id_to_send(e), 0, c)
        BY <2>3, <3>1, <3>2, WaitsAdded, Zenon
      <3>3. CASE UNCHANGED <<pending_subscriptions, unsent>>
        BY <3>1, <3>3, WaitsUnchanged, Zenon
      <3> QED BY <2>3, <3>2, <3>3, Zenon DEF expire_subscriptions_queue
    <2>4. CASE on_unsubscribe_send
      <3>1. PICK u \in unsubscribing : send_command(u.id, 0, u.client)
        BY <2>4, Zenon DEF on_unsubscribe_send
      <3>2. /\ unsubscribing' = {}
            /\ UNCHANGED <<pending_subscriptions, pending_remote_subscriptions, unsent,
                           fromClient, asked>>
        BY <2>4, Zenon DEF on_unsubscribe_send, clientVars, expiry
      <3>3. /\ u.id \in Id \cup {DEFAULT_SUBSCRIPTION} /\ u.client \in Client
            /\ toClient \in Seq(ClientCommand)
        BY Zenon DEF Inv, TypeOK
      <3>4. AboutNext(u.id, 0, u.client)
        BY <3>2, Zenon DEF WaitsInv, CommandsMatch, About, AboutNext
      <3>5. PICK k \in Id \cup {DEFAULT_SUBSCRIPTION}, c \in Client :
              k = u.id /\ c = u.client
        BY <3>3, Zenon
      <3>6. \A i \in DOMAIN toClient' :
               \/ i \in DOMAIN toClient /\ toClient'[i] = toClient[i]
               \/ toClient'[i] = [ttl |-> 0, id |-> k, client |-> c]
        BY <3>1, <3>3, <3>5, CommandSent, Zenon
      <3>7. \A i \in DOMAIN toClient' :
               \/ \E j \in DOMAIN toClient : toClient'[i] = toClient[j]
               \/ AboutNext(toClient'[i].id, toClient'[i].ttl, toClient'[i].client)
        BY <3>4, <3>5, <3>6
      <3> QED BY <3>2, <3>7, WaitsUnchanged, Zenon
    <2>5. ASSUME NEW e \in Endpoint,
                 expire_subscriptions(e) \/ expire_subscriptions_remove(e)
          PROVE  WaitsInv'
      BY <2>5, WaitsUnchanged, Zenon
         DEF expire_subscriptions, expire_subscriptions_remove, clientVars, eventgroup
    <2>6. CASE Announce
      BY <2>6, WaitsUnchanged, Zenon DEF Announce, clientVars, eventgroup, expiry
    <2>7. ASSUME NEW id \in Id, expire_subscriptions_send(id)
          PROVE  WaitsInv'
      BY <2>7, KeptIsSent, WaitsKeptSent, Zenon
    <2> QED BY <1>1, <2>1, <2>2, <2>3, <2>4, <2>5, <2>6, <2>7, Zenon DEF SdStep
  <1>2. CASE on_message
    BY <1>2, WaitsMessage, Zenon DEF AckInv
  <1>3. CASE Deregister
    <2>1. /\ pending_remote_subscriptions' = {}
          /\ UNCHANGED <<toClient, fromClient, asked, unsubscribing, unsent>>
      BY <1>3, Zenon DEF Deregister, on_stop_offer_service, clientVars, expiry
    <2>2. Shrinks
      BY <1>3, Zenon DEF Deregister, on_stop_offer_service, clear_pending_subscriptions, Shrinks
    <2>3. CommandsMatch' /\ ClientsKnown'
      BY <2>1, <2>2, AboutShrinks, KnownShrinks, CommandsKept, Zenon DEF WaitsInv
    <2> QED BY <2>1, <2>3, Zenon DEF WaitsInv, SdWaitsForPending
  <1>4. CASE UNCHANGED vars
    BY <1>4, WaitsUnchanged, Zenon DEF vars, eventgroup, sd, expiry, clientVars
  <1>5. ASSUME NEW id \in Id, on_unsubscribe_ack_send(id)
        PROVE  WaitsInv'
    BY <1>5, KeptIsSent, WaitsKeptSent, Zenon
  <1> QED BY <1>1, <1>2, <1>3, <1>4, <1>5, WaitsClient, Zenon DEF Next

-----------------------------------------------------------------------------
(* The story of every subscription *)

\* AckInv holds throughout, on no assumption about service discovery.
THEOREM AckInvAlways == Spec => []AckInv
  <1>1. Init => AckInv
    BY Zenon DEF Init, AckInv, AcknowledgedIsTarget, NotExpired, Matches, Gone
  <1>2. Inv /\ AckInv /\ [Next]_vars => AckInv'
    BY AckNext, Zenon
  <1> QED BY <1>1, <1>2, InvAlways, PTL DEF Spec

\* A remote that asked to subscribe and was last told "acknowledged" is a
\* target of the events, however expirations, stops of the offer and the two
\* halves of on_unsubscribe interleave; an acknowledgement between the check of
\* an expiration and its removal counts as "crossed".
THEOREM AcknowledgedIsServed == Spec => []AcknowledgedIsTarget
  BY AckInvAlways, PTL DEF AckInv

\* No wake-up is lost: when service discovery's work does not cross the stop of
\* the service, the front of every queue has been sent to the living client and
\* is still to be answered (on_remote_subscription, send_pending).
THEOREM NoWakeUpLost ==
    ASSUME CrossingSd = FALSE
    PROVE  Spec => []FrontIsUnderWay
  <1>1. Init => FrontInv
    BY Zenon DEF Init, FrontInv, FrontIsUnderWay, Quiet
  <1>2. Inv /\ AckInv /\ FrontInv /\ [Next]_vars => FrontInv'
    BY FrontNext, Zenon
  <1>3. FrontInv => FrontIsUnderWay
    BY Zenon DEF FrontInv
  <1> QED BY <1>1, <1>2, <1>3, InvAlways, AckInvAlways, PTL DEF Spec

\* Every Subscribe entry that service discovery keeps waiting is pending at the
\* eventgroup, so that its answer will be found, if all endpoints of a remote
\* are known by one client (remote_subscription_acknowledge).
THEOREM NobodyWaitsInVain ==
    ASSUME OneClientPerRemote
    PROVE  Spec => []SdWaitsForPending
  <1>1. Init => WaitsInv
    BY DEF Init, WaitsInv, SdWaitsForPending, CommandsMatch, ClientsKnown
  <1>2. Inv /\ AckInv /\ WaitsInv /\ [Next]_vars => WaitsInv'
    BY WaitsNext, Zenon
  <1>3. WaitsInv => SdWaitsForPending
    BY Zenon DEF WaitsInv
  <1> QED BY <1>1, <1>2, <1>3, InvAlways, AckInvAlways, PTL DEF Spec

\* The queues, service discovery and the targets tell one story of every
\* subscription, for any number of endpoints, remotes and ids.
THEOREM SubscriptionsAlwaysAgree ==
    ASSUME CrossingSd = FALSE, OneClientPerRemote
    PROVE  Spec => []SubscriptionsAgree
  BY AcknowledgedIsServed, NoWakeUpLost, NobodyWaitsInVain, PTL DEF SubscriptionsAgree
=============================================================================
