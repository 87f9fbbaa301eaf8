--------------------------- MODULE ClientIdsProofs ---------------------------
(***************************************************************************)
(* Proofs about ClientIds: request_client_id and release_client_id change  *)
(* a table as a whole or not at all, even if their process dies on the     *)
(* way, for any number of processes, applications and identifiers.         *)
(***************************************************************************)
EXTENDS ClientIds, TLAPS

LOCAL INSTANCE WellFoundedInduction

\* A leaf that names no prover is Zenon's.
USE Zenon

-----------------------------------------------------------------------------
(* Sequences and numbers.                                                  *)

\* Every set of naturals that is not empty has a least element.
LEMMA LeastOfNats ==
    \A S \in SUBSET Nat : S # {} => \E x \in S : \A y \in S : x <= y
<1> DEFINE R == OpToRel(<, Nat)
<1>1. SUFFICES ASSUME NEW S \in SUBSET Nat, S # {}
      PROVE  \E x \in S : \A y \in S : x <= y
  OBVIOUS
<1>2. IsWellFoundedOn(R, Nat)
  BY NatLessThanWellFounded
<1>3. PICK x \in S : \A y \in S : ~ (<<y, x>> \in R)
  <2> HIDE DEF R
  <2> QED BY <1>1, <1>2, WFMin
<1>4. ASSUME NEW y \in S PROVE x <= y
  <2>1. x \in Nat /\ y \in Nat
    OBVIOUS
  <2>2. ~ (y < x)
    BY <1>3, <2>1 DEF OpToRel
  <2> QED BY <2>1, <2>2, SMT
<1> QED BY <1>4

\* The positions of a sequence are the numbers up to its length.
LEMMA SeqParts ==
    ASSUME NEW S, NEW s \in Seq(S)
    PROVE  Len(s) \in Nat /\ DOMAIN s = 1 .. Len(s) /\ \A i \in 1 .. Len(s) : s[i] \in S
BY SMT

\* Two sequences joined: first the entries of a, then those of b.
LEMMA JoinedParts ==
    ASSUME NEW S, NEW a \in Seq(S), NEW b \in Seq(S)
    PROVE  /\ a \o b \in Seq(S) /\ Len(a \o b) = Len(a) + Len(b)
           /\ \A j \in 1 .. Len(a) + Len(b) :
                 (a \o b)[j] = IF j <= Len(a) THEN a[j] ELSE b[j - Len(a)]
BY SMT

\* The least element is what Min returns.
LEMMA MinIsIn ==
    ASSUME NEW S \in SUBSET Nat, S # {}
    PROVE  Min(S) \in S /\ \A y \in S : Min(S) <= y
BY LeastOfNats DEF Min

\* RemoveAt takes one element out and leaves the order of the others.
LEMMA RemoveAtParts ==
    ASSUME NEW S, NEW s \in Seq(S), NEW i \in 1 .. Len(s)
    PROVE  /\ RemoveAt(s, i) \in Seq(S)
           /\ Len(RemoveAt(s, i)) = Len(s) - 1
           /\ \A j \in 1 .. Len(s) - 1 :
                 RemoveAt(s, i)[j] = IF j < i THEN s[j] ELSE s[j + 1]
<1> DEFINE a == SubSeq(s, 1, i - 1)
           b == SubSeq(s, i + 1, Len(s))
<1>1. i \in 1 .. Len(s) /\ Len(s) \in Nat
  BY SMT
<1>2. a \in Seq(S) /\ Len(a) = i - 1 /\ \A j \in 1 .. i - 1 : a[j] = s[j]
  BY <1>1, SMT
<1>3. b \in Seq(S) /\ Len(b) = Len(s) - i /\ \A j \in 1 .. Len(s) - i : b[j] = s[i + j]
  BY <1>1, SMT
<1> HIDE DEF a, b
<1>4. /\ a \o b \in Seq(S) /\ Len(a \o b) = Len(a) + Len(b)
      /\ \A j \in 1 .. Len(a) + Len(b) :
            (a \o b)[j] = IF j <= Len(a) THEN a[j] ELSE b[j - Len(a)]
  BY <1>2, <1>3, JoinedParts
<1>5. Len(a) + Len(b) = Len(s) - 1
  BY <1>1, <1>2, <1>3, SMT
<1>6. ASSUME NEW j \in 1 .. Len(s) - 1
      PROVE  (a \o b)[j] = IF j < i THEN s[j] ELSE s[j + 1]
  <2>1. CASE j < i
    <3>1. j \in 1 .. i - 1 /\ j <= Len(a)
      BY <1>1, <1>2, <2>1, SMT
    <3> QED BY <1>2, <1>4, <1>5, <2>1, <3>1
  <2>2. CASE ~(j < i)
    <3>1. j - Len(a) \in 1 .. Len(s) - i /\ i + (j - Len(a)) = j + 1 /\ ~(j <= Len(a))
      BY <1>1, <1>2, <2>2, SMT
    <3> QED BY <1>3, <1>4, <1>5, <2>2, <3>1
  <2> QED BY <2>1, <2>2
<1>7. RemoveAt(s, i) = a \o b
  BY DEF RemoveAt, a, b
<1> QED BY <1>4, <1>5, <1>6, <1>7

\* The members of a sequence, by index.
LEMMA RangeParts ==
    ASSUME NEW S, NEW s \in Seq(S)
    PROVE  \A c : c \in Range(s) <=> \E i \in 1 .. Len(s) : s[i] = c
<1>1. DOMAIN s = 1 .. Len(s)
  BY SeqParts
<1> QED BY <1>1 DEF Range

\* A list is injective when no two of its places hold the same.
LEMMA InjectiveParts ==
    ASSUME NEW S, NEW s \in Seq(S)
    PROVE  IsInjective(s) <=> \A i, j \in 1 .. Len(s) : s[i] = s[j] => i = j
<1>1. DOMAIN s = 1 .. Len(s)
  BY SeqParts
<1> QED BY <1>1 DEF IsInjective

-----------------------------------------------------------------------------
(* The repair of a table.                                                  *)

\* What check_client_id_consistency makes of the list.
Untwinned(u) ==
    LET twins == {i \in 2..Len(u) : u[i] = u[i - 1]}
    IN  IF twins = {} THEN u
        ELSE RemoveAt(u, CHOOSE i \in twins : \A j \in twins : i <= j)

\* The repair takes out the second one of two equal neighbours, the first such pair.
LEMMA UntwinnedAt ==
    ASSUME NEW S, NEW u \in Seq(S), NEW t \in 2 .. Len(u), u[t] = u[t - 1]
    PROVE  \E i \in 2 .. Len(u) :
              /\ u[i] = u[i - 1]
              /\ \A j \in 2 .. Len(u) : u[j] = u[j - 1] => i <= j
              /\ Untwinned(u) = RemoveAt(u, i)
<1> DEFINE twins == {i \in 2 .. Len(u) : u[i] = u[i - 1]}
           i == CHOOSE i \in twins : \A j \in twins : i <= j
<1>1. t \in twins /\ twins \in SUBSET Nat
  <2>1. Len(u) \in Nat
    BY SeqParts
  <2>2. 2 .. Len(u) \subseteq Nat
    BY <2>1, SMT
  <2> QED BY <2>2
<1>2. Untwinned(u) = RemoveAt(u, i)
  BY <1>1 DEF Untwinned
<1>3. i = Min(twins)
  BY DEF Min
<1>4. i \in twins /\ \A j \in twins : i <= j
  <2> HIDE DEF twins, i
  <2> QED BY <1>1, <1>3, MinIsIn
<1> QED BY <1>2, <1>4

\* Without equal neighbours the repair changes nothing.
LEMMA UntwinnedNone ==
    ASSUME NEW S, NEW u \in Seq(S), \A i \in 2 .. Len(u) : u[i] # u[i - 1]
    PROVE  Untwinned(u) = u
BY DEF Untwinned

\* check_client_id_consistency leaves a list without repetition alone.
LEMMA UntwinnedInjective ==
    ASSUME NEW S, NEW u \in Seq(S), IsInjective(u)
    PROVE  Untwinned(u) = u
<1>1. \A i \in 2 .. Len(u) : i \in 1 .. Len(u) /\ i - 1 \in 1 .. Len(u) /\ i # i - 1
  <2>1. Len(u) \in Nat
    BY SeqParts
  <2> QED BY <2>1, SMT
<1>2. \A i, j \in 1 .. Len(u) : u[i] = u[j] => i = j
  BY InjectiveParts
<1> QED BY <1>1, <1>2, UntwinnedNone

\* The repair loses no identifier.
LEMMA UntwinnedParts ==
    ASSUME NEW S, NEW u \in Seq(S)
    PROVE  /\ Untwinned(u) \in Seq(S)
           /\ Len(Untwinned(u)) <= Len(u)
           /\ Range(Untwinned(u)) = Range(u)
<1>1. Len(u) \in Nat /\ Len(u) <= Len(u)
  BY SeqParts, SMT
<1>2. CASE \A i \in 2 .. Len(u) : u[i] # u[i - 1]
  BY <1>1, <1>2, UntwinnedNone
<1>3. CASE \E i \in 2 .. Len(u) : u[i] = u[i - 1]
  <2>1. PICK i \in 2 .. Len(u) : u[i] = u[i - 1] /\ Untwinned(u) = RemoveAt(u, i)
    BY <1>3, UntwinnedAt
  <2>2. i \in 1 .. Len(u) /\ i - 1 \in 1 .. Len(u) - 1 /\ i - 1 < i /\ Len(u) - 1 <= Len(u)
    BY <1>1, SMT
  <2> DEFINE r == RemoveAt(u, i)
  <2>3. /\ r \in Seq(S) /\ Len(r) = Len(u) - 1
        /\ \A j \in 1 .. Len(u) - 1 : r[j] = IF j < i THEN u[j] ELSE u[j + 1]
    BY <2>2, RemoveAtParts
  <2> HIDE DEF r
  <2>4. \A c : c \in Range(r) <=> \E j \in 1 .. Len(u) - 1 : r[j] = c
    BY <2>3, RangeParts
  <2>5. \A c : c \in Range(u) <=> \E j \in 1 .. Len(u) : u[j] = c
    BY RangeParts
  <2>6. ASSUME NEW c \in Range(r) PROVE c \in Range(u)
    <3>1. PICK j \in 1 .. Len(u) - 1 : r[j] = c
      BY <2>4
    <3>2. j \in 1 .. Len(u) /\ j + 1 \in 1 .. Len(u)
      BY <1>1, SMT
    <3> QED BY <2>3, <2>5, <3>1, <3>2
  <2>7. ASSUME NEW c \in Range(u) PROVE c \in Range(r)
    <3>1. PICK j \in 1 .. Len(u) : u[j] = c
      BY <2>5
    <3>2. CASE j < i
      <4>1. j \in 1 .. Len(u) - 1
        BY <1>1, <3>2, SMT
      <4> QED BY <2>3, <2>4, <3>1, <3>2, <4>1
    <3>3. CASE j = i
      <4>1. r[i - 1] = c
        BY <2>1, <2>2, <2>3, <3>1, <3>3
      <4> QED BY <2>2, <2>4, <4>1
    <3>4. CASE ~(j < i) /\ j # i
      <4>1. j - 1 \in 1 .. Len(u) - 1 /\ ~(j - 1 < i) /\ (j - 1) + 1 = j
        BY <1>1, <3>4, SMT
      <4>2. r[j - 1] = c
        BY <2>3, <3>1, <4>1
      <4> QED BY <2>4, <4>1, <4>2
    <3> QED BY <3>2, <3>3, <3>4
  <2> QED BY <2>1, <2>2, <2>3, <2>6, <2>7 DEF r
<1> QED BY <1>2, <1>3

-----------------------------------------------------------------------------
(* The configuration and the fields of a table.                            *)

\* What is configured.
LEMMA ConfParts ==
    ASSUME ConfsOK, conf \in Confs
    PROVE  /\ max_clients \in Nat \ {0}
           /\ conf.segments \in Nat /\ conf.crashes \in Nat /\ MaxRefs \in Nat
           /\ \A a \in App : Home[a] \in Process /\ a # NoName
           /\ \A a \in App : get_id[a] \in Id \union {ILLEGAL_CLIENT}
           /\ DeadPid \notin Process /\ NoPid \notin Process
<1>1. max_clients \in Nat \ {0} /\ conf.segments \in Nat /\ conf.crashes \in Nat
  BY DEF ConfsOK, max_clients
<1>2. MaxRefs \in Nat /\ NoName \notin App
  BY DEF ConfsOK, App, Home
<1>3. \A a \in App : Home[a] \in Process
  BY DEF ConfsOK, App, Home
<1>4. \A a \in App : get_id[a] \in Id \union {ILLEGAL_CLIENT}
  <2>1. (max_clients + 1) .. (2 * max_clients + 1) = Id
    BY <1>1, SMT DEF Id, diagnosis
  <2> QED BY <2>1 DEF ConfsOK, App, Home, get_id, max_clients
<1>5. DeadPid \notin Process /\ NoPid \notin Process
  BY DEF ConfsOK
<1> QED BY <1>1, <1>2, <1>3, <1>4, <1>5

\* The diagnosis address is the first identifier; the others are those handed out.
LEMMA IdParts ==
    ASSUME max_clients \in Nat \ {0}
    PROVE  /\ diagnosis \in Id /\ ILLEGAL_CLIENT \notin Id
           /\ Id \subseteq Nat
           /\ client_base .. (diagnosis + max_clients) = Id \ {diagnosis}
           /\ \A c \in Id \ {diagnosis} : c > diagnosis + 0
BY SMT DEF Id, client_base, diagnosis, ILLEGAL_CLIENT

\* A table without its identifiers in use.
LEMMA TableFields ==
    ASSUME NEW S \in Table
    PROVE  /\ S.initialized \in BOOLEAN /\ S.owner_dead \in BOOLEAN
           /\ S.pid \in Process \union {DeadPid, NoPid}
           /\ S.used \in Seq(Id)
           /\ S.max_assigned \in 0 .. max_clients - 1
           /\ S.routing_manager_host \in Id \union {ILLEGAL_CLIENT}
BY SMT DEF Table

\* Each of the next five: a table with one field replaced is a table, and its other
\* fields are the same.  Here: the list.
LEMMA WithUsed ==
    ASSUME NEW S \in Table, NEW u \in Seq(Id), NEW T, T = [S EXCEPT !.used = u]
    PROVE  /\ T \in Table /\ T.used = u
           /\ T.initialized = S.initialized /\ T.owner_dead = S.owner_dead /\ T.pid = S.pid
           /\ T.max_assigned = S.max_assigned
           /\ T.routing_manager_host = S.routing_manager_host
BY DEF Table

\* The state of the mutex.
LEMMA WithOwnerDead ==
    ASSUME NEW S \in Table, NEW b \in BOOLEAN, NEW T, T = [S EXCEPT !.owner_dead = b]
    PROVE  /\ T \in Table /\ T.owner_dead = b
           /\ T.initialized = S.initialized /\ T.used = S.used /\ T.pid = S.pid
           /\ T.max_assigned = S.max_assigned
           /\ T.routing_manager_host = S.routing_manager_host
BY SMT DEF Table

\* The process of the routing manager.
LEMMA WithPid ==
    ASSUME NEW S \in Table, NEW p \in Process \union {DeadPid, NoPid}, NEW T,
           T = [S EXCEPT !.pid = p]
    PROVE  /\ T \in Table /\ T.pid = p
           /\ T.initialized = S.initialized /\ T.owner_dead = S.owner_dead
           /\ T.used = S.used /\ T.max_assigned = S.max_assigned
           /\ T.routing_manager_host = S.routing_manager_host
BY SMT DEF Table

\* The identifier of the routing manager.
LEMMA WithHost ==
    ASSUME NEW S \in Table, NEW c \in Id \union {ILLEGAL_CLIENT}, NEW T,
           T = [S EXCEPT !.routing_manager_host = c]
    PROVE  /\ T \in Table /\ T.routing_manager_host = c
           /\ T.initialized = S.initialized /\ T.owner_dead = S.owner_dead
           /\ T.used = S.used /\ T.max_assigned = S.max_assigned
           /\ T.pid = S.pid
BY SMT DEF Table

\* The identifiers of a table once it is repaired.
Ids(S) == IF S.owner_dead THEN Untwinned(S.used) ELSE S.used

\* lock: only the mutex and the list change, and the list is the repaired one.
LEMMA LockParts ==
    ASSUME NEW S \in Table
    PROVE  /\ lock(S) \in Table /\ ~lock(S).owner_dead /\ lock(S).used = Ids(S)
           /\ lock(S).initialized = S.initialized /\ lock(S).pid = S.pid
           /\ lock(S).max_assigned = S.max_assigned
           /\ lock(S).routing_manager_host = S.routing_manager_host
           /\ Ids(S) \in Seq(Id) /\ Len(Ids(S)) <= Len(S.used)
           /\ Range(Ids(S)) = Range(S.used)
           /\ ~S.owner_dead => lock(S) = S
<1>1. S.used \in Seq(Id) /\ S.owner_dead \in BOOLEAN
  BY TableFields
<1>2. Len(S.used) <= Len(S.used)
  BY <1>1, SeqParts, SMT
<1>3. Untwinned(S.used) \in Seq(Id) /\ Len(Untwinned(S.used)) <= Len(S.used)
      /\ Range(Untwinned(S.used)) = Range(S.used)
  BY <1>1, UntwinnedParts
<1>4. CASE ~S.owner_dead
  BY <1>1, <1>2, <1>4 DEF lock, Ids
<1>5. CASE S.owner_dead
  <2> DEFINE T == check_client_id_consistency(S)
  <2>1. T = [S EXCEPT !.used = Untwinned(S.used)]
    <3>1. CASE {i \in 2..Len(S.used) : S.used[i] = S.used[i - 1]} = {}
      <4>1. T = S /\ Untwinned(S.used) = S.used
        BY <3>1 DEF check_client_id_consistency, Untwinned
      <4>2. [S EXCEPT !.used = S.used] = S
        BY SMT DEF Table
      <4> QED BY <4>1, <4>2
    <3>2. CASE {i \in 2..Len(S.used) : S.used[i] = S.used[i - 1]} # {}
      <4> DEFINE twins == {i \in 2..Len(S.used) : S.used[i] = S.used[i - 1]}
                 i == CHOOSE i \in twins : \A j \in twins : i <= j
      <4>1. T = [S EXCEPT !.used = RemoveAt(S.used, i)]
        BY <3>2, SMT DEF check_client_id_consistency
      <4>2. Untwinned(S.used) = RemoveAt(S.used, i)
        BY <3>2 DEF Untwinned
      <4> QED BY <4>1, <4>2
    <3> QED BY <3>1, <3>2
  <2>2. /\ T \in Table /\ T.used = Untwinned(S.used) /\ T.initialized = S.initialized
        /\ T.pid = S.pid /\ T.max_assigned = S.max_assigned
        /\ T.routing_manager_host = S.routing_manager_host
    <3> HIDE DEF T
    <3> QED BY <1>3, <2>1, WithUsed, SMT
  <2>3. lock(S) = [T EXCEPT !.owner_dead = FALSE]
    BY <1>5 DEF lock
  <2> HIDE DEF T
  <2>4. /\ lock(S) \in Table /\ lock(S).owner_dead = FALSE /\ lock(S).used = T.used
        /\ lock(S).initialized = T.initialized /\ lock(S).pid = T.pid
        /\ lock(S).max_assigned = T.max_assigned
        /\ lock(S).routing_manager_host = T.routing_manager_host
    BY <2>2, <2>3, WithOwnerDead, ZenonT(40)
  <2> QED BY <1>3, <1>5, <2>2, <2>4 DEF Ids
<1> QED BY <1>4, <1>5

-----------------------------------------------------------------------------
(* release_client_id.                                                      *)

\* A member is taken out of a sequence without duplicates.
LEMMA RemovedMember ==
    ASSUME NEW S, NEW s \in Seq(S), IsInjective(s), NEW i \in 1 .. Len(s)
    PROVE  /\ IsInjective(RemoveAt(s, i))
           /\ Range(RemoveAt(s, i)) = Range(s) \ {s[i]}
<1> DEFINE r == RemoveAt(s, i)
<1>1. /\ r \in Seq(S) /\ Len(r) = Len(s) - 1
      /\ \A j \in 1 .. Len(s) - 1 : r[j] = IF j < i THEN s[j] ELSE s[j + 1]
  BY RemoveAtParts
<1> HIDE DEF r
<1>2. Len(s) \in Nat /\ i \in 1 .. Len(s)
  BY SeqParts
<1>3. \A j, k \in 1 .. Len(s) : s[j] = s[k] => j = k
  BY InjectiveParts
<1>4. ASSUME NEW j \in 1 .. Len(r), NEW k \in 1 .. Len(r), r[j] = r[k]
      PROVE  j = k
  <2> DEFINE at(n) == IF n < i THEN n ELSE n + 1
  <2>1. /\ at(j) \in 1 .. Len(s) /\ r[j] = s[at(j)]
        /\ at(k) \in 1 .. Len(s) /\ r[k] = s[at(k)]
    BY <1>1, <1>2, SMT
  <2>2. at(j) = at(k)
    BY <1>3, <1>4, <2>1
  <2> QED BY <1>1, <1>2, <2>2, SMT
<1>5. IsInjective(r)
  BY <1>1, <1>4, InjectiveParts
<1>6. ASSUME NEW c \in Range(r) PROVE c \in Range(s) \ {s[i]}
  <2>1. PICK j \in 1 .. Len(r) : r[j] = c
    BY <1>1, RangeParts
  <2>2. /\ j \in 1 .. Len(s) - 1 /\ j \in 1 .. Len(s) /\ j + 1 \in 1 .. Len(s)
        /\ (j < i => j # i) /\ (~(j < i) => j + 1 # i)
    BY <1>1, <1>2, SMT
  <2>3. \E k \in 1 .. Len(s) : s[k] = c /\ k # i
    BY <1>1, <2>1, <2>2
  <2> QED BY <1>3, <2>3, RangeParts
<1>7. ASSUME NEW c \in Range(s), c # s[i] PROVE c \in Range(r)
  <2>1. PICK j \in 1 .. Len(s) : s[j] = c
    BY RangeParts
  <2>2. j # i
    BY <1>7, <2>1
  <2>3. CASE j < i
    <3>1. j \in 1 .. Len(s) - 1
      BY <1>2, <2>3, SMT
    <3> QED BY <1>1, <2>1, <2>3, <3>1, RangeParts
  <2>4. CASE ~(j < i)
    <3>1. j - 1 \in 1 .. Len(s) - 1 /\ ~(j - 1 < i) /\ (j - 1) + 1 = j
      BY <1>2, <2>2, <2>4, SMT
    <3>2. r[j - 1] = c
      BY <1>1, <2>1, <3>1
    <3> QED BY <1>1, <3>1, <3>2, RangeParts
  <2> QED BY <2>3, <2>4
<1> QED BY <1>5, <1>6, <1>7 DEF r

\* Sequences with equal entries are equal.
LEMMA SameEntries ==
    ASSUME NEW S, NEW a \in Seq(S), NEW b \in Seq(S), Len(a) = Len(b),
           \A j \in 1 .. Len(a) : a[j] = b[j]
    PROVE  a = b
BY SMT

\* List s while release_client_id moves the entries behind i up: those up to k have
\* been moved.
Moved(s, i, k) == [j \in 1 .. Len(s) |-> IF j \in i .. k THEN s[j + 1] ELSE s[j]]

\* An interrupted release: the entries from i to k have moved up, entry k + 1 is
\* there twice, and the repair completes the release.
LEMMA UntwinnedShifted ==
    ASSUME NEW S, NEW s \in Seq(S), IsInjective(s),
           NEW i \in 1 .. Len(s), NEW k \in i .. Len(s) - 1
    PROVE  /\ Moved(s, i, k) \in Seq(S) /\ Len(Moved(s, i, k)) = Len(s)
           /\ Untwinned(Moved(s, i, k)) = RemoveAt(s, i)
<1> DEFINE h == Moved(s, i, k)
<1> h = [j \in 1 .. Len(s) |-> IF j \in i .. k THEN s[j + 1] ELSE s[j]]
  BY DEF Moved
<1> HIDE DEF h
<1>1. Len(s) \in Nat /\ i \in 1 .. Len(s) /\ k \in i .. Len(s) - 1
  BY SeqParts
<1>2. \A j, n \in 1 .. Len(s) : s[j] = s[n] => j = n
  BY InjectiveParts
<1> DEFINE f(j) == IF j \in i .. k THEN j + 1 ELSE j
<1>3. \A j \in 1 .. Len(s) : f(j) \in 1 .. Len(s)
  BY <1>1, SMT
<1>4. \A j \in 1 .. Len(s) : h[j] = s[f(j)]
  OBVIOUS
<1>5. \A j \in 1 .. Len(s) : s[f(j)] \in S
  <2> HIDE DEF f
  <2> QED BY <1>3, SeqParts
<1>6. h \in [1 .. Len(s) -> S]
  <2>1. h = [j \in 1 .. Len(s) |-> s[f(j)]]
    OBVIOUS
  <2> HIDE DEF f
  <2> QED BY <1>5, <2>1
<1>7. h \in Seq(S) /\ Len(h) = Len(s)
  BY <1>1, <1>6, SMT
<1>8. k + 1 \in 2 .. Len(s) /\ k + 1 \in 1 .. Len(s) /\ (k + 1) - 1 \in 1 .. Len(s)
      /\ f(k + 1) = f((k + 1) - 1)
  BY <1>1, SMT
<1>9. h[k + 1] = h[(k + 1) - 1]
  <2> HIDE DEF f
  <2> QED BY <1>4, <1>8
<1>10. ASSUME NEW j \in 2 .. Len(s), h[j] = h[j - 1] PROVE j = k + 1
  <2>1. j \in 1 .. Len(s) /\ j - 1 \in 1 .. Len(s)
    BY <1>1, SMT
  <2>2. f(j) = f(j - 1)
    <3> HIDE DEF f
    <3>1. /\ h[j] = s[f(j)] /\ f(j) \in 1 .. Len(s)
          /\ h[j - 1] = s[f(j - 1)] /\ f(j - 1) \in 1 .. Len(s)
      BY <1>3, <1>4, <2>1
    <3> QED BY <1>2, <1>10, <3>1
  <2> QED BY <1>1, <2>1, <2>2, SMT
<1>11. Untwinned(h) = RemoveAt(h, k + 1)
  <2>1. \E n \in 2 .. Len(h) : h[n] = h[n - 1] /\ Untwinned(h) = RemoveAt(h, n)
    BY <1>7, <1>8, <1>9, UntwinnedAt
  <2> QED BY <1>7, <1>10, <2>1
<1> DEFINE r == RemoveAt(h, k + 1)
           q == RemoveAt(s, i)
<1>12. /\ r \in Seq(S) /\ Len(r) = Len(s) - 1
       /\ \A j \in 1 .. Len(s) - 1 : r[j] = IF j < k + 1 THEN h[j] ELSE h[j + 1]
  <2>1. h \in Seq(S) /\ k + 1 \in 1 .. Len(h)
    BY <1>7, <1>8
  <2>2. /\ r \in Seq(S) /\ Len(r) = Len(h) - 1
        /\ \A j \in 1 .. Len(h) - 1 : r[j] = IF j < k + 1 THEN h[j] ELSE h[j + 1]
    BY <2>1, RemoveAtParts
  <2> QED BY <1>7, <2>2
<1>13. /\ q \in Seq(S) /\ Len(q) = Len(s) - 1
       /\ \A j \in 1 .. Len(s) - 1 : q[j] = IF j < i THEN s[j] ELSE s[j + 1]
  BY RemoveAtParts
<1> HIDE DEF r, q
<1>14. ASSUME NEW j \in 1 .. Len(s) - 1 PROVE r[j] = q[j]
  <2>1. j \in 1 .. Len(s) /\ j + 1 \in 1 .. Len(s)
    BY <1>1, SMT
  <2>2. CASE j < i
    <3>1. j < k + 1 /\ f(j) = j
      BY <1>1, <2>2, SMT
    <3> HIDE DEF f
    <3> QED BY <1>4, <1>12, <1>13, <2>1, <2>2, <3>1
  <2>3. CASE ~(j < i) /\ j < k + 1
    <3>1. f(j) = j + 1
      BY <1>1, <2>3, SMT
    <3> HIDE DEF f
    <3> QED BY <1>4, <1>12, <1>13, <2>1, <2>3, <3>1
  <2>4. CASE ~(j < i) /\ ~(j < k + 1)
    <3>1. f(j + 1) = j + 1
      BY <1>1, <2>4, SMT
    <3> HIDE DEF f
    <3> QED BY <1>4, <1>12, <1>13, <2>1, <2>4, <3>1
  <2> QED BY <2>2, <2>3, <2>4
<1>15. r = q
  BY <1>12, <1>13, <1>14, SameEntries
<1> QED BY <1>7, <1>11, <1>15 DEF h, r, q

\* v is list u, or u without identifier c.
Without(u, v, c) == v = u \/ \E i \in 1 .. Len(u) : u[i] = c /\ v = RemoveAt(u, i)

\* Taking an identifier out keeps the others, and the first one if it is another.
LEMMA WithoutParts ==
    ASSUME NEW S, NEW u \in Seq(S), IsInjective(u), NEW v, NEW c, Without(u, v, c)
    PROVE  /\ v \in Seq(S) /\ IsInjective(v) /\ Len(v) <= Len(u)
           /\ Range(v) \subseteq Range(u) /\ Range(u) \ {c} \subseteq Range(v)
           /\ u # <<>> /\ u[1] # c => v # <<>> /\ v[1] = u[1]
<1>1. Len(u) \in Nat
  BY SeqParts
<1>2. CASE v = u
  <2>1. Len(u) <= Len(u)
    BY <1>1, SMT
  <2> QED BY <1>2, <2>1
<1>3. ASSUME NEW i \in 1 .. Len(u), u[i] = c, v = RemoveAt(u, i)
      PROVE  /\ v \in Seq(S) /\ IsInjective(v) /\ Len(v) <= Len(u)
             /\ Range(v) \subseteq Range(u) /\ Range(u) \ {c} \subseteq Range(v)
             /\ u # <<>> /\ u[1] # c => v # <<>> /\ v[1] = u[1]
  <2>1. /\ v \in Seq(S) /\ Len(v) = Len(u) - 1
        /\ \A j \in 1 .. Len(u) - 1 : v[j] = IF j < i THEN u[j] ELSE u[j + 1]
    BY <1>3, RemoveAtParts
  <2>2. IsInjective(v) /\ Range(v) = Range(u) \ {u[i]}
    BY <1>3, RemovedMember
  <2>3. Len(u) - 1 <= Len(u)
    BY <1>1, SMT
  <2>4. ASSUME u[1] # c PROVE v # <<>> /\ v[1] = u[1]
    <3>1. i # 1
      BY <1>3, <2>4
    <3>2. 1 \in 1 .. Len(u) - 1 /\ 1 < i /\ Len(u) - 1 # 0
      BY <1>1, <3>1, SMT
    <3>3. v[1] = u[1] /\ Len(v) # 0
      BY <2>1, <3>2
    <3>4. Len(<<>>) = 0
      BY SMT
    <3> QED BY <3>3, <3>4
  <2> QED BY <1>3, <2>1, <2>2, <2>3, <2>4
<1> QED BY <1>2, <1>3 DEF Without

\* Only the list changes.
OnlyList(S, T) ==
    /\ T \in Table /\ T.initialized = S.initialized /\ T.pid = S.pid
    /\ T.max_assigned = S.max_assigned
    /\ T.routing_manager_host = S.routing_manager_host

\* release_client_id takes the identifier out of the list; a process that dies in
\* between leaves a list that is repaired to the old one or to the new one.
LEMMA ReleaseParts ==
    ASSUME NEW S \in Table, IsInjective(Ids(S)), NEW c, NEW r, r = release_client_id(S, c)
    PROVE  /\ OnlyList(S, r.seg) /\ ~r.seg.owner_dead
           /\ Len(r.seg.used) <= Len(Ids(S))
           /\ Without(Ids(S), r.seg.used, c) /\ c \notin Range(r.seg.used)
           /\ \A P \in r.partial :
                 /\ OnlyList(S, P) /\ Len(P.used) <= Len(Ids(S))
                 /\ Without(Ids(S), Untwinned(P.used), c)
<1> DEFINE L == lock(S)
           places == {i \in 1 .. Len(L.used) : L.used[i] = c}
<1>1. /\ L \in Table /\ ~L.owner_dead /\ L.used = Ids(S) /\ OnlyList(S, L)
      /\ Ids(S) \in Seq(Id)
  BY LockParts DEF OnlyList
<1>2. Len(Ids(S)) \in Nat /\ Len(Ids(S)) <= Len(Ids(S))
  BY <1>1, SeqParts, SMT
<1>3. Untwinned(Ids(S)) = Ids(S)
  BY <1>1, UntwinnedInjective
<1>4. CASE places = {}
  <2>1. r = [seg |-> L, partial |-> {L}]
    BY <1>4 DEF release_client_id
  <2>2. r.seg = L /\ r.partial = {L}
    <3> HIDE DEF L
    <3> QED BY <2>1, SMT
  <2>3. c \notin Range(Ids(S))
    <3>1. \A j \in 1 .. Len(Ids(S)) : Ids(S)[j] # c
      BY <1>1, <1>4
    <3> QED BY <1>1, <3>1, RangeParts
  <2> HIDE DEF L
  <2> QED BY <1>1, <1>2, <1>3, <2>2, <2>3 DEF Without
<1>5. CASE places # {}
  <2> DEFINE i == CHOOSE i \in places : \A j \in places : i <= j
             freed == [L EXCEPT !.used = RemoveAt(@, i)]
             parts == {L, freed} \union {shifted(L, i, k) : k \in i .. (Len(L.used) - 1)}
  <2>1. r = [seg |-> freed, partial |-> parts]
    BY <1>5 DEF release_client_id
  <2>2. r.seg = freed /\ r.partial = parts
    <3> HIDE DEF L, freed, parts
    <3> QED BY <2>1, SMT
  <2>3. i \in places
    <3>1. places \in SUBSET Nat
      <4>1. 1 .. Len(L.used) \subseteq Nat
        BY SMT
      <4> QED BY <4>1
    <3>2. i = Min(places)
      BY DEF Min
    <3> HIDE DEF places, i
    <3> QED BY <1>5, <3>1, <3>2, MinIsIn
  <2> HIDE DEF L, i
  <2>4. i \in 1 .. Len(Ids(S)) /\ Ids(S)[i] = c
    BY <1>1, <2>3
  <2>5. /\ RemoveAt(Ids(S), i) \in Seq(Id) /\ IsInjective(RemoveAt(Ids(S), i))
        /\ Len(RemoveAt(Ids(S), i)) <= Len(Ids(S))
        /\ Range(RemoveAt(Ids(S), i)) = Range(Ids(S)) \ {c}
        /\ Without(Ids(S), RemoveAt(Ids(S), i), c)
    <3>1. Without(Ids(S), RemoveAt(Ids(S), i), c)
      BY <2>4 DEF Without
    <3>2. Range(RemoveAt(Ids(S), i)) = Range(Ids(S)) \ {c}
      BY <1>1, <2>4, RemovedMember
    <3> QED BY <1>1, <3>1, <3>2, WithoutParts
  <2>6. freed = [L EXCEPT !.used = RemoveAt(Ids(S), i)]
    BY <1>1, SMT
  <2> HIDE DEF freed
  <2>7. OnlyList(S, freed) /\ freed.used = RemoveAt(Ids(S), i) /\ ~freed.owner_dead
    <3>1. /\ freed \in Table /\ freed.used = RemoveAt(Ids(S), i)
          /\ freed.initialized = L.initialized /\ freed.owner_dead = L.owner_dead
          /\ freed.pid = L.pid /\ freed.max_assigned = L.max_assigned
          /\ freed.routing_manager_host = L.routing_manager_host
      BY <1>1, <2>5, <2>6, WithUsed, SMT
    <3> QED BY <1>1, <3>1 DEF OnlyList
  <2>8. ASSUME NEW k \in i .. (Len(L.used) - 1)
        PROVE  /\ OnlyList(S, shifted(L, i, k))
               /\ Len(shifted(L, i, k).used) <= Len(Ids(S))
               /\ Without(Ids(S), Untwinned(shifted(L, i, k).used), c)
    <3> DEFINE h == Moved(Ids(S), i, k)
    <3>1. k \in i .. Len(Ids(S)) - 1
      BY <1>1
    <3>2. h \in Seq(Id) /\ Len(h) = Len(Ids(S)) /\ Untwinned(h) = RemoveAt(Ids(S), i)
      BY <1>1, <2>4, <3>1, UntwinnedShifted
    <3>3. shifted(L, i, k) = [L EXCEPT !.used = h]
      BY <1>1, SMT DEF shifted, Moved
    <3> HIDE DEF h
    <3>4. /\ shifted(L, i, k) \in Table /\ shifted(L, i, k).used = h
          /\ shifted(L, i, k).initialized = L.initialized
          /\ shifted(L, i, k).pid = L.pid /\ shifted(L, i, k).max_assigned = L.max_assigned
          /\ shifted(L, i, k).routing_manager_host = L.routing_manager_host
      BY <1>1, <3>2, <3>3, WithUsed, SMT
    <3> QED BY <1>1, <1>2, <2>5, <3>2, <3>4 DEF OnlyList
  <2>9. Untwinned(RemoveAt(Ids(S), i)) = RemoveAt(Ids(S), i)
    BY <2>5, UntwinnedInjective
  <2>10. ASSUME NEW P \in parts
         PROVE  /\ OnlyList(S, P) /\ Len(P.used) <= Len(Ids(S))
                /\ Without(Ids(S), Untwinned(P.used), c)
    <3>1. CASE P = L
      BY <1>1, <1>2, <1>3, <3>1 DEF Without
    <3>2. CASE P = freed
      BY <2>5, <2>7, <2>9, <3>2
    <3> QED BY <2>8, <3>1, <3>2
  <2> QED BY <2>2, <2>5, <2>7, <2>10
<1> QED BY <1>4, <1>5

-----------------------------------------------------------------------------
(* request_client_id.                                                      *)

\* Appending an element of S to a sequence over S leaves one.
LEMMA AppendedIn ==
    ASSUME NEW S, NEW s \in Seq(S), NEW e \in S
    PROVE  Append(s, e) \in Seq(S)
BY SMT

\* A new member is appended to a sequence without duplicates.
LEMMA AppendedMember ==
    ASSUME NEW S, NEW s \in Seq(S), IsInjective(s), NEW c \in S, c \notin Range(s)
    PROVE  /\ IsInjective(Append(s, c))
           /\ Range(Append(s, c)) = Range(s) \union {c}
           /\ s # <<>> => Append(s, c)[1] = s[1]
<1> DEFINE r == Append(s, c)
<1>1. /\ r \in Seq(S) /\ Len(r) = Len(s) + 1
      /\ \A j \in 1 .. Len(s) : r[j] = s[j]
      /\ r[Len(s) + 1] = c
  BY SMT
<1> HIDE DEF r
<1>2. Len(s) \in Nat
  BY SeqParts
<1>3. \A j, k \in 1 .. Len(s) : s[j] = s[k] => j = k
  BY InjectiveParts
<1>4. \A j \in 1 .. Len(r) : j \in 1 .. Len(s) \/ j = Len(s) + 1
  BY <1>1, <1>2, SMT
<1>5. \A j \in 1 .. Len(s) : s[j] # c
  BY RangeParts
<1>6. ASSUME NEW j \in 1 .. Len(r), NEW k \in 1 .. Len(r), r[j] = r[k] PROVE j = k
  <2>1. CASE j \in 1 .. Len(s) /\ k \in 1 .. Len(s)
    BY <1>1, <1>3, <1>6, <2>1
  <2>2. CASE j \in 1 .. Len(s) /\ k = Len(s) + 1
    BY <1>1, <1>5, <1>6, <2>2
  <2>3. CASE j = Len(s) + 1 /\ k \in 1 .. Len(s)
    BY <1>1, <1>5, <1>6, <2>3
  <2> QED BY <1>4, <2>1, <2>2, <2>3
<1>7. IsInjective(r)
  <2>1. r \in Seq(S) /\ \A j, k \in 1 .. Len(r) : r[j] = r[k] => j = k
    BY <1>1, <1>6
  <2> QED BY <2>1, InjectiveParts
<1>8. Len(s) + 1 \in 1 .. Len(r) /\ \A j \in 1 .. Len(s) : j \in 1 .. Len(r)
  BY <1>1, <1>2, SMT
<1>9. \A x : x \in Range(r) <=> x \in Range(s) \/ x = c
  <2>1. \A x : x \in Range(r) <=> \E j \in 1 .. Len(r) : r[j] = x
    BY <1>1, RangeParts
  <2>2. \A x : x \in Range(s) <=> \E j \in 1 .. Len(s) : s[j] = x
    BY RangeParts
  <2> QED BY <1>1, <1>4, <1>8, <2>1, <2>2
<1>10. s # <<>> => r[1] = s[1]
  <2>1. s # <<>> => 1 \in 1 .. Len(s)
    BY <1>2, SMT
  <2> QED BY <1>1, <2>1
<1> QED BY <1>7, <1>9, <1>10 DEF r

\* The last assigned identifier.
LEMMA WithMaxAssigned ==
    ASSUME NEW S \in Table, NEW n \in 0 .. max_clients - 1, NEW T,
           T = [S EXCEPT !.max_assigned = n]
    PROVE  /\ T \in Table /\ T.max_assigned = n
           /\ T.initialized = S.initialized /\ T.owner_dead = S.owner_dead
           /\ T.used = S.used /\ T.pid = S.pid
           /\ T.routing_manager_host = S.routing_manager_host
BY SMT DEF Table

\* is_used_client_id finds what the list holds.
LEMMA UsedParts ==
    ASSUME NEW S \in Table
    PROVE  \A c : is_used_client_id(S, c) <=> c \in Range(S.used)
<1>1. S.used \in Seq(Id)
  BY TableFields
<1> QED BY <1>1, RangeParts DEF is_used_client_id

\* The wrap of the search changes nothing but the last assigned identifier.
LEMMA WrappedParts ==
    ASSUME max_clients \in Nat \ {0}, NEW S \in Table
    PROVE  /\ wrapped(S) \in Table /\ wrapped(S).max_assigned = 0
           /\ wrapped(S).initialized = S.initialized
           /\ wrapped(S).owner_dead = S.owner_dead
           /\ wrapped(S).used = S.used /\ wrapped(S).pid = S.pid
           /\ wrapped(S).routing_manager_host = S.routing_manager_host
<1>1. 0 \in 0 .. max_clients - 1
  BY SMT
<1>2. wrapped(S) = [S EXCEPT !.max_assigned = 0]
  BY DEF wrapped
<1> QED BY <1>1, <1>2, WithMaxAssigned, SMT

\* The search finds an identifier that is not used; when it finds none, the last
\* assigned identifier is forgotten, and if it was forgotten before, none is free.
LEMMA SearchParts ==
    ASSUME max_clients \in Nat \ {0}, NEW S \in Table
    PROVE  /\ search(S).seg \in {S, wrapped(S)}
           /\ search(S).client \in Id \union {ILLEGAL_CLIENT}
           /\ search(S).client # ILLEGAL_CLIENT => search(S).client \notin Range(S.used)
           /\ search(S).client = ILLEGAL_CLIENT =>
                 /\ search(S).seg = wrapped(S)
                 /\ S.max_assigned = 0 =>
                       \A c \in client_base .. (diagnosis + max_clients) :
                           is_used_client_id(S, c) \/ is_configured_client_id(c)
<1> DEFINE top == client_base .. (diagnosis + max_clients)
           fresh == {c \in top : ~unusable(S, c)}
           again == {c \in {client_base, client_base + 1} \intersect Id :
                        ~unusable(wrapped(S), c)}
<1>1. /\ top = Id \ {diagnosis} /\ Id \subseteq Nat /\ ILLEGAL_CLIENT \notin Id
      /\ \A c \in Id \ {diagnosis} : c > diagnosis + 0
  BY IdParts
<1>2. wrapped(S) \in Table /\ wrapped(S).used = S.used
  BY WrappedParts
<1>3. \A c : ~unusable(S, c) => c \notin Range(S.used)
  BY UsedParts DEF unusable
<1>4. \A c : ~unusable(wrapped(S), c) => c \notin Range(S.used)
  BY <1>2, UsedParts DEF unusable
<1>5. fresh # {} => Min(fresh) \in fresh
  <2>1. fresh \in SUBSET Nat
    BY <1>1
  <2> HIDE DEF fresh
  <2> QED BY <2>1, MinIsIn
<1>6. again # {} => Min(again) \in again
  <2>1. again \in SUBSET Nat
    BY <1>1
  <2> HIDE DEF again
  <2> QED BY <2>1, MinIsIn
<1>7. CASE fresh # {}
  <2>1. search(S) = [seg |-> S, client |-> Min(fresh)]
    BY <1>7 DEF search
  <2>2. search(S).seg = S /\ search(S).client = Min(fresh)
    BY <2>1, SMT
  <2>3. Min(fresh) \in Id /\ Min(fresh) \notin Range(S.used) /\ Min(fresh) # ILLEGAL_CLIENT
    BY <1>1, <1>3, <1>5, <1>7
  <2> QED BY <2>2, <2>3
<1>8. CASE fresh = {} /\ again # {}
  <2>1. search(S) = [seg |-> wrapped(S), client |-> Min(again)]
    BY <1>8 DEF search
  <2>2. search(S).seg = wrapped(S) /\ search(S).client = Min(again)
    BY <2>1, SMT
  <2>3. Min(again) \in Id /\ Min(again) \notin Range(S.used) /\ Min(again) # ILLEGAL_CLIENT
    BY <1>1, <1>4, <1>6, <1>8
  <2> QED BY <2>2, <2>3
<1>9. CASE fresh = {} /\ again = {}
  <2>1. search(S) = [seg |-> wrapped(S), client |-> ILLEGAL_CLIENT]
    BY <1>9 DEF search
  <2>2. search(S).seg = wrapped(S) /\ search(S).client = ILLEGAL_CLIENT
    BY <2>1, SMT
  <2>3. ASSUME S.max_assigned = 0, NEW c \in top
        PROVE  is_used_client_id(S, c) \/ is_configured_client_id(c)
    <3>1. is_bigger_last_assigned_client_id(S, c)
      BY <1>1, <2>3 DEF is_bigger_last_assigned_client_id
    <3>2. unusable(S, c)
      BY <1>9
    <3> QED BY <3>1, <3>2 DEF unusable
  <2> QED BY <2>2, <2>3
<1> QED BY <1>7, <1>8, <1>9

\* The identifier is free, and only the last assigned identifier is written.
LEMMA AllocateParts ==
    ASSUME max_clients \in Nat \ {0}, NEW S \in Table, NEW a,
           get_id[a] \in Id \union {ILLEGAL_CLIENT}
    PROVE  /\ allocate(S, a).seg \in Table
           /\ allocate(S, a).seg.initialized = S.initialized
           /\ allocate(S, a).seg.owner_dead = S.owner_dead
           /\ allocate(S, a).seg.used = S.used /\ allocate(S, a).seg.pid = S.pid
           /\ allocate(S, a).seg.routing_manager_host = S.routing_manager_host
           /\ allocate(S, a).client \in Id \union {ILLEGAL_CLIENT}
           /\ allocate(S, a).client # ILLEGAL_CLIENT =>
                 allocate(S, a).client \notin Range(S.used)
           /\ allocate(S, a).client = ILLEGAL_CLIENT =>
                 /\ allocate(S, a).seg.max_assigned = 0
                 /\ S.max_assigned = 0 =>
                       \A c \in client_base .. (diagnosis + max_clients) :
                           is_used_client_id(S, c) \/ is_configured_client_id(c)
<1> DEFINE r == search(S)
           same(T) == /\ T \in Table
                      /\ T.initialized = S.initialized /\ T.owner_dead = S.owner_dead
                      /\ T.used = S.used /\ T.pid = S.pid
                      /\ T.routing_manager_host = S.routing_manager_host
<1>1. CASE get_id[a] # ILLEGAL_CLIENT /\ ~is_used_client_id(S, get_id[a])
  <2>1. allocate(S, a) = [seg |-> S, client |-> get_id[a]]
    BY <1>1 DEF allocate
  <2>2. allocate(S, a).seg = S /\ allocate(S, a).client = get_id[a]
    BY <2>1, SMT
  <2> QED BY <1>1, <2>2, UsedParts
<1>2. CASE ~(get_id[a] # ILLEGAL_CLIENT /\ ~is_used_client_id(S, get_id[a]))
  <2>1. same(r.seg)
    BY SearchParts, WrappedParts
  <2>2. CASE r.client = ILLEGAL_CLIENT
    <3>1. allocate(S, a) = r
      BY <1>2, <2>2 DEF allocate
    <3>2. r.seg.max_assigned = 0
      BY <2>2, SearchParts, WrappedParts
    <3> QED BY <2>1, <2>2, <3>1, <3>2, SearchParts
  <2>3. CASE r.client # ILLEGAL_CLIENT
    <3> DEFINE T == set_max_assigned_client_id_without_diagnosis(r.seg, r.client)
    <3>1. allocate(S, a) = [r EXCEPT !.seg = T]
      BY <1>2, <2>3, SMT DEF allocate
    <3>2. r = [seg |-> r.seg, client |-> r.client]
      BY DEF search
    <3>3. allocate(S, a).seg = T /\ allocate(S, a).client = r.client
      <4> HIDE DEF r, T
      <4> QED BY <3>1, <3>2, SMT
    <3>4. (r.client % (max_clients + 1)) % max_clients \in 0 .. max_clients - 1
      <4>1. r.client \in Nat
        BY <2>3, SearchParts, IdParts
      <4> HIDE DEF r
      <4> QED BY <4>1, SMT
    <3>5. same(T)
      <4> HIDE DEF r
      <4>1. T = [r.seg EXCEPT !.max_assigned = (r.client % (max_clients + 1)) % max_clients]
        BY DEF set_max_assigned_client_id_without_diagnosis
      <4> HIDE DEF T
      <4> QED BY <2>1, <3>4, <4>1, WithMaxAssigned, SMT
    <3> QED BY <2>3, <3>3, <3>5, SearchParts
  <2> QED BY <2>2, <2>3
<1> QED BY <1>1, <1>2

\* The routing manager that a request finds in the table, and whether it takes over.
HostSeen(S, a) == taken_over(lock(S), a).routing_manager_host
Takes(S, a) == set_client_as_manager_host(taken_over(lock(S), a), a)

\* A request first repairs the table; then it forgets the routing manager, but only
\* one whose process is gone, and takes the role only when nobody has it.
LEMMA TakenOverParts ==
    ASSUME NEW S \in Table, NEW a
    PROVE  LET T == taken_over(lock(S), a)
           IN  /\ T \in Table /\ ~T.owner_dead /\ T.used = Ids(S)
               /\ T.initialized = S.initialized /\ T.pid = S.pid
               /\ T.max_assigned = S.max_assigned
               /\ HostSeen(S, a) \in {ILLEGAL_CLIENT, S.routing_manager_host}
               /\ S.pid # DeadPid => HostSeen(S, a) = S.routing_manager_host
               /\ Takes(S, a) => HostSeen(S, a) = ILLEGAL_CLIENT
<1> DEFINE L == lock(S)
           T == taken_over(L, a)
<1>1. /\ L \in Table /\ ~L.owner_dead /\ L.used = Ids(S)
      /\ L.initialized = S.initialized /\ L.pid = S.pid
      /\ L.max_assigned = S.max_assigned
      /\ L.routing_manager_host = S.routing_manager_host
  BY LockParts
<1> HIDE DEF L
<1>2. Takes(S, a) => HostSeen(S, a) = ILLEGAL_CLIENT
  BY DEF Takes, HostSeen, set_client_as_manager_host
<1>3. HostSeen(S, a) = T.routing_manager_host
  BY DEF HostSeen, L
<1>4. CASE T = L
  BY <1>1, <1>2, <1>3, <1>4 DEF L
<1>5. CASE T = [L EXCEPT !.routing_manager_host = ILLEGAL_CLIENT] /\ L.pid = DeadPid
  <2> HIDE DEF T
  <2>1. /\ T \in Table /\ T.routing_manager_host = ILLEGAL_CLIENT
        /\ T.initialized = L.initialized /\ T.owner_dead = L.owner_dead
        /\ T.used = L.used /\ T.max_assigned = L.max_assigned
        /\ T.pid = L.pid
    BY <1>1, <1>5, WithHost, SMT
  <2> QED BY <1>1, <1>2, <1>3, <1>5, <2>1 DEF L, T
<1> QED BY <1>4, <1>5 DEF taken_over

\* What request_client_id returns and leaves, and what a process that dies in it leaves.
Requested(S, a, r) ==
    /\ r.client \in Id \union {ILLEGAL_CLIENT}
    /\ r.seg \in Table /\ Len(r.seg.used) <= max_clients
    /\ ~r.seg.owner_dead /\ r.seg.initialized = S.initialized
    /\ r.client = ILLEGAL_CLIENT =>
          /\ r.seg.used = Ids(S)
          /\ r.free => r.seg.max_assigned = 0 /\ S.max_assigned # 0
          /\ S.max_assigned = 0 => r.seg.max_assigned = 0
    /\ r.client # ILLEGAL_CLIENT =>
          r.client \notin Range(Ids(S)) /\ r.seg.used = Append(Ids(S), r.client)
    /\ IF r.client # ILLEGAL_CLIENT /\ Takes(S, a)
       THEN r.seg.routing_manager_host = r.client /\ r.seg.pid = Home[a]
       ELSE r.seg.routing_manager_host = HostSeen(S, a) /\ r.seg.pid = S.pid

Interrupted(S, a, r, P) ==
    /\ P \in Table /\ Len(P.used) <= max_clients
    /\ P.initialized = S.initialized
    /\ \/ P.used = Ids(S)
       \/ /\ P.used = Append(Ids(S), r.client)
          /\ r.client \in Id \ Range(Ids(S))
    /\ \/ /\ P.routing_manager_host \in {S.routing_manager_host, HostSeen(S, a)}
          /\ P.pid = S.pid
       \/ /\ Takes(S, a) /\ r.client \in Id
          /\ P.routing_manager_host = r.client
          /\ P.pid \in {S.pid, Home[a]}

\* What request_client_id returns, and the table it leaves.
LEMMA RequestParts ==
    ASSUME ConfsOK, conf \in Confs, NEW S \in Table, Len(S.used) <= max_clients,
           NEW a \in App, NEW r, r = request_client_id(S, a)
    PROVE  Requested(S, a, r) /\ \A P \in r.partial : Interrupted(S, a, r, P)
<1> DEFINE L == lock(S)
           T == taken_over(L, a)
           q == allocate(T, a)
           becomes == set_client_as_manager_host(T, a)
           named == IF becomes THEN [q.seg EXCEPT !.routing_manager_host = q.client] ELSE q.seg
           pid == IF becomes THEN [named EXCEPT !.pid = Home[a]] ELSE named
           listed == [pid EXCEPT !.used = Append(@, q.client)]
<1>1. /\ L \in Table /\ L.used = Ids(S) /\ L.initialized = S.initialized /\ L.pid = S.pid
      /\ L.routing_manager_host = S.routing_manager_host
  BY LockParts
<1>2. /\ T \in Table /\ ~T.owner_dead /\ T.used = Ids(S)
      /\ T.initialized = S.initialized /\ T.pid = S.pid
      /\ T.max_assigned = S.max_assigned
      /\ T.routing_manager_host = HostSeen(S, a)
      /\ becomes <=> Takes(S, a)
  BY TakenOverParts DEF HostSeen, Takes
<1>3. Ids(S) \in Seq(Id) /\ Len(Ids(S)) <= max_clients /\ Len(Ids(S)) \in Nat
      /\ max_clients \in Nat \ {0}
  <2>1. Ids(S) \in Seq(Id) /\ Len(Ids(S)) <= Len(S.used) /\ S.used \in Seq(Id)
    BY LockParts, TableFields
  <2>2. Len(Ids(S)) \in Nat /\ Len(S.used) \in Nat
    BY <2>1, SeqParts
  <2>3. max_clients \in Nat \ {0}
    BY ConfParts
  <2> QED BY <2>1, <2>2, <2>3, SMT
<1>4. get_id[a] \in Id \union {ILLEGAL_CLIENT} /\ Home[a] \in Process /\ ILLEGAL_CLIENT \notin Id
  BY <1>3, ConfParts, IdParts
<1> HIDE DEF L, T
<1>5. /\ q.seg \in Table /\ q.seg.initialized = T.initialized
      /\ q.seg.owner_dead = T.owner_dead /\ q.seg.used = T.used /\ q.seg.pid = T.pid
      /\ q.seg.routing_manager_host = T.routing_manager_host
      /\ q.client \in Id \union {ILLEGAL_CLIENT}
      /\ q.client # ILLEGAL_CLIENT => q.client \notin Range(T.used)
      /\ q.client = ILLEGAL_CLIENT =>
            /\ q.seg.max_assigned = 0
            /\ T.max_assigned = 0 =>
                  \A c \in client_base .. (diagnosis + max_clients) :
                      is_used_client_id(T, c) \/ is_configured_client_id(c)
  BY <1>2, <1>3, <1>4, AllocateParts
<1>6. request_client_id(S, a) =
        IF already_exists(T, a) \/ full(T)
        THEN [seg |-> T, client |-> ILLEGAL_CLIENT, free |-> FALSE, partial |-> {L, T}]
        ELSE IF q.client = ILLEGAL_CLIENT
        THEN [seg |-> q.seg, client |-> ILLEGAL_CLIENT,
              free |-> \E c \in client_base..(diagnosis + max_clients) :
                           ~is_used_client_id(T, c) /\ ~is_configured_client_id(c),
              partial |-> {L, T, q.seg}]
        ELSE [seg |-> listed, client |-> q.client, free |-> TRUE,
              partial |-> {L, T, q.seg, named, pid, listed}]
  BY DEF request_client_id, L, T
<1> HIDE DEF q
<1>7. CASE already_exists(T, a) \/ full(T)
  <2>1. r.seg = T /\ r.client = ILLEGAL_CLIENT /\ r.free = FALSE /\ r.partial = {L, T}
    <3>1. r = [seg |-> T, client |-> ILLEGAL_CLIENT, free |-> FALSE, partial |-> {L, T}]
      BY <1>6, <1>7
    <3> QED BY <3>1, SMT
  <2> QED BY <1>1, <1>2, <1>3, <2>1 DEF Requested, Interrupted
<1>8. CASE ~(already_exists(T, a) \/ full(T)) /\ q.client = ILLEGAL_CLIENT
  <2> DEFINE f == \E c \in client_base..(diagnosis + max_clients) :
                      ~is_used_client_id(T, c) /\ ~is_configured_client_id(c)
  <2>1. r.seg = q.seg /\ r.client = ILLEGAL_CLIENT /\ r.free = f /\ r.partial = {L, T, q.seg}
    <3>1. r = [seg |-> q.seg, client |-> ILLEGAL_CLIENT, free |-> f,
               partial |-> {L, T, q.seg}]
      BY <1>6, <1>8
    <3> HIDE DEF f
    <3> QED BY <3>1, SMT
  <2>2. f => T.max_assigned # 0
    BY <1>5, <1>8
  <2> HIDE DEF f
  <2> QED BY <1>1, <1>2, <1>3, <1>5, <1>8, <2>1, <2>2 DEF Requested, Interrupted
<1>9. CASE ~(already_exists(T, a) \/ full(T)) /\ q.client # ILLEGAL_CLIENT
  <2>1. r.seg = listed /\ r.client = q.client /\ r.partial = {L, T, q.seg, named, pid, listed}
    <3>1. r = [seg |-> listed, client |-> q.client, free |-> TRUE,
               partial |-> {L, T, q.seg, named, pid, listed}]
      BY <1>6, <1>9
    <3> HIDE DEF named, pid, listed
    <3> QED BY <3>1, SMT
  <2> DEFINE same(R) == R \in Table /\ R.initialized = S.initialized /\ ~R.owner_dead
  <2>2. /\ same(named) /\ named.used = Ids(S) /\ named.pid = S.pid
        /\ named.routing_manager_host =
              IF Takes(S, a) THEN q.client ELSE HostSeen(S, a)
    <3>1. CASE ~Takes(S, a)
      BY <1>2, <1>5, <3>1
    <3>2. CASE Takes(S, a)
      <4>1. named = [q.seg EXCEPT !.routing_manager_host = q.client]
        BY <1>2, <3>2
      <4> HIDE DEF named
      <4>2. /\ named \in Table /\ named.routing_manager_host = q.client
            /\ named.initialized = q.seg.initialized
            /\ named.owner_dead = q.seg.owner_dead /\ named.used = q.seg.used
            /\ named.pid = q.seg.pid
        <5>1. q.seg \in Table /\ q.client \in Id \union {ILLEGAL_CLIENT}
          BY <1>5
        <5> QED BY <4>1, <5>1, SMT DEF Table
      <4> QED BY <1>2, <1>5, <3>2, <4>2
    <3> QED BY <3>1, <3>2
  <2> HIDE DEF named
  <2>3. /\ same(pid) /\ pid.used = Ids(S)
        /\ pid.pid = IF Takes(S, a) THEN Home[a] ELSE S.pid
        /\ pid.routing_manager_host = named.routing_manager_host
    BY <1>2, <1>4, <2>2, WithPid, SMT
  <2> HIDE DEF pid
  <2>4. /\ same(listed) /\ listed.used = Append(Ids(S), q.client)
        /\ listed.pid = pid.pid
        /\ listed.routing_manager_host = pid.routing_manager_host
    <3> DEFINE u == Append(Ids(S), q.client)
    <3>1. u \in Seq(Id)
      BY <1>3, <1>5, <1>9, AppendedIn
    <3>2. listed = [pid EXCEPT !.used = u] /\ pid \in Table
      BY <2>3, SMT
    <3> HIDE DEF listed, u
    <3>3. /\ listed \in Table /\ listed.used = u
          /\ listed.initialized = pid.initialized /\ listed.owner_dead = pid.owner_dead
          /\ listed.pid = pid.pid /\ listed.routing_manager_host = pid.routing_manager_host
      BY <3>1, <3>2, SMT DEF Table
    <3> QED BY <2>3, <3>3 DEF u
  <2> HIDE DEF listed
  <2>5. Len(Append(Ids(S), q.client)) <= max_clients
    <3>1. Len(Ids(S)) # max_clients
      BY <1>2, <1>9 DEF full
    <3>2. Len(Append(Ids(S), q.client)) = Len(Ids(S)) + 1
      BY <1>3, SMT
    <3> QED BY <1>3, <3>1, <3>2, SMT
  <2>6. q.client \in Id \ Range(Ids(S)) /\ q.client # ILLEGAL_CLIENT
    BY <1>2, <1>5, <1>9
  <2>7. /\ q.seg.used = Ids(S) /\ q.seg.initialized = S.initialized /\ q.seg.pid = S.pid
        /\ q.seg.routing_manager_host = HostSeen(S, a) /\ q.seg \in Table
    BY <1>2, <1>5
  <2>8. ASSUME NEW P \in r.partial PROVE Interrupted(S, a, r, P)
    <3>1. CASE P \in {L, T, q.seg}
      BY <1>1, <1>2, <1>3, <2>7, <3>1 DEF Interrupted
    <3>2. CASE P = named
      BY <1>3, <2>1, <2>2, <2>6, <3>2 DEF Interrupted
    <3>3. CASE P = pid
      BY <1>3, <2>1, <2>2, <2>3, <2>6, <3>3 DEF Interrupted
    <3>4. CASE P = listed
      BY <2>1, <2>2, <2>3, <2>4, <2>5, <2>6, <3>4 DEF Interrupted
    <3> QED BY <2>1, <3>1, <3>2, <3>3, <3>4
  <2> QED BY <1>2, <2>1, <2>2, <2>3, <2>4, <2>5, <2>6, <2>8 DEF Requested
<1> QED BY <1>7, <1>8, <1>9

-----------------------------------------------------------------------------
(* Both functions are atomic, crashes included.                            *)

\* Once list v is repaired, it names nobody twice and, c aside, those table S names.
SameBut(S, v, c) ==
    /\ Untwinned(v) \in Seq(Id) /\ IsInjective(Untwinned(v))
    /\ Range(Untwinned(v)) \ {c} = Range(Ids(S)) \ {c}

\* A list without duplicates is its own repair.
LEMMA SameButWhole ==
    ASSUME NEW S, NEW v \in Seq(Id), IsInjective(v), NEW c,
           Range(v) \ {c} = Range(Ids(S)) \ {c}
    PROVE  SameBut(S, v, c)
<1>1. Untwinned(v) = v
  BY UntwinnedInjective
<1> QED BY <1>1 DEF SameBut

\* release_client_id takes its identifier out of a table and nothing else, the role of
\* routing manager included; if its process dies on the way, what the next one finds
\* is repaired to the table with or without that identifier.
THEOREM ReleaseIsAtomic ==
    ASSUME NEW S \in Table, IsInjective(Ids(S)), NEW c, NEW r, r = release_client_id(S, c)
    PROVE  /\ OnlyList(S, r.seg) /\ SameBut(S, r.seg.used, c) /\ c \notin Range(r.seg.used)
           /\ \A P \in r.partial : OnlyList(S, P) /\ SameBut(S, P.used, c)
<1>1. Ids(S) \in Seq(Id)
  BY LockParts
<1>2. /\ OnlyList(S, r.seg) /\ Without(Ids(S), r.seg.used, c) /\ c \notin Range(r.seg.used)
      /\ \A P \in r.partial : OnlyList(S, P) /\ Without(Ids(S), Untwinned(P.used), c)
  BY ReleaseParts
<1>3. ASSUME NEW v, Without(Ids(S), v, c)
      PROVE  v \in Seq(Id) /\ IsInjective(v) /\ Range(v) \ {c} = Range(Ids(S)) \ {c}
  <2>1. /\ v \in Seq(Id) /\ IsInjective(v)
        /\ Range(v) \subseteq Range(Ids(S)) /\ Range(Ids(S)) \ {c} \subseteq Range(v)
    BY <1>1, <1>3, WithoutParts
  <2> QED BY <2>1
<1>4. SameBut(S, r.seg.used, c)
  BY <1>2, <1>3, SameButWhole
<1>5. ASSUME NEW P \in r.partial PROVE SameBut(S, P.used, c)
  BY <1>2, <1>3 DEF SameBut
<1> QED BY <1>2, <1>4, <1>5

\* request_client_id gives an application an identifier nobody in the table has and
\* adds it, or refuses and adds nothing; if its process dies on the way, what the next
\* one finds is repaired to the table with or without that identifier.
THEOREM RequestIsAtomic ==
    ASSUME ConfsOK, conf \in Confs, NEW S \in Table, Len(S.used) <= max_clients,
           IsInjective(Ids(S)), NEW a \in App, NEW r, r = request_client_id(S, a)
    PROVE  /\ r.seg \in Table /\ Len(r.seg.used) <= max_clients
           /\ IF r.client = ILLEGAL_CLIENT THEN r.seg.used = Ids(S)
              ELSE /\ r.client \in Id \ Range(Ids(S))
                   /\ r.client \in Range(r.seg.used) /\ SameBut(S, r.seg.used, r.client)
           /\ \A P \in r.partial : /\ P \in Table /\ Len(P.used) <= max_clients
                                   /\ SameBut(S, P.used, r.client)
<1> DEFINE u == Ids(S)
           c == r.client
<1>1. u \in Seq(Id)
  BY LockParts
<1>2. Requested(S, a, r) /\ \A P \in r.partial : Interrupted(S, a, r, P)
  BY RequestParts
<1>3. /\ r.seg \in Table /\ Len(r.seg.used) <= max_clients
      /\ c = ILLEGAL_CLIENT => r.seg.used = u
      /\ c # ILLEGAL_CLIENT => c \in Id \ Range(u) /\ r.seg.used = Append(u, c)
  BY <1>2 DEF Requested
<1>4. /\ \A P \in r.partial : P \in Table /\ Len(P.used) <= max_clients
      /\ \A P \in r.partial :
            P.used = u \/ (P.used = Append(u, c) /\ c \in Id \ Range(u))
  BY <1>2 DEF Interrupted
<1> HIDE DEF u, c
<1>5. SameBut(S, u, c)
  BY <1>1, SameButWhole DEF u
<1>6. ASSUME c \in Id \ Range(u)
      PROVE  c \in Range(Append(u, c)) /\ SameBut(S, Append(u, c), c)
  <2>1. /\ IsInjective(Append(u, c)) /\ Range(Append(u, c)) = Range(u) \union {c}
        /\ Append(u, c) \in Seq(Id)
    <3>1. IsInjective(u) /\ c \in Id /\ c \notin Range(u)
      BY <1>6 DEF u
    <3> QED BY <1>1, <3>1, AppendedMember, AppendedIn
  <2>2. Range(Append(u, c)) \ {c} = Range(Ids(S)) \ {c}
    BY <2>1 DEF u
  <2> QED BY <2>1, <2>2, SameButWhole
<1> QED BY <1>3, <1>4, <1>5, <1>6 DEF u, c
====
