------------------------------ MODULE ClientIds ------------------------------
(***************************************************************************)
(* Client identifiers (utility): every application of a machine takes its  *)
(* identifier, and one of them the role of the routing manager, from a     *)
(* table in shared memory guarded by a robust process-shared mutex.  A     *)
(* process may die at any point, inside the mutex included: what it had    *)
(* written stays, and the next one to lock the mutex is told (EOWNERDEAD)  *)
(* and repairs the table.  The segment is removed by name when the routing *)
(* manager exits, while other processes may still have it mapped.          *)
(***************************************************************************)
EXTENDS Integers, Sequences, FiniteSetsExt

CONSTANTS
    Process,      \* the processes
    NoName,       \* no routing manager configured: whoever comes first
    Confs,        \* the configurations considered
    MaxRefs       \* bound: its_configuration_refs__ (a refused application is not uncounted)

VARIABLES
    conf,         \* the configuration: home (the process of an application),
                  \* routing_host (an application or NoName), id (preconfigured
                  \* identifiers), max_clients (complement of the diagnosis mask,
                  \* 2^k - 1); and two bounds: crashes (how many may happen) and
                  \* segments (in use at the same time)
    segment,      \* the shared memory segments
    linked,       \* the segment that has the name, or 0
    data,         \* per process: the_configuration_data__, a segment or 0
    refs,         \* per process: its_configuration_refs__
    app,          \* per application: where it is, its client_ and its role
    crashes,      \* crashes that may still happen
    unknown,      \* <<segment, id>>: taken by a process that died before it returned
    refusals,     \* ghost, per segment: requests refused in a row although an
                  \* identifier was free
    tags          \* ghost: what happened that the properties make allowances for

vars == <<conf, segment, linked, data, refs, app, crashes, unknown, refusals, tags>>

Home == conf.home
App == DOMAIN Home
routing_host == conf.routing_host
get_id == conf.id
max_clients == conf.max_clients

ILLEGAL_CLIENT == 0
DeadPid == "dead"   \* pid_ of a process that no longer exists
NoPid == "none"     \* pid_ is 0

\* The diagnosis address is 1: identifiers are diagnosis, diagnosis + 1, ...
diagnosis == max_clients + 1
client_base == diagnosis + 1
Id == diagnosis..(diagnosis + max_clients)

\* What ftruncate leaves: all bytes are 0.
Blank ==
    [initialized |-> FALSE, owner_dead |-> FALSE, pid |-> NoPid, used |-> <<>>,
     max_assigned |-> 0, routing_manager_host |-> ILLEGAL_CLIENT]

\* The first part of auto_configuration_init: the segment is laid out by the
\* process that created it; the diagnosis address itself is never given away.
LaidOut == [Blank EXCEPT !.initialized = TRUE, !.used = <<diagnosis>>]

\* What the configurations are: every application has a process and perhaps a
\* preconfigured identifier, and there is at least one identifier.
ConfsOK ==
    /\ {DeadPid, NoPid} \intersect Process = {}
    /\ MaxRefs \in Nat
    /\ \A k \in Confs :
          /\ k.max_clients \in Nat \ {0}
          /\ k.crashes \in Nat
          /\ k.segments \in Nat
          /\ k.home \in [DOMAIN k.home -> Process]
          /\ NoName \notin DOMAIN k.home
          /\ DOMAIN k.home \subseteq DOMAIN k.id
          /\ \A a \in DOMAIN k.id :
                k.id[a] \in {ILLEGAL_CLIENT} \union
                            (k.max_clients + 1)..(2 * k.max_clients + 1)

NotStarted == [at |-> "off", client |-> ILLEGAL_CLIENT, seg |-> 0, host |-> FALSE]

-----------------------------------------------------------------------------
(* The table, always accessed under the mutex.                             *)

\* The list without its i-th entry, the later ones moved up.
RemoveAt(s, i) == SubSeq(s, 1, i - 1) \o SubSeq(s, i + 1, Len(s))

\* check_client_id_consistency: of the first two equal neighbours, which an
\* interrupted release leaves behind, the second one is removed.
check_client_id_consistency(S) ==
    LET twins == {i \in 2..Len(S.used) : S.used[i] = S.used[i - 1]}
    IN  IF twins = {} THEN S
        ELSE LET i == CHOOSE i \in twins : \A j \in twins : i <= j
             IN  [S EXCEPT !.used = RemoveAt(@, i)]

\* pthread_mutex_lock, and the repair after EOWNERDEAD.
lock(S) ==
    IF S.owner_dead THEN [check_client_id_consistency(S) EXCEPT !.owner_dead = FALSE]
    ELSE S

is_used_client_id(S, c) == \E i \in 1..Len(S.used) : S.used[i] = c

is_configured_client_id(c) == \E a \in DOMAIN get_id : get_id[a] = c

is_bigger_last_assigned_client_id(S, c) == c > diagnosis + S.max_assigned

set_max_assigned_client_id_without_diagnosis(S, c) ==
    [S EXCEPT !.max_assigned = (c % (max_clients + 1)) % max_clients]

\* Mutant: an identifier in use is not skipped.
unusable_ignoring_used(S, c) ==
    \/ ~is_bigger_last_assigned_client_id(S, c)
    \/ is_configured_client_id(c)

unusable(S, c) ==
    \/ is_used_client_id(S, c)
    \/ ~is_bigger_last_assigned_client_id(S, c)
    \/ is_configured_client_id(c)

wrapped(S) == [S EXCEPT !.max_assigned = 0]

\* The search of request_client_id: from the base on, a wrap at the top forgets
\* the last assigned identifier, and more than max_clients steps give up.  The steps
\* before the wrap count as well: after it only the first two identifiers are tried.
search(S) ==
    LET fresh == {c \in client_base..(diagnosis + max_clients) : ~unusable(S, c)}
        again == {c \in {client_base, client_base + 1} \intersect Id :
                     ~unusable(wrapped(S), c)}
    IN  IF fresh # {} THEN [seg |-> S, client |-> Min(fresh)]
        ELSE [seg |-> wrapped(S),
              client |-> IF again # {} THEN Min(again) ELSE ILLEGAL_CLIENT]

\* The same search step by step, as its loop is written: what search is checked against.
search_loop(S) ==
    LET go[n \in 0..max_clients, c \in Id, R \in {S, wrapped(S)}] ==
            IF ~unusable(R, c) THEN [seg |-> R, client |-> c]
            ELSE IF (c % (max_clients + 1)) + 1 > max_clients
            THEN go[n, client_base, wrapped(S)]
            ELSE IF n + 1 > max_clients THEN [seg |-> R, client |-> ILLEGAL_CLIENT]
            ELSE go[n + 1, c + 1, R]
    IN  go[0, client_base, S]

\* The preconfigured identifier if there is one and it is free, else the next one
\* the search finds, which is remembered.
allocate(S, a) ==
    IF get_id[a] # ILLEGAL_CLIENT /\ ~is_used_client_id(S, get_id[a])
    THEN [seg |-> S, client |-> get_id[a]]
    ELSE LET r == search(S)
         IN  IF r.client = ILLEGAL_CLIENT THEN r
             ELSE [r EXCEPT !.seg =
                       set_max_assigned_client_id_without_diagnosis(@, r.client)]

\* A candidate for the routing manager takes over if kill(pid_, 0) says that the
\* process of the last one is gone.
taken_over(S, a) ==
    IF (routing_host = NoName \/ a = routing_host) /\ S.pid = DeadPid
    THEN [S EXCEPT !.routing_manager_host = ILLEGAL_CLIENT]
    ELSE S

already_exists(S, a) == a = routing_host /\ S.routing_manager_host # ILLEGAL_CLIENT

set_client_as_manager_host(S, a) ==
    /\ a = routing_host \/ routing_host = NoName
    /\ S.routing_manager_host = ILLEGAL_CLIENT

full(S) == Len(S.used) = max_clients

\* request_client_id: the table it leaves and the identifier it returns, and the
\* tables a process that dies in between may leave.
request_client_id(S0, a) ==
    LET locked == lock(S0)
        S == taken_over(locked, a)
        r == allocate(S, a)
        becomes == set_client_as_manager_host(S, a)
        named == IF becomes THEN [r.seg EXCEPT !.routing_manager_host = r.client] ELSE r.seg
        pid == IF becomes THEN [named EXCEPT !.pid = Home[a]] ELSE named
        listed == [pid EXCEPT !.used = Append(@, r.client)]
    IN  IF already_exists(S, a)
        THEN [seg |-> S, client |-> ILLEGAL_CLIENT, free |-> FALSE, partial |-> {locked, S}]
        ELSE IF full(S)
        THEN [seg |-> S, client |-> ILLEGAL_CLIENT, free |-> FALSE, partial |-> {locked, S}]
        ELSE IF r.client = ILLEGAL_CLIENT
        THEN [seg |-> r.seg, client |-> ILLEGAL_CLIENT,
              free |-> \E c \in client_base..(diagnosis + max_clients) :
                           ~is_used_client_id(S, c) /\ ~is_configured_client_id(c),
              partial |-> {locked, S, r.seg}]
        ELSE [seg |-> listed, client |-> r.client, free |-> TRUE,
              partial |-> {locked, S, r.seg, named, pid, listed}]

\* The table of release_client_id after the entries from i to k were overwritten
\* by their successors.
shifted(S, i, k) ==
    [S EXCEPT !.used = [j \in 1..Len(@) |-> IF j \in i..k THEN @[j + 1] ELSE @[j]]]

\* release_client_id: the entries behind the identifier move up, one by one.
release_client_id(S0, c) ==
    LET S == lock(S0)
        places == {i \in 1..Len(S.used) : S.used[i] = c}
    IN  IF places = {} THEN [seg |-> S, partial |-> {S}]
        ELSE LET i == CHOOSE i \in places : \A j \in places : i <= j
                 freed == [S EXCEPT !.used = RemoveAt(@, i)]
             IN  [seg |-> freed,
                  partial |-> {S, freed} \union
                              {shifted(S, i, k) : k \in i..(Len(S.used) - 1)}]

-----------------------------------------------------------------------------
(* Starting an application.                                                *)

\* its_local_configuration_mutex__ is held during all of auto_configuration_init
\* and auto_configuration_exit.
LocalFree(p) ==
    \A b \in App : Home[b] = p => app[b].at \notin {"creating", "opening", "unlinking"}

Attached(g) == \E p \in Process : data[p] = g
Opened(g) == \E b \in App : app[b].at \in {"creating", "opening"} /\ app[b].seg = g
Unused == {g \in 1..conf.segments : g # linked /\ ~Attached(g) /\ ~Opened(g)}

\* auto_configuration_init, first part: shm_open creates the segment, or finds it.
Open(a) ==
    /\ app[a].at = "off"
    /\ LocalFree(Home[a])
    /\ refs[Home[a]] < MaxRefs
    /\ IF linked # 0
       THEN /\ app' = [app EXCEPT ![a] = [NotStarted EXCEPT !.at = "opening", !.seg = linked]]
            /\ UNCHANGED <<segment, linked, unknown, refusals, tags>>
       ELSE /\ Unused # {}
            /\ LET g == CHOOSE g \in Unused : \A h \in Unused : g <= h
               IN  /\ app' = [app EXCEPT ![a] =
                                 [NotStarted EXCEPT !.at = "creating", !.seg = g]]
                   /\ segment' = [segment EXCEPT ![g] = Blank]
                   /\ linked' = g
                   /\ unknown' = {u \in unknown : u[1] # g}
                   /\ refusals' = [refusals EXCEPT ![g] = 0]
            \* the removed segment is still in use elsewhere
            /\ tags' = IF \E g \in 1..conf.segments : Attached(g) \/ Opened(g)
                       THEN tags \union {"split"} ELSE tags
    /\ UNCHANGED <<conf, data, refs, crashes>>

\* The creator lays the segment out.
Create(a) ==
    LET p == Home[a]
        g == app[a].seg
    IN  /\ app[a].at = "creating"
        /\ segment' = [segment EXCEPT ![g] = LaidOut]
        /\ data' = [data EXCEPT ![p] = g]
        /\ refs' = [refs EXCEPT ![p] = @ + 1]
        /\ app' = [app EXCEPT ![a].at = "attached"]
        /\ UNCHANGED <<conf, linked, crashes, unknown, refusals, tags>>

\* What the end of process p leaves behind: nothing in p, its pid_ in the tables.
Gone(p) ==
    /\ app' = [b \in App |-> IF Home[b] = p THEN NotStarted ELSE app[b]]
    /\ data' = [data EXCEPT ![p] = 0]
    /\ refs' = [refs EXCEPT ![p] = 0]

Orphaned(segs, p) ==
    [g \in DOMAIN segs |-> [segs[g] EXCEPT !.pid = IF @ = p THEN DeadPid ELSE @]]

\* The repair in auto_configuration_init uses used_client_ids__, which is set only
\* after it: in a process that has not been attached it is still null.
Faults(p, S) == S.owner_dead /\ data[p] = 0 /\ Len(S.used) > 1

\* auto_configuration_init: the segment is ready and the process attaches to it.
Attach(a) ==
    LET p == Home[a]
        g == app[a].seg
        S == segment[g]
    IN  /\ app[a].at = "opening"
        /\ S.initialized
        /\ IF Faults(p, S)
           THEN /\ Gone(p)
                /\ segment' = Orphaned(segment, p)
           ELSE /\ segment' = [segment EXCEPT ![g] = lock(S)]
                /\ data' = [data EXCEPT ![p] = g]
                /\ refs' = [refs EXCEPT ![p] = @ + 1]
                /\ app' = [app EXCEPT ![a].at = "attached"]
        /\ UNCHANGED <<conf, linked, crashes, unknown, refusals, tags>>

\* auto_configuration_init gives up after 3 seconds, which is longer than a living
\* creator needs; the application goes on with what it is configured to be.
GiveUp(a) ==
    LET p == Home[a]
        g == app[a].seg
    IN  /\ app[a].at = "opening"
        /\ ~segment[g].initialized
        /\ \A b \in App : app[b].at = "creating" => app[b].seg # g
        /\ app' = [app EXCEPT ![a] =
                      IF data[p] # 0 THEN [@ EXCEPT !.at = "attached"]
                      ELSE [at |-> "running", client |-> get_id[a], seg |-> 0,
                            host |-> a = routing_host]]
        /\ tags' = tags \union {"uncounted"}
        /\ UNCHANGED <<conf, segment, linked, data, refs, crashes, unknown, refusals>>

\* init of the application: request_client_id, and the role that follows from it.
\* A refused application does not start, but its process stays attached.
Request(a) ==
    LET p == Home[a]
        g == data[p]
        S == segment[g]
        r == request_client_id(S, a)
        host == IF routing_host = NoName THEN r.seg.routing_manager_host = r.client
                                         ELSE a = routing_host
    IN  /\ app[a].at = "attached"
        /\ LocalFree(p)
        /\ IF g = 0 \/ r.client = ILLEGAL_CLIENT
           THEN /\ app' = [app EXCEPT ![a] = NotStarted]
                /\ refusals' = IF g # 0 /\ r.free THEN [refusals EXCEPT ![g] = @ + 1]
                               ELSE refusals
                /\ UNCHANGED <<unknown, tags>>
           ELSE /\ app' = [app EXCEPT ![a] = [at |-> "running", client |-> r.client,
                                              seg |-> g, host |-> host]]
                /\ refusals' = [refusals EXCEPT ![g] = 0]
                \* a new routing manager asks for the used identifiers
                /\ unknown' = IF host THEN {u \in unknown : u[1] # g} ELSE unknown
                \* the identifier of an application that has released it and has yet to
                \* exit, or that the table still names as routing manager
                /\ tags' = IF \/ \E b \in App : /\ app[b].at = "released"
                                                /\ app[b].client = r.client
                              \/ r.client = taken_over(lock(S), a).routing_manager_host
                           THEN tags \union {"reused"} ELSE tags
        /\ segment' = IF g = 0 THEN segment ELSE [segment EXCEPT ![g] = r.seg]
        /\ UNCHANGED <<conf, linked, data, refs, crashes>>

-----------------------------------------------------------------------------
(* Stopping an application.                                                *)

\* The end of start(): release_client_id.
Release(a) ==
    LET p == Home[a]
        g == data[p]
    IN  /\ app[a].at = "running"
        /\ LocalFree(p)
        /\ segment' = IF g = 0 THEN segment
                      ELSE [segment EXCEPT ![g] = release_client_id(@, app[a].client).seg]
        /\ app' = [app EXCEPT ![a].at = "released"]
        /\ UNCHANGED <<conf, linked, data, refs, crashes, unknown, refusals, tags>>

\* Mutant: the role is kept.
set_routing_manager_host_never(S, c) == S

\* is_routing_manager_host and set_routing_manager_host, in auto_configuration_exit.
set_routing_manager_host(S, c) ==
    IF S.routing_manager_host = c THEN [S EXCEPT !.routing_manager_host = ILLEGAL_CLIENT]
    ELSE S

\* auto_configuration_exit: give up the role; the last application of the process
\* detaches, and removes the segment if it had the role.
Exit(a) ==
    LET p == Home[a]
        g == data[p]
        S == lock(segment[g])
        unlink == S.routing_manager_host = app[a].client
    IN  /\ app[a].at = "released"
        /\ LocalFree(p)
        /\ IF g = 0
           THEN /\ app' = [app EXCEPT ![a] = NotStarted]
                /\ UNCHANGED <<segment, data, refs>>
           ELSE /\ segment' = [segment EXCEPT ![g] = set_routing_manager_host(S, app[a].client)]
                /\ refs' = [refs EXCEPT ![p] = @ - 1]
                /\ data' = IF refs[p] = 1 THEN [data EXCEPT ![p] = 0] ELSE data
                /\ app' = [app EXCEPT ![a] = IF refs[p] = 1 /\ unlink
                                             THEN [NotStarted EXCEPT !.at = "unlinking"]
                                             ELSE NotStarted]
        /\ UNCHANGED <<conf, linked, crashes, unknown, refusals, tags>>

\* shm_unlink, by name: whatever segment has it now.
Unlink(a) ==
    /\ app[a].at = "unlinking"
    /\ linked' = 0
    /\ app' = [app EXCEPT ![a] = NotStarted]
    /\ UNCHANGED <<conf, segment, data, refs, crashes, unknown, refusals, tags>>

-----------------------------------------------------------------------------
(* Crashes, and what the routing manager does about them.                  *)

\* The application whose identifier c is in segment g is alive.
Owned(g, c) == \E b \in App : app[b].at = "running" /\ app[b].seg = g /\ app[b].client = c

\* A process dies outside the mutex.
Crash(p) ==
    /\ crashes > 0
    /\ \E b \in App : Home[b] = p /\ app[b].at # "off"
    /\ crashes' = crashes - 1
    /\ Gone(p)
    /\ segment' = Orphaned(segment, p)
    /\ UNCHANGED <<conf, linked, unknown, refusals, tags>>

\* The process of a dies inside the mutex and leaves table S behind.
DiesInside(a, S) ==
    LET p == Home[a]
        g == data[p]
    IN  /\ crashes > 0
        /\ crashes' = crashes - 1
        /\ Gone(p)
        /\ segment' = Orphaned([segment EXCEPT ![g] = [S EXCEPT !.owner_dead = TRUE]], p)
        /\ UNCHANGED <<conf, linked>>

CrashInRequest(a) ==
    LET p == Home[a]
        g == data[p]
        r == request_client_id(segment[g], a)
    IN  /\ app[a].at = "attached"
        /\ g # 0
        /\ LocalFree(p)
        /\ \E S \in r.partial :
              /\ DiesInside(a, S)
              \* it may have moved the last assigned identifier
              /\ refusals' = [refusals EXCEPT ![g] = 0]
              /\ unknown' = IF Len(S.used) > Len(lock(segment[g]).used)
                            THEN unknown \union {<<g, r.client>>} ELSE unknown
              \* the role is taken, but pid_ still names nobody or somebody else
              /\ tags' = IF /\ S.routing_manager_host \notin
                                   {ILLEGAL_CLIENT, segment[g].routing_manager_host}
                            /\ S.pid \notin {Home[a], DeadPid}
                         THEN tags \union {"nameless"} ELSE tags

CrashInRelease(a) ==
    LET g == data[Home[a]]
    IN  /\ app[a].at = "running"
        /\ g # 0
        /\ LocalFree(Home[a])
        /\ \E S \in release_client_id(segment[g], app[a].client).partial : DiesInside(a, S)
        /\ UNCHANGED <<unknown, refusals, tags>>

\* The routing manager releases the identifier of a lost client: one that was
\* registered with it, or that was in use when it started and does not register.
Reclaim(h, c) ==
    LET g == data[Home[h]]
    IN  /\ app[h].at = "running"
        /\ app[h].host
        /\ g # 0
        /\ LocalFree(Home[h])
        /\ c # diagnosis
        /\ is_used_client_id(segment[g], c)
        /\ ~Owned(g, c)
        /\ <<g, c>> \notin unknown
        /\ segment' = [segment EXCEPT ![g] = release_client_id(@, c).seg]
        /\ UNCHANGED <<conf, linked, data, refs, app, crashes, unknown, refusals, tags>>

-----------------------------------------------------------------------------
Init ==
    /\ conf \in Confs
    /\ segment = [g \in 1..conf.segments |-> Blank]
    /\ linked = 0
    /\ data = [p \in Process |-> 0]
    /\ refs = [p \in Process |-> 0]
    /\ app = [a \in App |-> NotStarted]
    /\ crashes = conf.crashes
    /\ unknown = {}
    /\ refusals = [g \in 1..conf.segments |-> 0]
    /\ tags = {}

Next ==
    \/ \E a \in App :
          \/ Open(a)
          \/ Create(a)
          \/ Attach(a)
          \/ GiveUp(a)
          \/ Request(a)
          \/ Release(a)
          \/ Exit(a)
          \/ Unlink(a)
          \/ CrashInRequest(a)
          \/ CrashInRelease(a)
          \/ \E c \in Id : Reclaim(a, c)
    \/ \E p \in Process : Crash(p)

Spec == Init /\ [][Next]_vars

-----------------------------------------------------------------------------
(* Properties.                                                             *)

Table ==
    [initialized : BOOLEAN, owner_dead : BOOLEAN, pid : Process \union {DeadPid, NoPid},
     used : Seq(Id),
     max_assigned : 0..(max_clients - 1), routing_manager_host : Id \union {ILLEGAL_CLIENT}]

TypeOK ==
    /\ segment \in [1..conf.segments -> Table]
    /\ \A g \in 1..conf.segments : Len(segment[g].used) <= max_clients
    /\ linked \in 0..conf.segments
    /\ data \in [Process -> 0..conf.segments]
    /\ refs \in [Process -> 0..MaxRefs]
    /\ app \in [App -> [at : {"off", "creating", "opening", "attached", "running", "released",
                              "unlinking"},
                        client : Id \union {ILLEGAL_CLIENT}, seg : 0..conf.segments,
                        host : BOOLEAN]]
    /\ crashes \in 0..conf.crashes
    /\ conf \in Confs
    /\ unknown \subseteq (1..conf.segments) \X Id
    /\ refusals \in [1..conf.segments -> Nat]
    /\ tags \subseteq {"split", "reused", "nameless", "uncounted"}

\* The segment was removed while others used it, or an application was not counted
\* because the creator of the segment died before it was ready.
Spoilt == tags \intersect {"split", "uncounted"} # {}

Running(a) == app[a].at = "running" /\ app[a].seg # 0

\* Two running applications never have the same client identifier
\* (request_client_id, whatever crashed before), in a segment that is not Spoilt.
UniqueIds ==
    \A a, b \in App :
        a # b /\ Running(a) /\ Running(b) /\ app[a].client = app[b].client => Spoilt

\* The table is exact: a running application is listed, once the mutex has been
\* repaired nothing is listed twice (check_client_id_consistency), and without
\* crashes nothing else is listed, so that no identifier leaks.
Listed ==
    ~Spoilt =>
        /\ \A a \in App :
              Running(a) => is_used_client_id(segment[app[a].seg], app[a].client)
        /\ \A g \in 1..conf.segments :
              ~segment[g].owner_dead => IsInjective(segment[g].used)
        /\ crashes = conf.crashes /\ linked # 0 =>
              \A i \in 2..Len(segment[linked].used) : Owned(linked, segment[linked].used[i])

\* At most one running application acts as routing manager, takeovers after a crash
\* included (request_client_id, auto_configuration_exit).
OneHost ==
    \A a, b \in App :
        a # b /\ Running(a) /\ Running(b) /\ app[a].host /\ app[b].host
            => Spoilt \/ "reused" \in tags

\* The role is never lost: when the table names a routing manager, an application is
\* it, or the next candidate finds its process gone and takes over
\* (request_client_id); except if it died between writing its name and its pid_.
HostReplaceable ==
    linked # 0 /\ segment[linked].routing_manager_host # ILLEGAL_CLIENT =>
        \/ segment[linked].pid = DeadPid
        \/ \E a \in App : /\ app[a].at \in {"running", "released"}
                          /\ app[a].client = segment[linked].routing_manager_host
        \/ tags # {}

\* An application that is refused for want of identifiers although one is free gets
\* one when it tries again: the wrap of the search in request_client_id has
\* forgotten the last assigned identifier.
NotRefusedTwice == \A g \in 1..conf.segments : refusals[g] <= 1

\* Running applications have different client identifiers (request_client_id),
\* which are those the table lists: nothing twice after the repair
\* (check_client_id_consistency), nothing else without crashes, and nobody is
\* refused twice although an identifier is free.
IdsAgree == TypeOK /\ UniqueIds /\ Listed /\ NotRefusedTwice

\* At most one running application acts as routing manager, and when it is gone
\* the next candidate takes over (request_client_id, auto_configuration_exit).
RoleKept == OneHost /\ HostReplaceable
====
