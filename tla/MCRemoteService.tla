--------------------------- MODULE MCRemoteService ---------------------------
(***************************************************************************)
(* RemoteService in small surroundings: one scenario per kind of trouble.  *)
(***************************************************************************)
EXTENDS RemoteService

MCService == {"s1", "s2"}

None == [b \in Budgets |-> 0]

\* One client, one service over the given protocols (the other one is not requested).
One(ps, budget) ==
    [protos |-> [s \in MCService |-> ps], port |-> [s \in MCService |-> 1],
     exclusive |-> {}, selective |-> FALSE, multicast |-> FALSE,
     services |-> {"s1"}, find |-> FALSE, net |-> 1, clients |-> {1}, left |-> budget]

\* A client requests and subscribes, perhaps twice, and may end both.
Base == [None EXCEPT !["request"] = 1, !["subscribe"] = 1]
Ends == [Base EXCEPT !["unsubscribe"] = 1, !["release"] = 1]

Tcp == {"tcp"}
Udp == {"udp"}
Both == {"tcp", "udp"}

\* Two clients, of which some use an exclusive proxy.
Two(ps, budget, ex, sel) ==
    [One(ps, [budget EXCEPT !["request"] = 2, !["subscribe"] = 2])
        EXCEPT !.clients = {1, 2}, !.exclusive = ex, !.selective = sel]

\* Two services behind one port, the eventgroup of one or both is subscribed.
Shared(ps, budget) ==
    [One(ps, [budget EXCEPT !["request"] = 2]) EXCEPT !.services = MCService]

\* The client uses an exclusive proxy and has to be identified.
Exclusive(ps, budget) == [One(ps, budget) EXCEPT !.exclusive = {1}, !.selective = TRUE]

MCScenarios == {
    One(Tcp, [Ends EXCEPT !["request"] = 2, !["subscribe"] = 2]),
    One(Both, [Ends EXCEPT !["slow"] = 1, !["reset"] = 1]),
    One(Udp, [Ends EXCEPT !["lose"] = 2, !["expire"] = 1]),
    One(Both, [Base EXCEPT !["lose"] = 2, !["reset"] = 1]),
    One(Tcp, [Base EXCEPT !["crash"] = 1, !["lose"] = 1]),
    One(Tcp, [Base EXCEPT !["reject"] = 1, !["reset"] = 1]),
    One(Tcp, [Ends EXCEPT !["suspend"] = 1]),
    One(Udp, [Ends EXCEPT !["suspend"] = 1]),
    One(Tcp, [Base EXCEPT !["diagnosis"] = 1, !["stop"] = 1]),
    [One(Tcp, [Base EXCEPT !["release"] = 1, !["request"] = 2]) EXCEPT !.find = TRUE],
    Two(Tcp, [None EXCEPT !["unsubscribe"] = 1], {}, FALSE),
    Two(Tcp, [None EXCEPT !["unsubscribe"] = 1], {2}, FALSE),
    Two(Udp, Ends, {2}, TRUE),
    Shared(Tcp, [Base EXCEPT !["release"] = 1]),
    Shared(Tcp, [None EXCEPT !["stop"] = 1]),
    Shared(Udp, [Base EXCEPT !["stop"] = 1]),
    [Shared(Udp, [Ends EXCEPT !["subscribe"] = 2]) EXCEPT !.multicast = TRUE],
    Exclusive(Tcp, [Ends EXCEPT !["reset"] = 1]),
    Exclusive(Tcp, [Base EXCEPT !["reject"] = 1]),
    Exclusive(Udp, [Base EXCEPT !["stop"] = 1, !["lose"] = 1])
}
=============================================================================
