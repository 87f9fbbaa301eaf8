--------------------------- MODULE MCLocalEvents ---------------------------
(* Configurations of LocalEvents that TLC explores one after the other.      *)
EXTENDS LocalEvents

CONSTANTS ca, cb, ex, ey

None == [subscribe |-> 0, notify |-> 0, one |-> 0, stop |-> 0, event |-> 0, crash |-> 0,
         remote |-> 0]

\* Two applications subscribe to the eventgroup with one field.
Plain ==
    [fields |-> {ex}, offered |-> {ex}, requested |-> {ex}, keys |-> {ANY_EVENT},
     handler |-> "accept", clients |-> {ca, cb},
     calls |-> [None EXCEPT !.subscribe = 3, !.notify = 2]]

\* One application and two fields, subscribed to one by one.
Single ==
    [Plain EXCEPT !.fields = {ex, ey}, !.offered = {ex, ey}, !.requested = {ex, ey},
                  !.keys = {ex, ey}, !.clients = {ca}]

\* Remote subscribers only.
Distant ==
    [Plain EXCEPT !.clients = {}, !.calls = [None EXCEPT !.remote = 4, !.notify = 2]]

MCScenarios ==
    {Plain,
     [Plain EXCEPT !.handler = "decide"],
     [Plain EXCEPT !.handler = "async", !.clients = {ca}],
     [Plain EXCEPT !.clients = {ca}, !.calls.stop = 1, !.calls.subscribe = 2],
     [Plain EXCEPT !.offered = {}, !.calls.event = 1, !.calls.subscribe = 2],
     [Plain EXCEPT !.calls.one = 1, !.calls.notify = 1],
     [Plain EXCEPT !.clients = {ca}, !.calls.crash = 1, !.calls.subscribe = 2, !.calls.notify = 1],
     Single,
     [Single EXCEPT !.fields = {ex}, !.keys = {ANY_EVENT}],
     [Single EXCEPT !.keys = {ex}, !.offered = {ex}, !.calls.stop = 1, !.calls.subscribe = 2],
     [Single EXCEPT !.requested = {}, !.keys = {ex}, !.calls.event = 1],
     [Single EXCEPT !.offered = {}, !.calls.event = 1, !.keys = {ex}],
     [Single EXCEPT !.calls.one = 1, !.calls.notify = 0],
     Distant,
     [Distant EXCEPT !.handler = "decide"],
     [Distant EXCEPT !.calls.remote = 3, !.calls.stop = 1]}
=============================================================================
