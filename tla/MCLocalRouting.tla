--------------------------- MODULE MCLocalRouting ---------------------------
(* Configurations of LocalRouting that TLC explores one after the other.     *)
EXTENDS LocalRouting

Plain ==
    [network |-> "remote", watchdog |-> "off", debouncing |-> {}, offering |-> {2, 3},
     versions |-> {1}, requesting |-> {3}, calls |-> 2, starts |-> 1, faults |-> 0,
     kinds |-> {}]

MCScenarios ==
    {[Plain EXCEPT !.calls = 3, !.versions = {1, 2}],
     [Plain EXCEPT !.network = "local"],
     [Plain EXCEPT !.network = "off"],
     [Plain EXCEPT !.offering = {1, 2}, !.requesting = {1, 3}],
     [Plain EXCEPT !.offering = {2}, !.debouncing = {3}, !.calls = 3],
     [Plain EXCEPT !.starts = 2, !.faults = 1, !.kinds = {"crash"}],
     [Plain EXCEPT !.watchdog = "start", !.calls = 1, !.faults = 1, !.kinds = {"crash"}],
     [Plain EXCEPT !.calls = 1, !.faults = 1, !.kinds = {"host"}],
     [Plain EXCEPT !.offering = {2}, !.faults = 1, !.kinds = {"late"}],
     [Plain EXCEPT !.calls = 1, !.starts = 2, !.faults = 1, !.kinds = {"late"}]}
=============================================================================
