------------------------------- MODULE Channel -------------------------------
(***************************************************************************)
(* What a sending endpoint promises about the messages it accepts: they    *)
(* reach the network in the order of acceptance, each at most once.        *)
(* Messages may be lost.  Once the endpoint was restarted, the last buffer *)
(* may be repeated.                                                        *)
(***************************************************************************)
EXTENDS Integers, Sequences

VARIABLES
    accepted,    \* number of messages accepted; they are numbered from 1
    wire,        \* buffers handed to the network, each a sequence of messages
    restarted

vars == <<accepted, wire, restarted>>

\* The newest message that reached the network.
Newest == IF wire = <<>> THEN 0
          ELSE wire[Len(wire)][Len(wire[Len(wire)])]

Init == accepted = 0 /\ wire = <<>> /\ restarted = FALSE

Accept == accepted' = accepted + 1 /\ UNCHANGED <<wire, restarted>>

Restart == restarted' = TRUE /\ UNCHANGED <<accepted, wire>>

Transmit ==
    \/ \E first \in Newest + 1 .. accepted : \E last \in first .. accepted :
          wire' = Append(wire, [i \in 1 .. last - first + 1 |-> first + i - 1])
          /\ UNCHANGED <<accepted, restarted>>
    \/ /\ restarted /\ wire # <<>>
       /\ wire' = Append(wire, wire[Len(wire)])
       /\ UNCHANGED <<accepted, restarted>>

Next == Accept \/ Restart \/ Transmit
Spec == Init /\ [][Next]_vars
=============================================================================
