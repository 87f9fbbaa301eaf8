------------------------ MODULE MCRemoteSubscription ------------------------
(* Small instances of RemoteSubscription for TLC. *)
EXTENDS RemoteSubscription

CONSTANTS r1, c0

\* The TCP and the UDP endpoint of one host use the same port number.
RemotesShared == [e \in Endpoint |-> r1]
\* One client id for all endpoints.
OneClient == [e \in Endpoint |-> {c0}]
=============================================================================
