-------------------------- MODULE MCClientEndpoint --------------------------
(* Small instances of ClientEndpoint for TLC. *)
EXTENDS ClientEndpoint
=============================================================================
