-------------------------- MODULE MCServerEndpoint --------------------------
(* Small instances of ServerEndpoint for TLC. *)
EXTENDS ServerEndpoint
=============================================================================
