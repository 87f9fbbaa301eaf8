----------------------------- MODULE MCSdSession -----------------------------
(* Small instances of SdSession for TLC. *)
EXTENDS SdSession
=============================================================================
