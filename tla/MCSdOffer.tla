------------------------------ MODULE MCSdOffer ------------------------------
(* Small instances of SdOffer for TLC. *)
EXTENDS SdOffer
=============================================================================
