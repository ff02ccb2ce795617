----------------------------- MODULE MCVideoRoom -----------------------------
(* Small instances of VideoRoom for TLC. *)
EXTENDS VideoRoom
=============================================================================
