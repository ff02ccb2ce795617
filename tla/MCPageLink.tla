----------------------------- MODULE MCPageLink -----------------------------
(* Small instances of PageLink for TLC. *)
EXTENDS PageLink
=============================================================================
