---------------------------- MODULE MCPatientPage ----------------------------
(* A session with either kind of page, for TLC. *)
EXTENDS PatientPage, MCHubSession

\* Bounds: a hasty page connects twice, with one retry of one of the two (the
\* earlier or the later); a patient one three times, without.
MCNext ==
  /\ PageNext
  /\ IF patient THEN \A c \in Conn : pc'[c] # "delay"
                ELSE pc'[c3] = "idle" /\ pc'[c2] # "delay"

MCSpec == PageInit /\ [][MCNext]_<<vars, patient>> /\ Fairness
=============================================================================
