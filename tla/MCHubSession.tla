---------------------------- MODULE MCHubSession ----------------------------
(* Small instances of HubSession for TLC. *)
EXTENDS HubSession, TLC

CONSTANTS s1, c1, c2, c3, b1, b2

\* One session that connects up to three times, its bot changing with the server.
OneOwner == [c \in Conn |-> s1]
TwoBots == [c \in Conn |-> IF c = c1 THEN b1 ELSE b2]
=============================================================================
