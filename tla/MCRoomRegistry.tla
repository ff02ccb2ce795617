--------------------------- MODULE MCRoomRegistry ---------------------------
(* Small instances of RoomRegistry for TLC. *)
EXTENDS RoomRegistry, TLC

CONSTANTS s1, s2, s3, lobby, music, camera, screen

Symmetric == Permutations(Session) \cup Permutations(Ref) \cup Permutations(Share)
=============================================================================
