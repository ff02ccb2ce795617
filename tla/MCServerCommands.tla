--------------------------- MODULE MCServerCommands ---------------------------
(* Small instances of ServerCommands for TLC. *)
EXTENDS ServerCommands, TLC

CONSTANTS list1, list2, init1, servergroups, channelgroups

\* Two lists of the server's groups and a transfer init.
Collects == [c \in Cmd |-> IF c \in {list1, list2} THEN servergroups ELSE None]
=============================================================================
