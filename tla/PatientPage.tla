----------------------------- MODULE PatientPage -----------------------------
(***************************************************************************)
(* Hub sessions (HubSession) behind two kinds of pages: one that asks for  *)
(* a connection whenever it may, while an earlier one still unwinds, and a *)
(* patient one, which waits until the last one is through.  Much of what   *)
(* the source says of "the" connection of a session is true for the second *)
(* kind only.                                                              *)
(***************************************************************************)
EXTENDS HubSession

VARIABLE patient  \* the environment's: does the page wait?

\* Nothing of a connection is in flight any more.
Quiet(c) ==
  /\ pc[c] \in {"idle", "returned", "failed"}
  /\ closing[c] = {}
  /\ attach[c] = "none"

\* A connect message comes when nothing is in flight.
InTurn ==
  \A c \in Conn : pc[c] = "idle" /\ pc'[c] # "idle" =>
    \A d \in ConnsOf(Owner[c]) : Quiet(d)

PageInit == Init /\ patient \in BOOLEAN

PageNext == Next /\ patient' = patient /\ (patient => InTurn)

PageSpec == PageInit /\ [][PageNext]_<<vars, patient>> /\ Fairness

-----------------------------------------------------------------------------
(* Properties of a session with a patient page.                            *)

\* However its connections fail, drop and are closed, it has one driver client that
\* nobody told to leave (Session.connect), unless a handshake was tried again: a
\* goodbye to the first client then misses the second, which TsSession.finish leaves
\* where it is.
OneConnectionInTurn == patient /\ (\A c \in Conn : tries[c] <= 1) => OneConnection

\* The music panel is that of the current connection's bot.
MusicOfCurrent ==
  patient => \A s \in Session : musicLink[s] # None => cur[s] = musicLink[s]

\* The server threw this connection out, and its page was told so.
Expelled(c) == client[c] = "kicked" \/ "ban" \in closing[c]

\* The page's last word about its connection is right: what is up is shown as
\* up unless the server just threw it out, and what is shown as up either is, or
\* has a "disconnected" answer coming (no late answer about an earlier connection
\* overwrites it, no kick or ban is told of one the page has left).
PageShowsCurrent ==
  patient => \A s \in Session : ~closed[s] =>
    /\ cur[s] # None /\ pc[cur[s]] = "returned" => shown[s] = cur[s] \/ Expelled(cur[s])
    /\ shown[s] # None /\ cur[s] # shown[s] => "user" \in closing[shown[s]]

\* No late end of an earlier connection takes a session out of the room it sits in.
StaysInRoomInTurn == [][patient => \A s \in Session : Stays(s)]_vars

\* A gone session leaves no client behind on the TeamSpeak server, if its connections
\* were not tried again: the goodbye may miss the client a retry makes meanwhile.
GoneLeavesNoClient ==
  \A s \in Session :
    closed[s] ~> \/ \A c \in ConnsOf(s) : client[c] \in {"none", "gone"}
                 \/ ~patient \/ \E c \in ConnsOf(s) : tries[c] > 1
=============================================================================
