------------------------------- MODULE MCPage -------------------------------
(* The parts of the page, for TLC.  They share no state, so each is checked   *)
(* on its own: the first state chooses the one that works, and the others     *)
(* stay as they start.                                                        *)
EXTENDS PageLink, MeshNegotiation, VideoRoom, TransferQueue

VARIABLE part

PageInit ==
  /\ part \in {"link", "mesh", "video", "transfers"}
  /\ Init /\ MeshInit /\ VideoInit /\ QueueInit
  /\ part # "link" => ~hasty
  /\ part # "video" => ~sfu /\ ~steady /\ hubPlace = CHOOSE c \in VideoChan : TRUE

\* Bounds: a hasty user asks for a command, of a page that shows a connection, or
\* submits a second request or one for a link that is to be replayed on, not both.
Bounded ==
  hasty => /\ \A c \in Cmd : call[c] = "idle" /\ call'[c] # "idle" => conn = "connected"
           /\ \/ /\ {last', asked'} \subseteq {CHOOSE r \in Req : TRUE, None}
                 /\ ~twice' /\ (want' => asked' = None)
              \/ \A c \in Cmd : call'[c] = "idle"

Link == part = "link" /\ Next /\ Bounded /\ UNCHANGED <<part, meshVars, videoVars, queueVars>>
Mesh == part = "mesh" /\ MeshNext /\ UNCHANGED <<part, vars, videoVars, queueVars>>
Video == part = "video" /\ VideoNext /\ UNCHANGED <<part, vars, meshVars, queueVars>>
Transfers == part = "transfers" /\ QueueNext /\ UNCHANGED <<part, vars, meshVars, videoVars>>

\* Where a part starts nothing is under way that its fairness would move.
PageSpec ==
  /\ PageInit
  /\ [][Link \/ Mesh \/ Video \/ Transfers]_<<part, vars, meshVars, videoVars, queueVars>>
  /\ LinkFair /\ MeshFair
=============================================================================
