------------------------------- MODULE MCFiles -------------------------------
(* What the hub passes on and what it keeps, for TLC: media streams, file      *)
(* transfers and stored stickers.  They share no state, so each is checked on  *)
(* its own: the first state chooses the one that works, and the others stay as *)
(* they start.                                                                 *)
EXTENDS MediaStreams, FileTransfers, StickerStore

CONSTANTS b1, c1, c2, l1, l2, l3, film, song, s1, s2, d1, d2, u1, u2

\* A session disconnected and connected again (c1, c2), with links to a film on
\* both connections and to a song.
OneBrowser == [c \in Conn |-> b1]
ConnOfLink == [l \in Link |-> IF l = l2 THEN c2 ELSE c1]
FileOfLink == [l \in Link |-> IF l = l3 THEN song ELSE film]

\* A session with all the downloads and an icon, beside one that uploads.
OneBusy == [t \in Download \cup Upload |-> IF t = u2 THEN s2 ELSE s1]

VARIABLE part

FilesInit ==
  /\ part \in {"media", "transfers", "stickers"}
  /\ MediaInit /\ Init /\ StickerInit
  /\ part # "stickers" => trouble = "none"

Media == part = "media" /\ MediaNext /\ UNCHANGED <<part, vars, stickerVars>>
Transfers == part = "transfers" /\ Next /\ UNCHANGED <<part, mediaVars, stickerVars>>
Stickers == part = "stickers" /\ StickerNext /\ UNCHANGED <<part, mediaVars, vars>>

\* Where a part starts nothing is under way that its fairness would move.
FilesSpec ==
  /\ FilesInit
  /\ [][Media \/ Transfers \/ Stickers]_<<part, mediaVars, vars, stickerVars>>
  /\ MediaFair /\ TransfersFair
=============================================================================
