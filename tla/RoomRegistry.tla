---------------------------- MODULE RoomRegistry ----------------------------
(***************************************************************************)
(* Which browser sessions sit in which TeamSpeak channel, who of them is   *)
(* in the channel's video room, and what each page was last told           *)
(* (rooms/RoomRegistry.ts), driven by the session's handlers               *)
(* (session/Session.ts).                                                   *)
(*                                                                         *)
(* The registry keeps two indexes: the members of every room and the room  *)
(* of every session.  Whoever stays in a room is sent its new state each   *)
(* time it changes.  With LiveKit the hub awaits a token between asking    *)
(* which room the session is in and marking it there.                      *)
(*                                                                         *)
(* A session has one connection at a time here; what the room does while   *)
(* an old connection unwinds beside a new one is HubSession's question.    *)
(***************************************************************************)
EXTENDS Naturals, FiniteSets

CONSTANTS
  Session,
  Ref,      \* channels, each of its server
  Share,    \* what a page can publish: camera, screen
  None

\* RoomMember: publishing implies the video room.
Member == {m \in [video : BOOLEAN, shares : SUBSET Share] : m.shares # {} => m.video}

ASSUME NoneAssumption == None \notin Ref /\ None \notin Member

VARIABLES
  livekit,    \* config.rtcBackend is livekit, otherwise mesh: fixed at the start
  link,       \* "up": the session has a connection; "leaving": it says goodbye;
              \* "gone": the page is disposed, a goodbye pending; "over": none is
  channel,    \* TsSession.selfChannelId
  rooms,      \* RoomRegistry.rooms: the members of each room
  bySession,  \* RoomRegistry.bySession: the room of each session
  minting,    \* rtc.join handlers awaiting a token, by session
  view,       \* the last room.state each page was sent
  asked       \* the room whose video the page asked for last

vars == <<livekit, link, channel, rooms, bySession, minting, view, asked>>

Links == {"off", "up", "leaving", "gone", "over"}

\* The page can still send.
PageLinks == {"off", "up", "leaving"}

Fresh == [video |-> FALSE, shares |-> {}]

\* What room.state says of a room: its video members and what each publishes.
RoomState == [video : SUBSET Session, publishing : SUBSET (Session \X Share)]

TypeOK ==
  /\ livekit \in BOOLEAN
  /\ link \in [Session -> Links]
  /\ channel \in [Session -> Ref \cup {None}]
  /\ rooms \in [Ref -> [Session -> Member \cup {None}]]
  /\ bySession \in [Session -> Ref \cup {None}]
  /\ minting \in [Session -> SUBSET Ref]
  /\ view \in [Session -> RoomState \cup {None}]
  /\ asked \in [Session -> Ref \cup {None}]

Init ==
  /\ livekit \in BOOLEAN
  /\ link = [s \in Session |-> "off"]
  /\ channel = [s \in Session |-> None]
  /\ rooms = [r \in Ref |-> [s \in Session |-> None]]
  /\ bySession = [s \in Session |-> None]
  /\ minting = [s \in Session |-> {}]
  /\ view = [s \in Session |-> None]
  /\ asked = [s \in Session |-> None]

-----------------------------------------------------------------------------
(* RoomRegistry.                                                           *)

Members(rs, r) == {s \in Session : rs[r][s] # None}

StateOf(rs, r) ==
  [video |-> {s \in Members(rs, r) : rs[r][s].video},
   publishing |-> {p \in Session \X Share : p[1] \in Members(rs, r) /\ p[2] \in rs[r][p[1]].shares}]

\* broadcast of each of the rooms R, with the members they have in rs.
Broadcast(rs, R) ==
  view' = [s \in Session |->
    IF \E r \in R : s \in Members(rs, r)
    THEN StateOf(rs, CHOOSE r \in R : s \in Members(rs, r))
    ELSE view[s]]

\* (Mutant: the room that was left is not told.)
JoinQuietly(s, r) ==
  LET left == {q \in Ref : q = bySession[s] /\ q # r}
      seat == IF rooms[r][s] = None THEN Fresh ELSE rooms[r][s]
      rs == [q \in Ref |-> IF q \in left THEN [rooms[q] EXCEPT ![s] = None]
                           ELSE IF q = r THEN [rooms[q] EXCEPT ![s] = seat]
                           ELSE rooms[q]]
  IN /\ rooms' = rs
     /\ bySession' = [bySession EXCEPT ![s] = r]
     /\ Broadcast(rs, {r})

\* join: a member that moves starts without video, one that stays keeps it.
Join(s, r) ==
  LET left == {q \in Ref : q = bySession[s] /\ q # r}
      seat == IF rooms[r][s] = None THEN Fresh ELSE rooms[r][s]
      rs == [q \in Ref |-> IF q \in left THEN [rooms[q] EXCEPT ![s] = None]
                           ELSE IF q = r THEN [rooms[q] EXCEPT ![s] = seat]
                           ELSE rooms[q]]
  IN /\ rooms' = rs
     /\ bySession' = [bySession EXCEPT ![s] = r]
     /\ Broadcast(rs, left \cup {r})

\* (Mutant: the session keeps its placement.)
LeaveMembersOnly(s) ==
  LET left == {q \in Ref : q = bySession[s]}
      rs == [q \in Ref |-> IF q \in left THEN [rooms[q] EXCEPT ![s] = None] ELSE rooms[q]]
  IN /\ rooms' = rs
     /\ UNCHANGED bySession
     /\ Broadcast(rs, left)

\* leave
Leave(s) ==
  LET left == {q \in Ref : q = bySession[s]}
      rs == [q \in Ref |-> IF q \in left THEN [rooms[q] EXCEPT ![s] = None] ELSE rooms[q]]
  IN /\ rooms' = rs
     /\ bySession' = [bySession EXCEPT ![s] = None]
     /\ Broadcast(rs, left)

\* memberOf, for a session that has a place.
MemberOf(s) == rooms[bySession[s]][s]

\* The member of s becomes m, and its room is told if that changes it.
Replace(s, m) ==
  IF bySession[s] = None \/ m = MemberOf(s)
  THEN UNCHANGED <<rooms, view>>
  ELSE /\ rooms' = [rooms EXCEPT ![bySession[s]][s] = m]
       /\ Broadcast(rooms', {bySession[s]})

\* setVideo
SetVideo(s, on) ==
  Replace(s, [video |-> on,
              shares |-> IF on /\ bySession[s] # None THEN MemberOf(s).shares ELSE {}])

\* setPublishing: publishing implies the video room.
SetPublishing(s, shares) ==
  Replace(s, [video |-> shares # {} \/ (bySession[s] # None /\ MemberOf(s).video),
              shares |-> shares])

-----------------------------------------------------------------------------
(* Session.                                                                *)

\* The connection is up, or the user is moved: onSelfChannel.  It still comes
\* while the server is told goodbye.
SelfChannel(s, r) ==
  /\ link[s] # "over"
  /\ link' = [link EXCEPT ![s] = IF @ = "off" THEN "up" ELSE @]
  /\ channel' = [channel EXCEPT ![s] = r]
  /\ Join(s, r)
  /\ UNCHANGED <<livekit, minting, asked>>

\* disconnectTs lets go of the connection, then says goodbye.
Disconnect(s) ==
  /\ link[s] = "up"
  /\ link' = [link EXCEPT ![s] = "leaving"]
  /\ UNCHANGED <<livekit, channel, rooms, bySession, minting, view, asked>>

\* (Mutant: only a connection the session still has leaves its room.)
ClosedIfCurrent(s) ==
  /\ link[s] \in {"up", "leaving", "gone"}
  /\ link' = [link EXCEPT ![s] = IF @ = "gone" THEN "over" ELSE "off"]
  /\ channel' = [channel EXCEPT ![s] = None]
  /\ IF link[s] = "up" THEN Leave(s) ELSE UNCHANGED <<rooms, bySession, view>>
  /\ UNCHANGED <<livekit, minting, asked>>

\* onClosed: the goodbye is done, or the server ended the connection.
Closed(s) ==
  /\ link[s] \in {"up", "leaving", "gone"}
  /\ link' = [link EXCEPT ![s] = IF @ = "gone" THEN "over" ELSE "off"]
  /\ channel' = [channel EXCEPT ![s] = None]
  /\ Leave(s)
  /\ UNCHANGED <<livekit, minting, asked>>

\* dispose: the page is gone.  Its connection still has to say goodbye, and is
\* followed while it does.
Dispose(s) ==
  /\ link[s] \in PageLinks
  /\ link' = [link EXCEPT ![s] = IF @ = "off" THEN "over" ELSE "gone"]
  /\ Leave(s)
  /\ UNCHANGED <<livekit, channel, minting, asked>>

\* rtc.join with a mesh: the page is marked and told at once.
JoinMesh(s) ==
  /\ ~livekit
  /\ link[s] = "up"
  /\ SetVideo(s, TRUE)
  /\ asked' = [asked EXCEPT ![s] = channel[s]]
  /\ UNCHANGED <<livekit, link, channel, bySession, minting>>

\* rtc.join with LiveKit: a token for the room is being minted.
JoinLiveKit(s) ==
  /\ livekit
  /\ link[s] = "up"
  /\ minting' = [minting EXCEPT ![s] = @ \cup {channel[s]}]
  /\ asked' = [asked EXCEPT ![s] = channel[s]]
  /\ UNCHANGED <<livekit, link, channel, rooms, bySession, view>>

\* The token is there: the session is marked wherever it sits by now.
TokenMinted(s) ==
  \E r \in minting[s] :
    /\ minting' = [minting EXCEPT ![s] = @ \ {r}]
    /\ SetVideo(s, TRUE)
    /\ UNCHANGED <<livekit, link, channel, bySession, asked>>

\* rtc.leave, accepted with or without a connection.
LeaveVideo(s) ==
  /\ link[s] \in PageLinks
  /\ SetVideo(s, FALSE)
  /\ asked' = [asked EXCEPT ![s] = None]
  /\ UNCHANGED <<livekit, link, channel, bySession, minting>>

\* rtc.publishing, accepted with or without a connection.
Publish(s, shares) ==
  /\ link[s] \in PageLinks
  /\ SetPublishing(s, shares)
  /\ asked' = [asked EXCEPT ![s] = IF shares = {} THEN @ ELSE bySession[s]]
  /\ UNCHANGED <<livekit, link, channel, bySession, minting>>

Next ==
  \E s \in Session :
    \/ \E r \in Ref : SelfChannel(s, r)
    \/ Disconnect(s)
    \/ Closed(s)
    \/ Dispose(s)
    \/ JoinMesh(s)
    \/ JoinLiveKit(s)
    \/ TokenMinted(s)
    \/ LeaveVideo(s)
    \/ \E shares \in SUBSET Share : Publish(s, shares)

Spec == Init /\ [][Next]_vars

-----------------------------------------------------------------------------
(* Properties.                                                             *)

\* The two indexes agree: a session is a member of the room it is placed in
\* and of no other, however it moves, leaves and comes back.
IndexesAgree ==
  \A s \in Session, r \in Ref : s \in Members(rooms, r) <=> bySession[s] = r

\* What every member of a room last heard is what the room is now, although
\* unchanged states are not sent again (setPublishing's and setVideo's early
\* returns) and a move changes two rooms.
ViewsCurrent ==
  \A r \in Ref : \A s \in Members(rooms, r) : view[s] = StateOf(rooms, r)

\* A session sits in a room only while it has a connection, and in the room of
\* the channel the connection is in; one whose page is gone may be out already.
PlacedByConnection ==
  \A s \in Session :
    /\ link[s] \in {"off", "over"} => bySession[s] = None
    /\ link[s] \in {"up", "leaving"} => bySession[s] = channel[s] /\ channel[s] # None
    /\ link[s] = "gone" => bySession[s] \in {None, channel[s]}

\* "Joined the channel's video room": a member is marked only in the room whose
\* video its page asked for (rtc.join, or publishing) and has not left since.
VideoWhereAsked ==
  \A r \in Ref : \A s \in Members(rooms, r) : rooms[r][s].video => asked[s] = r

\* With a mesh rtc.join marks the page before anything else can move it.
MeshWhereAsked == ~livekit => VideoWhereAsked
=============================================================================
