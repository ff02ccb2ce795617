------------------------- MODULE RoomRegistry_proofs -------------------------
(***************************************************************************)
(* Proofs about RoomRegistry for any sessions, channels and things to      *)
(* share.  A broadcast lemma says when every member has heard the present  *)
(* state; what joining, leaving and marking do to the two indexes is       *)
(* stated once, and every handler is one of those and a few fields.        *)
(* The last part is about VideoRoom, the page's side, for any rooms and    *)
(* any number of news in flight: in a steady world it keeps pace (AtPace). *)
(***************************************************************************)
EXTENDS RoomRegistry, VideoRoom, WellFoundedInduction, TLAPS

\* The types of what the registry keeps.
RoomTypes ==
  /\ rooms \in [Ref -> [Session -> Member \cup {None}]]
  /\ bySession \in [Session -> Ref \cup {None}]
  /\ view \in [Session -> RoomState \cup {None}]

LEMMA FreshType == Fresh \in Member /\ Fresh # None /\ ~Fresh.video
<1>1. Fresh \in [video : BOOLEAN, shares : SUBSET Share]
  BY DEF Fresh
<1>2. Fresh \in Member /\ ~Fresh.video
  BY <1>1 DEF Fresh, Member
<1> QED
  BY <1>2, NoneAssumption

LEMMA StateOfType ==
  ASSUME NEW rs, NEW r
  PROVE  StateOf(rs, r) \in RoomState
BY DEF StateOf, RoomState, Members

LEMMA BroadcastType ==
  ASSUME RoomTypes, NEW rs, NEW R, Broadcast(rs, R)
  PROVE  view' \in [Session -> RoomState \cup {None}]
BY StateOfType DEF RoomTypes, Broadcast

-----------------------------------------------------------------------------
(* The registry.                                                           *)

\* If only the rooms R change and each session is in one room at most, telling
\* the members of R leaves every member told.
LEMMA BroadcastCurrent ==
  ASSUME ViewsCurrent, IndexesAgree', NEW R \in SUBSET Ref, Broadcast(rooms', R),
         \A q \in Ref \ R : rooms'[q] = rooms[q]
  PROVE  ViewsCurrent'
<1> SUFFICES ASSUME NEW r \in Ref, NEW s \in Members(rooms', r)
             PROVE  view'[s] = StateOf(rooms', r)
  BY DEF ViewsCurrent
<1>1. s \in Session
  BY DEF Members
<1>2. \A q \in Ref : s \in Members(rooms', q) => q = r
  BY <1>1 DEF IndexesAgree
<1>3. CASE r \in R
  <2>1. \E q \in R : s \in Members(rooms', q)
    BY <1>3
  <2>2. (CHOOSE q \in R : s \in Members(rooms', q)) = r
    BY <1>2, <1>3
  <2> QED
    BY <1>1, <2>1, <2>2 DEF Broadcast
<1>4. CASE r \notin R
  <2>1. rooms'[r] = rooms[r]
    BY <1>4
  <2>2. Members(rooms', r) = Members(rooms, r) /\ StateOf(rooms', r) = StateOf(rooms, r)
    BY <2>1 DEF Members, StateOf
  <2>3. view[s] = StateOf(rooms, r)
    BY <2>2 DEF ViewsCurrent
  <2>4. ~ \E q \in R : s \in Members(rooms', q)
    BY <1>2, <1>4
  <2> QED
    BY <1>1, <2>2, <2>3, <2>4 DEF Broadcast
<1> QED
  BY <1>3, <1>4

\* After join the session is in r, with what it had there or afresh, and in no
\* other room; the other sessions are where they were.
LEMMA JoinEffect ==
  ASSUME RoomTypes, IndexesAgree, NEW s \in Session, NEW r \in Ref, Join(s, r)
  PROVE  /\ RoomTypes'
         /\ IndexesAgree'
         /\ bySession' = [bySession EXCEPT ![s] = r]
         /\ \A q \in Ref, t \in Session : t # s => rooms'[q][t] = rooms[q][t]
         /\ rooms'[r][s] = IF rooms[r][s] = None THEN Fresh ELSE rooms[r][s]
         /\ \A q \in Ref : q # r => rooms'[q][s] = None
         /\ ViewsCurrent => ViewsCurrent'
<1> DEFINE left == {q \in Ref : q = bySession[s] /\ q # r}
           seat == IF rooms[r][s] = None THEN Fresh ELSE rooms[r][s]
<1>1. /\ rooms' = [q \in Ref |-> IF q \in left THEN [rooms[q] EXCEPT ![s] = None]
                                 ELSE IF q = r THEN [rooms[q] EXCEPT ![s] = seat]
                                 ELSE rooms[q]]
      /\ bySession' = [bySession EXCEPT ![s] = r]
      /\ Broadcast(rooms', left \cup {r})
  BY DEF Join
<1>2. seat \in Member /\ seat # None
  BY FreshType, NoneAssumption DEF RoomTypes
<1>3. \A q \in Ref, t \in Session : t # s => rooms'[q][t] = rooms[q][t]
  BY <1>1 DEF RoomTypes
<1>4. rooms'[r][s] = seat
  BY <1>1 DEF RoomTypes
<1>5. \A q \in Ref : q # r => rooms'[q][s] = None
  <2> SUFFICES ASSUME NEW q \in Ref, q # r PROVE rooms'[q][s] = None
    OBVIOUS
  <2>1. CASE bySession[s] = q
    BY <1>1, <2>1 DEF RoomTypes
  <2>2. CASE bySession[s] # q
    <3>1. rooms[q][s] = None
      BY <2>2 DEF IndexesAgree, Members
    <3> QED
      BY <1>1, <2>2, <3>1
  <2> QED
    BY <2>1, <2>2
<1>6. IndexesAgree'
  <2> SUFFICES ASSUME NEW t \in Session, NEW q \in Ref
               PROVE  rooms'[q][t] # None <=> bySession'[t] = q
    BY DEF IndexesAgree, Members
  <2>1. CASE t = s
    BY <1>1, <1>2, <1>4, <1>5, <2>1 DEF RoomTypes
  <2>2. CASE t # s
    BY <1>1, <1>3, <2>2 DEF RoomTypes, IndexesAgree, Members
  <2> QED
    BY <2>1, <2>2
<1>7. RoomTypes'
  <2>1. view' \in [Session -> RoomState \cup {None}]
    BY <1>1, BroadcastType
  <2>2. rooms' \in [Ref -> [Session -> Member \cup {None}]]
    BY <1>1, <1>2 DEF RoomTypes
  <2>3. bySession' \in [Session -> Ref \cup {None}]
    BY <1>1 DEF RoomTypes
  <2> QED
    BY <2>1, <2>2, <2>3 DEF RoomTypes
<1>8. ViewsCurrent => ViewsCurrent'
  <2>1. \A q \in Ref \ (left \cup {r}) : rooms'[q] = rooms[q]
    BY <1>1
  <2>2. left \cup {r} \in SUBSET Ref
    OBVIOUS
  <2> QED
    BY <1>1, <1>6, <2>1, <2>2, BroadcastCurrent
<1> QED
  BY <1>1, <1>3, <1>4, <1>5, <1>6, <1>7, <1>8

\* After leave the session is in no room.
LEMMA LeaveEffect ==
  ASSUME RoomTypes, IndexesAgree, NEW s \in Session, Leave(s)
  PROVE  /\ RoomTypes'
         /\ IndexesAgree'
         /\ bySession' = [bySession EXCEPT ![s] = None]
         /\ \A q \in Ref, t \in Session : t # s => rooms'[q][t] = rooms[q][t]
         /\ \A q \in Ref : rooms'[q][s] = None
         /\ ViewsCurrent => ViewsCurrent'
<1> DEFINE left == {q \in Ref : q = bySession[s]}
<1>1. /\ rooms' = [q \in Ref |-> IF q \in left THEN [rooms[q] EXCEPT ![s] = None]
                                 ELSE rooms[q]]
      /\ bySession' = [bySession EXCEPT ![s] = None]
      /\ Broadcast(rooms', left)
  BY DEF Leave
<1>2. \A q \in Ref, t \in Session : t # s => rooms'[q][t] = rooms[q][t]
  BY <1>1 DEF RoomTypes
<1>3. \A q \in Ref : rooms'[q][s] = None
  <2> SUFFICES ASSUME NEW q \in Ref PROVE rooms'[q][s] = None
    OBVIOUS
  <2>1. CASE bySession[s] = q
    BY <1>1, <2>1 DEF RoomTypes
  <2>2. CASE bySession[s] # q
    <3>1. rooms[q][s] = None
      BY <2>2 DEF IndexesAgree, Members
    <3> QED
      BY <1>1, <2>2, <3>1
  <2> QED
    BY <2>1, <2>2
<1>4. IndexesAgree'
  <2> SUFFICES ASSUME NEW t \in Session, NEW q \in Ref
               PROVE  rooms'[q][t] # None <=> bySession'[t] = q
    BY DEF IndexesAgree, Members
  <2>1. CASE t = s
    BY <1>1, <1>3, <2>1, NoneAssumption DEF RoomTypes
  <2>2. CASE t # s
    BY <1>1, <1>2, <2>2 DEF RoomTypes, IndexesAgree, Members
  <2> QED
    BY <2>1, <2>2
<1>5. RoomTypes'
  <2>1. view' \in [Session -> RoomState \cup {None}]
    BY <1>1, BroadcastType
  <2>2. rooms' \in [Ref -> [Session -> Member \cup {None}]]
    BY <1>1 DEF RoomTypes
  <2>3. bySession' \in [Session -> Ref \cup {None}]
    BY <1>1 DEF RoomTypes
  <2> QED
    BY <2>1, <2>2, <2>3 DEF RoomTypes
<1>6. ViewsCurrent => ViewsCurrent'
  <2>1. \A q \in Ref \ left : rooms'[q] = rooms[q]
    BY <1>1
  <2>2. left \in SUBSET Ref
    OBVIOUS
  <2> QED
    BY <1>1, <1>4, <2>1, <2>2, BroadcastCurrent
<1> QED
  BY <1>1, <1>2, <1>3, <1>4, <1>5, <1>6

\* Replacing a member touches no other and no index.
LEMMA ReplaceEffect ==
  ASSUME RoomTypes, IndexesAgree, NEW s \in Session, NEW m \in Member,
         Replace(s, m), UNCHANGED bySession
  PROVE  /\ RoomTypes'
         /\ IndexesAgree'
         /\ \A q \in Ref, t \in Session : t # s => rooms'[q][t] = rooms[q][t]
         /\ \A q \in Ref : q # bySession[s] => rooms'[q][s] = rooms[q][s]
         /\ \A q \in Ref : q = bySession[s] => rooms'[q][s] = m
         /\ ViewsCurrent => ViewsCurrent'
<1>1. CASE bySession[s] = None
  <2>1. UNCHANGED <<rooms, bySession, view>>
    BY <1>1 DEF Replace
  <2> QED
    BY <1>1, <2>1, NoneAssumption DEF RoomTypes, IndexesAgree, ViewsCurrent, Members, StateOf
<1>2. CASE bySession[s] # None /\ m = MemberOf(s)
  <2>1. UNCHANGED <<rooms, bySession, view>>
    BY <1>2 DEF Replace
  <2> QED
    BY <1>2, <2>1 DEF RoomTypes, IndexesAgree, ViewsCurrent, Members, StateOf, MemberOf
<1>3. CASE bySession[s] # None /\ m # MemberOf(s)
  <2>1. PICK r \in Ref : r = bySession[s]
    BY <1>3 DEF RoomTypes
  <2>2. /\ rooms' = [rooms EXCEPT ![r][s] = m]
        /\ Broadcast(rooms', {r})
    BY <1>3, <2>1 DEF Replace
  <2>3. rooms[r][s] # None
    BY <2>1 DEF IndexesAgree, Members
  <2>4. /\ \A q \in Ref, t \in Session : t # s => rooms'[q][t] = rooms[q][t]
        /\ \A q \in Ref : q # r => rooms'[q] = rooms[q]
        /\ rooms'[r][s] = m
    BY <2>2 DEF RoomTypes
  <2>5. IndexesAgree'
    <3> SUFFICES ASSUME NEW t \in Session, NEW q \in Ref
                 PROVE  rooms'[q][t] # None <=> bySession[t] = q
      BY DEF IndexesAgree, Members
    <3>1. rooms[q][t] # None <=> bySession[t] = q
      BY DEF IndexesAgree, Members
    <3>2. CASE t = s /\ q = r
      BY <2>1, <2>4, <3>2, NoneAssumption
    <3>3. CASE ~(t = s /\ q = r)
      BY <2>4, <3>1, <3>3
    <3> QED
      BY <3>2, <3>3
  <2>6. RoomTypes'
    <3>1. view' \in [Session -> RoomState \cup {None}]
      BY <2>2, BroadcastType
    <3>2. rooms' \in [Ref -> [Session -> Member \cup {None}]]
      BY <2>2 DEF RoomTypes
    <3> QED
      BY <3>1, <3>2 DEF RoomTypes
  <2>7. ViewsCurrent => ViewsCurrent'
    <3>1. \A q \in Ref \ {r} : rooms'[q] = rooms[q]
      BY <2>4
    <3> QED
      BY <2>2, <2>5, <3>1, BroadcastCurrent
  <2> QED
    BY <2>1, <2>4, <2>5, <2>6, <2>7
<1> QED
  BY <1>1, <1>2, <1>3

LEMMA MemberOfType ==
  ASSUME RoomTypes, IndexesAgree, NEW s \in Session, bySession[s] # None
  PROVE  /\ MemberOf(s) \in Member
         /\ MemberOf(s).video \in BOOLEAN
         /\ MemberOf(s).shares \in SUBSET Share
         /\ bySession[s] \in Ref
<1>1. bySession[s] \in Ref
  BY DEF RoomTypes
<1>2. rooms[bySession[s]][s] # None
  BY <1>1 DEF IndexesAgree, Members
<1>3. MemberOf(s) \in Member
  BY <1>1, <1>2 DEF RoomTypes, MemberOf
<1> QED
  BY <1>1, <1>3 DEF Member

\* What setVideo marks: on keeps what is published, off ends it.
LEMMA SetVideoEffect ==
  ASSUME RoomTypes, IndexesAgree, NEW s \in Session, NEW on \in BOOLEAN,
         SetVideo(s, on), UNCHANGED bySession
  PROVE  /\ RoomTypes'
         /\ IndexesAgree'
         /\ \A q \in Ref, t \in Session : t # s => rooms'[q][t] = rooms[q][t]
         /\ \A q \in Ref : q # bySession[s] => rooms'[q][s] = rooms[q][s]
         /\ \A q \in Ref : q = bySession[s] => rooms'[q][s].video = on
         /\ ViewsCurrent => ViewsCurrent'
<1> DEFINE m == [video |-> on,
                 shares |-> IF on /\ bySession[s] # None THEN MemberOf(s).shares ELSE {}]
<1>1. m \in Member
  BY MemberOfType DEF Member
<1>2. Replace(s, m)
  BY DEF SetVideo
<1>3. m.video = on
  OBVIOUS
<1> HIDE DEF m
<1> QED
  BY <1>1, <1>2, <1>3, ReplaceEffect

\* What setPublishing marks: a member that publishes is in the video room, one
\* that stops stays where it was.
LEMMA SetPublishingEffect ==
  ASSUME RoomTypes, IndexesAgree, NEW s \in Session, NEW shares \in SUBSET Share,
         SetPublishing(s, shares), UNCHANGED bySession
  PROVE  /\ RoomTypes'
         /\ IndexesAgree'
         /\ \A q \in Ref, t \in Session : t # s => rooms'[q][t] = rooms[q][t]
         /\ \A q \in Ref : q # bySession[s] => rooms'[q][s] = rooms[q][s]
         /\ \A q \in Ref : q = bySession[s] =>
              rooms'[q][s].video = (shares # {} \/ rooms[q][s].video)
         /\ ViewsCurrent => ViewsCurrent'
<1> DEFINE m == [video |-> shares # {} \/ (bySession[s] # None /\ MemberOf(s).video),
                 shares |-> shares]
<1>1. m.video \in BOOLEAN
  OBVIOUS
<1>2. m \in [video : BOOLEAN, shares : SUBSET Share]
  BY <1>1
<1>3. m \in Member
  BY <1>2 DEF Member
<1>4. Replace(s, m)
  BY DEF SetPublishing
<1>5. bySession[s] # None => m.video = (shares # {} \/ rooms[bySession[s]][s].video)
  BY DEF MemberOf
<1> HIDE DEF m
<1> QED
  BY <1>3, <1>4, <1>5, NoneAssumption, ReplaceEffect

-----------------------------------------------------------------------------
(* The handlers.                                                           *)

\* The types of what the session and the page keep.
PageTypes ==
  /\ livekit \in BOOLEAN
  /\ link \in [Session -> Links]
  /\ channel \in [Session -> Ref \cup {None}]
  /\ minting \in [Session -> SUBSET Ref]
  /\ asked \in [Session -> Ref \cup {None}]

\* The inductive invariant.  Where the connection sits gives the token handlers
\* a room to name; the indexes give every marked session a member.
Inv ==
  /\ RoomTypes
  /\ PageTypes
  /\ IndexesAgree
  /\ PlacedByConnection
  /\ ViewsCurrent

LEMMA InitInv == Init => Inv
<1> SUFFICES ASSUME Init PROVE Inv
  OBVIOUS
<1>1. RoomTypes /\ PageTypes /\ PlacedByConnection
  BY DEF Init, RoomTypes, PageTypes, PlacedByConnection, Links
<1>2. IndexesAgree
  BY NoneAssumption DEF Init, IndexesAgree, Members
<1>3. ViewsCurrent
  BY DEF Init, ViewsCurrent, Members
<1> QED
  BY <1>1, <1>2, <1>3 DEF Inv

LEMMA SelfChannelInv ==
  ASSUME Inv, NEW s \in Session, NEW r \in Ref, SelfChannel(s, r)
  PROVE  Inv'
<1>1. RoomTypes' /\ IndexesAgree' /\ ViewsCurrent' /\ bySession' = [bySession EXCEPT ![s] = r]
  BY JoinEffect DEF Inv, SelfChannel
<1>2. PageTypes'
  BY DEF Inv, PageTypes, SelfChannel, Links
<1>3. PlacedByConnection'
  BY <1>1, NoneAssumption DEF Inv, PageTypes, RoomTypes, PlacedByConnection, SelfChannel, Links
<1> QED
  BY <1>1, <1>2, <1>3 DEF Inv

LEMMA LeavesInv ==
  ASSUME Inv, NEW s \in Session, Closed(s) \/ Dispose(s)
  PROVE  Inv'
<1>1. RoomTypes' /\ IndexesAgree' /\ ViewsCurrent' /\ bySession' = [bySession EXCEPT ![s] = None]
  BY LeaveEffect DEF Inv, Closed, Dispose
<1>2. PageTypes'
  BY DEF Inv, PageTypes, Closed, Dispose, Links, PageLinks
<1>3. PlacedByConnection'
  BY <1>1 DEF Inv, PageTypes, RoomTypes, PlacedByConnection, Closed, Dispose, Links, PageLinks
<1> QED
  BY <1>1, <1>2, <1>3 DEF Inv

\* Nothing but the video marks changes.
LEMMA MarksInv ==
  ASSUME Inv, RoomTypes', IndexesAgree', ViewsCurrent => ViewsCurrent', PageTypes',
         UNCHANGED <<link, channel, bySession>>
  PROVE  Inv'
BY DEF Inv, PlacedByConnection

LEMMA VideoInv ==
  ASSUME Inv, NEW s \in Session,
         JoinMesh(s) \/ TokenMinted(s) \/ LeaveVideo(s)
  PROVE  Inv'
<1>1. PICK on \in BOOLEAN : SetVideo(s, on) /\ UNCHANGED <<link, channel, bySession>>
  BY DEF JoinMesh, TokenMinted, LeaveVideo
<1>2. RoomTypes' /\ IndexesAgree' /\ (ViewsCurrent => ViewsCurrent')
  BY <1>1, SetVideoEffect DEF Inv
<1>3. PageTypes'
  BY DEF Inv, PageTypes, JoinMesh, TokenMinted, LeaveVideo
<1> QED
  BY <1>1, <1>2, <1>3, MarksInv

LEMMA PublishInv ==
  ASSUME Inv, NEW s \in Session, NEW shares \in SUBSET Share, Publish(s, shares)
  PROVE  Inv'
<1>1. RoomTypes' /\ IndexesAgree' /\ (ViewsCurrent => ViewsCurrent')
  BY SetPublishingEffect DEF Inv, Publish
<1>2. PageTypes'
  BY DEF Inv, PageTypes, RoomTypes, Publish
<1> QED
  BY <1>1, <1>2, MarksInv DEF Publish

LEMMA OtherInv ==
  ASSUME Inv, NEW s \in Session, Disconnect(s) \/ JoinLiveKit(s)
  PROVE  Inv'
<1>1. channel[s] \in Ref
  BY DEF Inv, PageTypes, PlacedByConnection, Disconnect, JoinLiveKit
<1>2. UNCHANGED <<channel, rooms, bySession, view>>
  BY DEF Disconnect, JoinLiveKit
<1>3. RoomTypes' /\ IndexesAgree' /\ ViewsCurrent'
  BY <1>2 DEF Inv, RoomTypes, IndexesAgree, ViewsCurrent, Members, StateOf
<1>4. PageTypes'
  BY <1>1 DEF Inv, PageTypes, Disconnect, JoinLiveKit, Links
<1>5. PlacedByConnection'
  BY DEF Inv, PageTypes, PlacedByConnection, Disconnect, JoinLiveKit
<1> QED
  BY <1>3, <1>4, <1>5 DEF Inv

LEMMA NextInv ==
  ASSUME Inv, [Next]_vars
  PROVE  Inv'
<1>1. CASE Next
  BY <1>1, SelfChannelInv, LeavesInv, VideoInv, PublishInv, OtherInv DEF Next
<1>2. CASE UNCHANGED vars
  BY <1>2 DEF vars, Inv, RoomTypes, PageTypes, IndexesAgree, PlacedByConnection,
              ViewsCurrent, Members, StateOf
<1> QED
  BY <1>1, <1>2

LEMMA Invariance == Spec => []Inv
<1>1. Inv /\ [Next]_vars => Inv'
  BY NextInv
<1> QED
  BY InitInv, <1>1, PTL DEF Spec

\* The state keeps its types: among them, that whoever publishes is in the
\* video room.
THEOREM TypeCorrect == Spec => []TypeOK
<1>1. Inv => TypeOK
  BY DEF Inv, RoomTypes, PageTypes, TypeOK
<1> QED
  BY Invariance, <1>1, PTL

\* RoomRegistry.rooms and RoomRegistry.bySession name the same placements.
THEOREM OnePlace == Spec => []IndexesAgree
<1>1. Inv => IndexesAgree
  BY DEF Inv
<1> QED
  BY Invariance, <1>1, PTL

\* A session's place in the registry follows its connection.
THEOREM PlaceFollows == Spec => []PlacedByConnection
<1>1. Inv => PlacedByConnection
  BY DEF Inv
<1> QED
  BY Invariance, <1>1, PTL

\* What a member was last sent is its room as it is: RoomRegistry's early
\* returns and its broadcasts miss no change.
THEOREM EveryoneTold == Spec => []ViewsCurrent
<1>1. Inv => ViewsCurrent
  BY DEF Inv
<1> QED
  BY Invariance, <1>1, PTL

-----------------------------------------------------------------------------
(* With a mesh nothing is minted, and a mark is where its page asked.      *)

MeshInv ==
  /\ \A s \in Session : minting[s] = {}
  /\ VideoWhereAsked

LEMMA MeshNext ==
  ASSUME ~livekit, Inv, MeshInv, [Next]_vars
  PROVE  MeshInv'
<1> USE DEF Inv
<1>1. ASSUME NEW s \in Session, NEW r \in Ref, SelfChannel(s, r)
      PROVE  MeshInv'
  <2>1. /\ \A q \in Ref, t \in Session : t # s => rooms'[q][t] = rooms[q][t]
        /\ rooms'[r][s] = IF rooms[r][s] = None THEN Fresh ELSE rooms[r][s]
        /\ \A q \in Ref : q # r => rooms'[q][s] = None
    BY <1>1, JoinEffect DEF SelfChannel
  <2>2. \A q \in Ref : \A t \in Members(rooms', q) : rooms'[q][t].video => asked[t] = q
    <3> SUFFICES ASSUME NEW q \in Ref, NEW t \in Session, rooms'[q][t] # None,
                        rooms'[q][t].video
                 PROVE  asked[t] = q
      BY DEF Members
    <3>1. rooms'[q][t] = rooms[q][t]
      BY <2>1, FreshType
    <3> QED
      BY <3>1 DEF MeshInv, VideoWhereAsked, Members
  <2> QED
    BY <1>1, <2>2 DEF MeshInv, VideoWhereAsked, SelfChannel
<1>2. ASSUME NEW s \in Session, Closed(s) \/ Dispose(s)
      PROVE  MeshInv'
  <2>1. /\ \A q \in Ref, t \in Session : t # s => rooms'[q][t] = rooms[q][t]
        /\ \A q \in Ref : rooms'[q][s] = None
        /\ UNCHANGED <<minting, asked>>
    BY <1>2, LeaveEffect DEF Closed, Dispose
  <2> QED
    BY <2>1 DEF MeshInv, VideoWhereAsked, Members
<1>3. ASSUME NEW s \in Session, JoinMesh(s) \/ LeaveVideo(s)
      PROVE  MeshInv'
  <2>1. PICK on \in BOOLEAN : /\ SetVideo(s, on)
                              /\ UNCHANGED <<bySession, minting>>
                              /\ asked' = [asked EXCEPT ![s] = IF on THEN bySession[s] ELSE None]
    BY <1>3 DEF JoinMesh, LeaveVideo, PlacedByConnection
  <2>2. /\ IndexesAgree'
        /\ \A q \in Ref, t \in Session : t # s => rooms'[q][t] = rooms[q][t]
        /\ \A q \in Ref : q = bySession[s] => rooms'[q][s].video = on
    BY <2>1, SetVideoEffect
  <2>3. \A q \in Ref : \A t \in Members(rooms', q) : rooms'[q][t].video => asked'[t] = q
    <3> SUFFICES ASSUME NEW q \in Ref, NEW t \in Session, rooms'[q][t] # None,
                        rooms'[q][t].video
                 PROVE  asked'[t] = q
      BY DEF Members
    <3>1. bySession[t] = q
      BY <2>1, <2>2 DEF IndexesAgree, Members
    <3>2. CASE t = s
      BY <2>1, <2>2, <3>1, <3>2 DEF PageTypes
    <3>3. CASE t # s
      BY <2>1, <2>2, <3>3 DEF MeshInv, VideoWhereAsked, Members, PageTypes
    <3> QED
      BY <3>2, <3>3
  <2> QED
    BY <2>1, <2>3 DEF MeshInv, VideoWhereAsked
<1>4. ASSUME NEW s \in Session, NEW shares \in SUBSET Share, Publish(s, shares)
      PROVE  MeshInv'
  <2>1. /\ IndexesAgree'
        /\ \A q \in Ref, t \in Session : t # s => rooms'[q][t] = rooms[q][t]
        /\ \A q \in Ref : q = bySession[s] =>
              rooms'[q][s].video = (shares # {} \/ rooms[q][s].video)
    BY <1>4, SetPublishingEffect DEF Publish
  <2>2. /\ UNCHANGED <<bySession, minting>>
        /\ asked' = [asked EXCEPT ![s] = IF shares = {} THEN @ ELSE bySession[s]]
    BY <1>4 DEF Publish
  <2>3. \A q \in Ref : \A t \in Members(rooms', q) : rooms'[q][t].video => asked'[t] = q
    <3> SUFFICES ASSUME NEW q \in Ref, NEW t \in Session, rooms'[q][t] # None,
                        rooms'[q][t].video
                 PROVE  asked'[t] = q
      BY DEF Members
    <3>1. bySession[t] = q /\ rooms[q][t] # None
      BY <2>1, <2>2 DEF IndexesAgree, Members
    <3>2. CASE t = s
      BY <2>1, <2>2, <3>1, <3>2 DEF PageTypes, MeshInv, VideoWhereAsked, Members
    <3>3. CASE t # s
      BY <2>1, <2>2, <3>3 DEF MeshInv, VideoWhereAsked, Members, PageTypes
    <3> QED
      BY <3>2, <3>3
  <2> QED
    BY <2>2, <2>3 DEF MeshInv, VideoWhereAsked
<1>5. ASSUME NEW s \in Session, Disconnect(s)
      PROVE  MeshInv'
  BY <1>5 DEF Disconnect, MeshInv, VideoWhereAsked, Members
<1>6. ASSUME NEW s \in Session, JoinLiveKit(s) \/ TokenMinted(s)
      PROVE  FALSE
  BY <1>6 DEF JoinLiveKit, TokenMinted, MeshInv
<1>7. CASE UNCHANGED vars
  BY <1>7 DEF vars, MeshInv, VideoWhereAsked, Members
<1> QED
  BY <1>1, <1>2, <1>3, <1>4, <1>5, <1>6, <1>7 DEF Next

\* With a mesh a session is marked only in the room whose video its page asked
\* for: rtc.join marks it before anything else can move it.
THEOREM MarkedWhereAsked == Spec => []MeshWhereAsked
<1> DEFINE IfMesh == ~livekit => MeshInv
<1>1. Init => IfMesh
  BY DEF Init, MeshInv, VideoWhereAsked, Members
<1>2. [Next]_vars => UNCHANGED livekit
  BY DEF Next, vars, SelfChannel, Disconnect, Closed, Dispose, JoinMesh, JoinLiveKit,
     TokenMinted, LeaveVideo, Publish
<1>3. Inv /\ IfMesh /\ [Next]_vars => IfMesh'
  BY <1>2, MeshNext
<1>4. IfMesh => MeshWhereAsked
  BY DEF MeshInv, MeshWhereAsked
<1> QED
  BY Invariance, <1>1, <1>3, <1>4, PTL DEF Spec


-----------------------------------------------------------------------------
(* The room the page sees.                                                *)

LEMMA Least ==
  ASSUME NEW S \in SUBSET Nat, S # {}
  PROVE  \E x \in S : \A y \in S : x <= y
  <1>1. IsWellFoundedOn(OpToRel(<, Nat), Nat)
    BY NatLessThanWellFounded
  <1>2. PICK x \in S : \A y \in S : ~ (<<y, x>> \in OpToRel(<, Nat))
    BY <1>1, WFMin
  <1>3. \A y \in S : ~ (y < x)
    BY <1>2 DEF OpToRel
  <1> QED
    BY <1>3

-----------------------------------------------------------------------------
(* The state of a page in a video room.                                    *)

VideoMsgs ==
  [kind : {"grant", "self"}, of : VideoChan] \cup [kind : {"refused", "gone", "down"}]

VideoTypes ==
  /\ sfu \in BOOLEAN /\ steady \in BOOLEAN
  /\ events \in Nat
  /\ hubPlace \in VideoChan \cup {NoChan} /\ hubVideo \in BOOLEAN
  /\ toPage \in Seq(VideoMsgs)
  /\ page \in PageState

LEMMA JoinIdsAre == JoinIds \in SUBSET Nat /\ 0 \notin JoinIds
  BY VideoAssumption DEF JoinIds

\* join() gives its question to an attempt that was not used before.
LEMMA AskingGives ==
  ASSUME page \in PageState, NEW q \in PageState, NewJoins # {}
  PROVE  /\ Asking(q) \in PageState
         /\ q.state # "idle" => Asking(q) = q
         /\ q.state = "idle" => \E n \in NewJoins :
              Asking(q) = [q EXCEPT !.state = "connecting", !.want = TRUE, !.pending = n,
                                    !.phase[n] = "asked", !.out = Append(@, "join")]
  <1> DEFINE n == CHOOSE n \in NewJoins : \A m \in NewJoins : n <= m
  <1>1. n \in NewJoins /\ n \in JoinIds
    <2>1. NewJoins \in SUBSET Nat /\ NewJoins \in SUBSET JoinIds
      BY JoinIdsAre DEF NewJoins
    <2>2. \E x \in NewJoins : \A m \in NewJoins : x <= m
      BY <2>1, Least
    <2> QED
      BY <2>1, <2>2
  <1> DEFINE r == [q EXCEPT !.state = "connecting", !.want = TRUE, !.pending = n,
                            !.phase[n] = "asked", !.out = Append(@, "join")]
  <1>2. Asking(q) = IF q.state # "idle" THEN q ELSE r
    BY DEF Asking
  <1> HIDE DEF n
  <1>3. r \in PageState
    <2>1. q.out \in Seq({"join", "leave"}) /\ q.phase \in [JoinIds -> {"new", "asked", "dialling", "over"}]
      BY DEF PageState
    <2> DEFINE out == Append(q.out, "join")
               phase == [q.phase EXCEPT ![n] = "asked"]
    <2>2. out \in Seq({"join", "leave"})
      BY <2>1
    <2>3. phase \in [JoinIds -> {"new", "asked", "dialling", "over"}]
      BY <2>1
    <2>4. r = [q EXCEPT !.state = "connecting", !.want = TRUE, !.pending = n,
                        !.phase = phase, !.out = out]
      BY DEF PageState
    <2> HIDE DEF out, phase
    <2> QED
      BY <1>1, <2>2, <2>3, <2>4, ZenonT(40) DEF PageState
  <1> QED
    BY <1>1, <1>2, <1>3

LEMMA PagesStay ==
  ASSUME NEW q \in PageState
  PROVE  /\ \A n \in JoinIds, c \in VideoChan \cup {NoChan}, kept \in BOOLEAN : Opened(q, n, c, kept) \in PageState
         /\ \A n \in JoinIds : Failed(q, n) \in PageState
         /\ Closing(q) \in PageState /\ Left(q) \in PageState /\ Parked(q) \in PageState
  <1>1. ASSUME NEW n \in JoinIds, NEW c \in VideoChan \cup {NoChan}, NEW kept \in BOOLEAN
        PROVE  Opened(q, n, c, kept) \in PageState
    BY DEF Opened, PageState
  <1>2. ASSUME NEW n \in JoinIds
        PROVE  Failed(q, n) \in PageState
    BY DEF Failed, PageState
  <1>3. Closing(q) \in PageState
    BY DEF Closing, PageState
  <1>4. Left(q) \in PageState
    <2> DEFINE r == Closing(q)
    <2>1. r \in PageState
      BY <1>3
    <2> HIDE DEF r
    <2> DEFINE out == Append(r.out, "leave")
    <2>2. out \in Seq({"join", "leave"})
      BY <2>1 DEF PageState
    <2>3. Left(q) = [r EXCEPT !.want = FALSE, !.out = out,
                              !.screen = IF r.screen = "held" THEN "none" ELSE r.screen]
      BY <2>1 DEF Left, r
    <2> HIDE DEF out
    <2> QED
      BY <2>1, <2>2, <2>3, ZenonT(40) DEF PageState
  <1>5. Parked(q) \in PageState
    <2> DEFINE want == q.want \/ q.parking = "back"
               screen == IF q.screen = "parking"
                         THEN IF q.parking = "back" THEN "held" ELSE "none" ELSE q.screen
    <2>1. want \in BOOLEAN /\ screen \in {"none", "room", "parking", "held", "stray"}
      BY DEF PageState
    <2>2. Parked(q) = [q EXCEPT !.parking = "no", !.want = want, !.screen = screen]
      BY DEF Parked
    <2> HIDE DEF want, screen
    <2> QED
      BY <2>1, <2>2, ZenonT(40) DEF PageState
  <1> QED
    BY <1>1, <1>2, <1>3, <1>4, <1>5

LEMMA VideoKinds ==
  ASSUME NEW s \in Seq(VideoMsgs), s # <<>>
  PROVE  /\ Tail(s) \in Seq(VideoMsgs) /\ Head(s) = s[1] /\ Head(s) \in VideoMsgs
         /\ Len(Tail(s)) = Len(s) - 1
         /\ \A i \in 1..Len(Tail(s)) : Tail(s)[i] = s[i + 1]
         /\ Head(s).kind \in {"grant", "self"} => Head(s).of \in VideoChan
  <1>1. Tail(s) \in Seq(VideoMsgs) /\ Head(s) = s[1] /\ Head(s) \in VideoMsgs
    OBVIOUS
  <1>2. Len(Tail(s)) = Len(s) - 1 /\ \A i \in 1..Len(Tail(s)) : Tail(s)[i] = s[i + 1]
    OBVIOUS
  <1>3. \A m \in VideoMsgs : m.kind \in {"grant", "self"} => m.of \in VideoChan
    BY DEF VideoMsgs
  <1> QED
    BY <1>1, <1>2, <1>3

\* What the page has to say is read from the front.
LEMMA OutTail ==
  ASSUME page \in PageState, page.out # <<>>
  PROVE  [page EXCEPT !.out = Tail(@)] \in PageState
  <1> DEFINE out == Tail(page.out)
  <1>1. out \in Seq({"join", "leave"})
    BY DEF PageState
  <1>2. [page EXCEPT !.out = Tail(@)] = [page EXCEPT !.out = out]
    OBVIOUS
  <1> HIDE DEF out
  <1> QED
    BY <1>1, <1>2 DEF PageState

LEMMA EventTypes ==
  ASSUME VideoTypes, NEW place \in VideoChan \cup {NoChan},
         NEW messages \in Seq(VideoMsgs), Event(place, messages)
  PROVE  VideoTypes'
  <1>1. toPage \o messages \in Seq(VideoMsgs)
    BY DEF VideoTypes
  <1>2. /\ events' = events + 1 /\ hubPlace' = place /\ hubVideo' = FALSE
        /\ toPage' \in Seq(VideoMsgs) /\ UNCHANGED <<sfu, steady, page>>
    BY <1>1 DEF Event
  <1>3. events' \in Nat
    BY <1>2 DEF VideoTypes
  <1> QED
    BY <1>2, <1>3 DEF VideoTypes

LEMMA FollowsTypes ==
  ASSUME page \in PageState, NEW c \in VideoChan, NewJoins # {}, Follows(c)
  PROVE  page' \in PageState
  <1> DEFINE p == [page EXCEPT !.place = c]
             q == Closing(p)
  <1>1. p \in PageState
    BY DEF PageState
  <1>2. q \in PageState
    BY <1>1, PagesStay
  <1> HIDE DEF p
  <1> DEFINE r == [q EXCEPT !.closing = @ + 1]
  <1>3. page' = IF ~page.want \/ c = page.place THEN p
                ELSE IF sfu /\ page.room # 0 THEN r ELSE Asking(q)
    BY DEF Follows, p
  <1> HIDE DEF q
  <1>4. r \in PageState
    <2> DEFINE closing == q.closing + 1
    <2>1. closing \in Nat
      BY <1>2 DEF PageState
    <2>2. r = [q EXCEPT !.closing = closing]
      OBVIOUS
    <2> HIDE DEF closing, r
    <2> QED
      BY <1>2, <2>1, <2>2 DEF PageState
  <1>5. Asking(q) \in PageState
    BY <1>2, AskingGives
  <1> QED
    BY <1>1, <1>3, <1>4, <1>5

LEMMA DownTypes ==
  ASSUME page \in PageState, TakeDown
  PROVE  page' \in PageState
  <1> DEFINE q == [page EXCEPT !.place = NoChan]
             p == [q EXCEPT !.screen = IF @ = "room" THEN "parking" ELSE @]
             l == Left(p)
             parked == [l EXCEPT !.parking = IF page.want THEN "back" ELSE "away"]
  <1>1. q \in PageState
    BY DEF PageState
  <1>2. page' = IF page.room = 0 /\ page.state = "idle" THEN q
                ELSE IF sfu /\ page.room # 0 THEN parked ELSE Parked(parked)
    BY DEF TakeDown
  <1> HIDE DEF q
  <1>3. p \in PageState
    BY <1>1 DEF PageState
  <1> HIDE DEF p
  <1>4. l \in PageState
    BY <1>3, PagesStay
  <1> HIDE DEF l
  <1>5. parked \in PageState
    <2> DEFINE parking == IF page.want THEN "back" ELSE "away"
    <2>1. parking \in {"no", "back", "away"}
      OBVIOUS
    <2> HIDE DEF parking
    <2>2. [l EXCEPT !.parking = parking] \in PageState
      BY <1>4, <2>1 DEF PageState
    <2> QED
      BY <2>2 DEF parking
  <1> HIDE DEF parked
  <1>6. Parked(parked) \in PageState
    BY <1>5, PagesStay
  <1> QED
    BY <1>1, <1>2, <1>5, <1>6

LEMMA VideoTypesStep ==
  ASSUME VideoTypes, VideoNext
  PROVE  VideoTypes'
  <1>1. page \in PageState /\ toPage \in Seq(VideoMsgs)
    BY DEF VideoTypes
  <1>2. ASSUME PageOnly, page' \in PageState
        PROVE  VideoTypes'
    BY <1>2 DEF VideoTypes, PageOnly
  <1>3. ASSUME NEW k, Reads(k), page' \in PageState
        PROVE  VideoTypes'
    BY <1>1, <1>3, VideoKinds DEF VideoTypes, Reads
  <1>4. CASE UserStep
    <2>1. CASE ClickJoin
      BY <1>1, <1>2, <2>1, AskingGives DEF ClickJoin
    <2>2. CASE ClickLeave
      BY <1>1, <1>2, <2>2, PagesStay DEF ClickLeave
    <2>3. CASE PickScreen
      BY <1>1, <1>2, <2>3 DEF PickScreen, PageState
    <2>4. CASE StopScreen
      BY <1>1, <1>2, <2>4 DEF StopScreen, PageState
    <2> QED
      BY <1>4, <2>1, <2>2, <2>3, <2>4 DEF UserStep
  <1>5. CASE VideoHubStep
    <2>1. page' = [page EXCEPT !.out = Tail(@)] /\ page.out # <<>>
      BY <1>5 DEF VideoHubStep, HubGrants, HubRefuses, HubForgets
    <2>2. page' \in PageState
      BY <1>1, <2>1, OutTail
    <2>3. UNCHANGED <<sfu, steady, events, hubPlace>> /\ hubVideo' \in BOOLEAN
      BY <1>5 DEF VideoHubStep, HubGrants, HubRefuses, HubForgets, VideoTypes
    <2>4. \A m \in VideoMsgs : Append(toPage, m) \in Seq(VideoMsgs)
      BY <1>1
    <2>5. toPage' \in Seq(VideoMsgs)
      <3>1. CASE HubGrants
        <4>1. [kind |-> "grant", of |-> hubPlace] \in VideoMsgs
          BY <3>1 DEF HubGrants, VideoTypes, VideoMsgs
        <4> QED
          BY <3>1, <4>1, <2>4 DEF HubGrants
      <3>2. ASSUME NEW told, HubRefuses(told)
            PROVE  toPage' \in Seq(VideoMsgs)
        <4>1. [kind |-> "refused"] \in VideoMsgs
          BY DEF VideoMsgs
        <4> QED
          BY <3>2, <4>1, <2>4, <1>1 DEF HubRefuses
      <3>3. CASE HubForgets
        BY <3>3, <1>1 DEF HubForgets
      <3> QED
        BY <1>5, <3>1, <3>2, <3>3 DEF VideoHubStep
    <2> QED
      BY <2>2, <2>3, <2>5 DEF VideoTypes
  <1>6. CASE HubEvent
    <2>1. \A c \in VideoChan : <<[kind |-> "self", of |-> c]>> \in Seq(VideoMsgs)
      <3>1. \A c \in VideoChan : [kind |-> "self", of |-> c] \in VideoMsgs
        BY DEF VideoMsgs
      <3>2. \A m \in VideoMsgs : <<m>> \in Seq(VideoMsgs)
        OBVIOUS
      <3> QED
        BY <3>1, <3>2
    <2>2. /\ <<[kind |-> "gone"], [kind |-> "down"]>> \in Seq(VideoMsgs)
          /\ <<[kind |-> "down"]>> \in Seq(VideoMsgs)
      <3>1. [kind |-> "gone"] \in VideoMsgs /\ [kind |-> "down"] \in VideoMsgs
        BY DEF VideoMsgs
      <3> QED
        BY <3>1
    <2>3. ASSUME NEW c \in VideoChan, Moves(c) \/ Returns(c)
          PROVE  VideoTypes'
      BY <2>1, <2>3, EventTypes DEF Moves, Returns
    <2>4. ASSUME NEW first \in BOOLEAN, Drops(first)
          PROVE  VideoTypes'
      BY <2>2, <2>4, EventTypes DEF Drops
    <2> QED
      BY <1>6, <2>3, <2>4 DEF HubEvent
  <1>7. CASE PageReads
    <2>1. ASSUME NEW kept \in BOOLEAN, TakeGrant(kept)
          PROVE  page' \in PageState
      <3> DEFINE n == page.pending
                 c == Head(toPage).of
                 q == [page EXCEPT !.pending = 0]
      <3>1. q \in PageState /\ n \in {0} \cup JoinIds
        BY <1>1 DEF PageState
      <3>2. c \in VideoChan
        BY <2>1, <1>1, VideoKinds DEF TakeGrant, Reads
      <3> HIDE DEF c, n
      <3>3. page' = IF n = 0 THEN page
                    ELSE IF sfu THEN [q EXCEPT !.phase[n] = "dialling", !.of[n] = c]
                    ELSE Opened(q, n, c, kept)
        BY <2>1 DEF TakeGrant, n, c
      <3> HIDE DEF q
      <3>4. n # 0 => [q EXCEPT !.phase[n] = "dialling", !.of[n] = c] \in PageState
        BY <3>1, <3>2 DEF PageState
      <3> QED
        BY <1>1, <3>1, <3>2, <3>3, <3>4, PagesStay
    <2>2. CASE TakeRefusal
      <3>1. [page EXCEPT !.pending = 0] \in PageState /\ page.pending \in {0} \cup JoinIds
        BY <1>1 DEF PageState
      <3> QED
        BY <1>1, <1>3, <2>2, <3>1, PagesStay DEF TakeRefusal
    <2>3. CASE TakeSelf
      <3>1. Head(toPage).of \in VideoChan
        BY <2>3, <1>1, VideoKinds DEF TakeSelf, Reads
      <3> QED
        BY <1>1, <1>3, <2>3, <3>1, FollowsTypes DEF TakeSelf
    <2>4. CASE TakeGone
      BY <1>1, <1>3, <2>4 DEF TakeGone, PageState
    <2>5. CASE TakeDown
      BY <1>1, <1>3, <2>5, DownTypes DEF TakeDown
    <2> QED
      BY <1>3, <1>7, <2>1, <2>2, <2>3, <2>4, <2>5 DEF PageReads, TakeGrant
  <1>8. CASE PageWorks
    <2>1. ASSUME NEW chosen \in BOOLEAN, Picked(chosen)
          PROVE  VideoTypes'
      BY <1>1, <1>2, <2>1 DEF Picked, PageState
    <2>2. ASSUME NEW n \in JoinIds, AskTimesOut(n)
          PROVE  VideoTypes'
      <3>1. [page EXCEPT !.pending = 0] \in PageState
        BY <1>1 DEF PageState
      <3> QED
        BY <1>2, <2>2, <3>1, PagesStay DEF AskTimesOut
    <2>3. ASSUME NEW n \in JoinIds, DialFails(n)
          PROVE  VideoTypes'
      BY <1>1, <1>2, <2>3, PagesStay DEF DialFails
    <2>4. ASSUME NEW n \in JoinIds, NEW kept \in BOOLEAN, Dialled(n, kept)
          PROVE  VideoTypes'
      <3>1. page.of[n] \in VideoChan \cup {NoChan}
        BY <1>1 DEF PageState
      <3> QED
        BY <1>1, <1>2, <2>4, <3>1, PagesStay DEF Dialled
    <2>5. CASE ClosedThenJoin
      <3>1. [page EXCEPT !.closing = @ - 1] \in PageState
        BY <1>1, <2>5 DEF PageState, ClosedThenJoin
      <3> QED
        BY <1>1, <1>2, <2>5, <3>1, AskingGives DEF ClosedThenJoin
    <2>6. CASE LeftThenPark
      BY <1>1, <1>2, <2>6, PagesStay DEF LeftThenPark
    <2> QED
      BY <1>8, <2>1, <2>2, <2>3, <2>4, <2>5, <2>6 DEF PageWorks
  <1> QED
    BY <1>4, <1>5, <1>6, <1>7, <1>8 DEF VideoNext

-----------------------------------------------------------------------------
(* A steady world.                                                         *)

Busy(n) == page.phase[n] \in {"asked", "dialling"}

\* The page has nothing under way: no join, close, picker or leave.
Quiet ==
  /\ page.state # "connecting" /\ page.pending = 0 /\ page.out = <<>>
  /\ page.closing = 0 /\ page.parking = "no" /\ page.picking = 0
  /\ \A n \in JoinIds : ~Busy(n)

\* News of where the client is.
News == toPage # <<>> /\ toPage[1].kind \in {"self", "gone", "down"}

\* The page does one thing at a time.
OneThing ==
  /\ page.out \in {<<>>, <<"join">>, <<"leave">>}
  /\ toPage # <<>> => page.out = <<>>
  /\ News => Quiet
  /\ page.out = <<"join">> => page.pending # 0
  /\ page.out = <<"leave">> => page.state = "idle"
  /\ page.closing > 0 =>
       /\ page.closing = 1 /\ page.state = "idle" /\ page.out = <<>> /\ toPage = <<>>
       /\ page.parking = "no" /\ page.picking = 0
  /\ page.parking # "no" =>
       page.state = "idle" /\ page.place = NoChan /\ toPage = <<>> /\ page.picking = 0
  /\ page.picking # 0 => page.state = "connected" /\ page.out = <<>> /\ toPage = <<>>

\* A join under way is the only one, and has the slot until its answer.
Joining ==
  /\ page.state = "connecting" <=> \E n \in JoinIds : Busy(n)
  /\ \A n, m \in JoinIds : Busy(n) /\ Busy(m) => n = m
  /\ \A n \in JoinIds : page.phase[n] = "asked" <=> page.pending = n
  /\ page.state = "connecting" =>
       /\ page.place # NoChan /\ page.want
       /\ page.picking = 0 /\ page.parking = "no" /\ page.closing = 0
  /\ \A n \in JoinIds : page.phase[n] = "dialling" =>
       page.of[n] = page.place /\ hubVideo /\ toPage = <<>> /\ page.out = <<>>

\* Where the client is, the page knows or will read.
Places ==
  /\ toPage # <<>> =>
       \/ /\ Len(toPage) = 1 /\ toPage[1].kind = "self" /\ toPage[1].of = hubPlace
          /\ page.place # hubPlace /\ hubPlace # NoChan
       \/ Len(toPage) = 1 /\ toPage[1].kind = "down" /\ hubPlace = NoChan
       \/ /\ Len(toPage) = 2 /\ toPage[1].kind = "gone" /\ toPage[2].kind = "down"
          /\ hubPlace = NoChan
       \/ /\ Len(toPage) = 1 /\ toPage[1].kind = "grant" /\ toPage[1].of = hubPlace
          /\ hubVideo /\ page.pending # 0
       \/ Len(toPage) = 1 /\ toPage[1].kind = "refused" /\ page.pending # 0
  /\ ~News => page.place = hubPlace

\* A room is wanted, and is the one where the client is.
Rooms ==
  /\ page.room # 0 <=> page.state = "connected"
  /\ page.room # 0 => page.want
  /\ page.room # 0 /\ ~News => page.of[page.room] = page.place /\ hubVideo
  /\ page.want /\ page.place # NoChan => page.state # "idle" \/ page.closing > 0
  /\ page.closing > 0 => page.want /\ page.place # NoChan

AtPace == OneThing /\ Joining /\ Places /\ Rooms

LEMMA AtPaceAtRest ==
  ASSUME VideoTypes, AtPace
  PROVE  /\ RoomInSync
         /\ ~AtWork => Quiet /\ toPage = <<>>
  <1>1. ~AtWork => Quiet /\ toPage = <<>>
    BY DEF AtWork, Quiet, Busy, AtPace, Joining, VideoTypes, PageState
  <1> QED
    BY <1>1 DEF RoomInSync, AtPace, Rooms, News, Quiet, VideoTypes, PageState

LEMMA AtPaceInit ==
  ASSUME VideoInit
  PROVE  VideoTypes /\ AtPace
  <1>1. 0 \notin JoinIds
    BY JoinIdsAre
  <1>2. VideoTypes
    <2>1. page \in PageState
      BY DEF VideoInit, PageState
    <2>2. toPage \in Seq(VideoMsgs)
      BY DEF VideoInit
    <2> QED
      BY <2>1, <2>2 DEF VideoInit, VideoTypes
  <1>3. AtPace
    BY <1>1, VideoAssumption DEF VideoInit, AtPace, OneThing, Joining, Places, Rooms, News, Quiet, Busy
  <1> QED
    BY <1>2, <1>3

\* Closing a room leaves the rest of the page alone.
LEMMA ClosingFields ==
  ASSUME NEW q \in PageState
  PROVE  /\ Closing(q).room = 0 /\ Closing(q).state = "idle"
         /\ Closing(q).out = q.out /\ Closing(q).pending = q.pending
         /\ Closing(q).phase = q.phase /\ Closing(q).place = q.place
         /\ Closing(q).of = q.of /\ Closing(q).closing = q.closing
         /\ Closing(q).parking = q.parking /\ Closing(q).picking = q.picking
         /\ Closing(q).want = q.want
         /\ Closing(q).screen = IF q.screen = "room" THEN "none" ELSE q.screen
  <1> DEFINE screen == IF q.screen = "room" THEN "none" ELSE q.screen
  <1>1. Closing(q) = [q EXCEPT !.room = 0, !.state = "idle", !.screen = screen]
    BY DEF Closing
  <1> HIDE DEF screen
  <1>2. /\ Closing(q).room = 0 /\ Closing(q).state = "idle"
        /\ Closing(q).out = q.out /\ Closing(q).pending = q.pending
        /\ Closing(q).phase = q.phase /\ Closing(q).place = q.place
        /\ Closing(q).of = q.of /\ Closing(q).closing = q.closing
        /\ Closing(q).parking = q.parking /\ Closing(q).picking = q.picking
        /\ Closing(q).want = q.want /\ Closing(q).screen = screen
    BY <1>1 DEF PageState
  <1> QED
    BY <1>2 DEF screen

LEMMA AtPaceUser ==
  ASSUME VideoTypes, VideoTypes', steady, AtPace, UserStep
  PROVE  AtPace'
  <1>1. page \in PageState /\ page' \in PageState /\ 0 \notin JoinIds
    BY JoinIdsAre DEF VideoTypes
  <1>2. Quiet /\ toPage = <<>> /\ UNCHANGED <<hubPlace, hubVideo, toPage>>
    BY AtPaceAtRest DEF UserStep, ClickJoin, ClickLeave, PickScreen, StopScreen, Happens, PageOnly
  <1> USE DEF AtPace, OneThing, Joining, Places, Rooms, News, Quiet, Busy
  <1>3. CASE ClickJoin
    <2>1. PICK n \in JoinIds : page' =
            [page EXCEPT !.state = "connecting", !.want = TRUE, !.pending = n,
                         !.phase[n] = "asked", !.out = Append(@, "join")]
      BY <1>1, <1>3, AskingGives, ZenonT(40) DEF ClickJoin, NewJoins
    <2>2. /\ page'.state = "connecting" /\ page'.want /\ page'.pending = n
          /\ page'.phase = [page.phase EXCEPT ![n] = "asked"] /\ page'.out = <<"join">>
          /\ page'.place = page.place /\ page'.room = page.room /\ page'.of = page.of
          /\ page'.closing = page.closing /\ page'.parking = page.parking
          /\ page'.picking = page.picking
      BY <1>1, <1>2, <2>1 DEF PageState
    <2>3. page.place # NoChan /\ page.state = "idle"
      BY <1>3 DEF ClickJoin
    <2>4. page.phase \in [JoinIds -> {"new", "asked", "dialling", "over"}]
      BY <1>1 DEF PageState
    <2>5. page'.phase[n] = "asked" /\ \A m \in JoinIds \ {n} : page'.phase[m] = page.phase[m]
      BY <2>2, <2>4
    <2> QED
      BY <1>1, <1>2, <2>2, <2>3, <2>5
  <1>4. CASE ClickLeave
    <2>1. /\ page'.state = "idle" /\ page'.want = FALSE /\ page'.room = 0
          /\ page'.out = <<"leave">> /\ page'.pending = page.pending
          /\ page'.phase = page.phase
          /\ page'.place = page.place /\ page'.of = page.of
          /\ page'.closing = page.closing /\ page'.parking = page.parking
          /\ page'.picking = page.picking
      <3> DEFINE r == Closing(page)
      <3>1. Append(page.out, "leave") = <<"leave">>
        BY <1>2
      <3>2. /\ r \in PageState /\ r.room = 0 /\ r.state = "idle" /\ r.out = page.out
            /\ r.pending = page.pending /\ r.phase = page.phase
            /\ r.place = page.place /\ r.of = page.of
            /\ r.closing = page.closing /\ r.parking = page.parking
            /\ r.picking = page.picking
        BY <1>1, PagesStay, ClosingFields
      <3>3. page' = [r EXCEPT !.want = FALSE, !.out = Append(@, "leave"),
                              !.screen = IF @ = "held" THEN "none" ELSE @]
        BY <1>4 DEF ClickLeave, Left
      <3> HIDE DEF r
      <3> QED
        BY <3>1, <3>2, <3>3 DEF PageState
    <2> QED
      BY <1>1, <1>2, <2>1
  <1>5. CASE PickScreen \/ StopScreen
    <2>1. /\ page'.state = page.state /\ page'.want = page.want /\ page'.room = page.room
          /\ page'.out = page.out /\ page'.pending = page.pending
          /\ page'.phase = page.phase
          /\ page'.place = page.place /\ page'.of = page.of
          /\ page'.closing = page.closing /\ page'.parking = page.parking
          /\ page'.picking # page.picking => page.state = "connected"
      BY <1>1, <1>5 DEF PageState, PickScreen, StopScreen
    <2> QED
      BY <1>1, <1>2, <2>1
  <1> QED
    BY <1>3, <1>4, <1>5 DEF UserStep

LEMMA AtPaceHub ==
  ASSUME VideoTypes, VideoTypes', steady, AtPace, VideoHubStep
  PROVE  AtPace'
  <1>1. page \in PageState /\ page' \in PageState /\ 0 \notin JoinIds
    BY JoinIdsAre DEF VideoTypes
  <1>2. /\ page.out # <<>> /\ page' = [page EXCEPT !.out = Tail(@)]
        /\ UNCHANGED <<steady, hubPlace>>
    BY DEF VideoHubStep, HubGrants, HubRefuses, HubForgets
  <1>3. /\ page'.state = page.state /\ page'.want = page.want /\ page'.room = page.room
        /\ page'.out = <<>> /\ page'.pending = page.pending
        /\ page'.phase = page.phase
        /\ page'.place = page.place /\ page'.of = page.of
        /\ page'.closing = page.closing /\ page'.parking = page.parking
        /\ page'.picking = page.picking
    <2>1. Tail(page.out) = <<>>
      <3>1. Tail(<<"join">>) = <<>> /\ Tail(<<"leave">>) = <<>>
        OBVIOUS
      <3> QED
        BY <1>2, <3>1 DEF AtPace, OneThing
    <2> QED
      BY <1>1, <1>2, <2>1 DEF PageState
  <1> USE DEF AtPace, OneThing, Joining, Places, Rooms, News, Quiet, Busy
  <1>4. toPage = <<>> /\ page.closing = 0 /\ page.picking = 0
    BY <1>1, <1>2 DEF PageState
  <1>5. page.out = <<"join">> =>
          page.state = "connecting" /\ page.pending # 0 /\ page.parking = "no" /\ hubPlace # NoChan
    BY <1>1, <1>4 DEF PageState
  <1>6. CASE HubGrants
    <2>1. page.out = <<"join">>
      BY <1>2, <1>6 DEF HubGrants
    <2>2. hubVideo' = TRUE /\ Len(toPage') = 1 /\ toPage'[1].kind = "grant" /\ toPage'[1].of = hubPlace
      BY <1>4, <1>6 DEF HubGrants
    <2> QED
      BY <1>1, <1>2, <1>3, <1>4, <1>5, <2>1, <2>2
  <1>7. ASSUME NEW told \in BOOLEAN, HubRefuses(told)
        PROVE  AtPace'
    <2>1. page.out = <<"join">> /\ hubVideo' = hubVideo
      BY <1>2, <1>7 DEF HubRefuses
    <2>2. toPage' = <<>> \/ (Len(toPage') = 1 /\ toPage'[1].kind = "refused")
      BY <1>4, <1>7 DEF HubRefuses
    <2> QED
      BY <1>1, <1>2, <1>3, <1>4, <1>5, <2>1, <2>2
  <1>8. CASE HubForgets
    <2>1. page.out = <<"leave">> /\ toPage' = toPage
      BY <1>2, <1>8 DEF HubForgets
    <2> QED
      BY <1>1, <1>2, <1>3, <1>4, <2>1
  <1> QED
    BY <1>6, <1>7, <1>8 DEF VideoHubStep

LEMMA AtPaceEvent ==
  ASSUME VideoTypes, VideoTypes', steady, AtPace, HubEvent
  PROVE  AtPace'
  <1>1. page \in PageState /\ 0 \notin JoinIds
    BY JoinIdsAre DEF VideoTypes
  <1>2. /\ Quiet /\ toPage = <<>> /\ UNCHANGED page
        /\ page.place = hubPlace
    BY AtPaceAtRest DEF HubEvent, Moves, Returns, Drops, Event, Happens, AtPace, Places, News
  <1> USE DEF AtPace, OneThing, Joining, Places, Rooms, News, Quiet, Busy
  <1>3. ASSUME NEW c \in VideoChan, Moves(c) \/ Returns(c)
        PROVE  AtPace'
    <2>1. c # NoChan /\ c # hubPlace /\ hubPlace' = c
      BY <1>3, VideoAssumption DEF Moves, Returns, Event
    <2>2. toPage' # <<>> /\ Len(toPage') = 1 /\ toPage'[1].kind = "self" /\ toPage'[1].of = c
      <3>1. toPage' = <<>> \o <<[kind |-> "self", of |-> c]>>
        BY <1>2, <1>3 DEF Moves, Returns, Event
      <3>2. <<>> \o <<[kind |-> "self", of |-> c]>> = <<[kind |-> "self", of |-> c]>>
        OBVIOUS
      <3> QED
        BY <3>1, <3>2
    <2>3. News' /\ Quiet'
      BY <1>2, <2>2
    <2>4. OneThing' /\ Joining'
      <3>1. OneThing'
        BY <1>2, <2>2, <2>3
      <3>2. Joining'
        BY <1>1, <1>2, <2>3
      <3> QED
        BY <3>1, <3>2
    <2>5. Places'
      BY <1>2, <2>1, <2>2, <2>3
    <2>6. Rooms'
      BY <1>1, <1>2, <2>3
    <2> QED
      BY <2>4, <2>5, <2>6
  <1>4. ASSUME NEW first \in BOOLEAN, Drops(first)
        PROVE  AtPace'
    <2>1. hubPlace' = NoChan
      BY <1>4 DEF Drops, Event
    <2>2. \/ Len(toPage') = 1 /\ toPage'[1].kind = "down"
          \/ Len(toPage') = 2 /\ toPage'[1].kind = "gone" /\ toPage'[2].kind = "down"
      BY <1>2, <1>4 DEF Drops, Event
    <2> QED
      BY <1>1, <1>2, <2>1, <2>2
  <1> QED
    BY <1>3, <1>4 DEF HubEvent

\* Following the client into the next channel.
LEMMA FollowsGives ==
  ASSUME page \in PageState, NEW c \in VideoChan, NewJoins # {}, Follows(c), Quiet
  PROVE  /\ page'.place = c /\ page'.of = page.of /\ page'.parking = page.parking
         /\ page'.picking = page.picking /\ page'.want = page.want
         /\ \/ /\ ~page.want \/ c = page.place
               /\ page'.state = page.state /\ page'.room = page.room /\ page'.out = page.out
               /\ page'.pending = page.pending /\ page'.phase = page.phase
               /\ page'.closing = page.closing
            \/ /\ page.want /\ c # page.place /\ page.room # 0
               /\ page'.state = "idle" /\ page'.room = 0 /\ page'.out = page.out
               /\ page'.pending = page.pending /\ page'.phase = page.phase
               /\ page'.closing = 1
            \/ /\ page.want /\ c # page.place /\ page'.closing = page.closing
               /\ page'.state = "connecting" /\ page'.room = 0 /\ page'.out = <<"join">>
               /\ \E n \in JoinIds : page'.pending = n
                                     /\ page'.phase = [page.phase EXCEPT ![n] = "asked"]
  <1> DEFINE p == [page EXCEPT !.place = c]
             q == Closing(p)
             r == [q EXCEPT !.closing = @ + 1]
  <1>1. /\ p \in PageState /\ p.place = c /\ p.of = page.of /\ p.parking = page.parking
        /\ p.picking = page.picking /\ p.want = page.want /\ p.state = page.state
        /\ p.room = page.room /\ p.out = page.out /\ p.pending = page.pending
        /\ p.phase = page.phase /\ p.closing = page.closing
    BY DEF PageState
  <1>2. page' = IF ~page.want \/ c = page.place THEN p
                ELSE IF sfu /\ page.room # 0 THEN r ELSE Asking(q)
    BY DEF Follows, p
  <1> HIDE DEF p
  <1>3. q \in PageState
    BY <1>1, PagesStay
  <1>4. /\ q.room = 0 /\ q.state = "idle" /\ q.out = p.out /\ q.pending = p.pending
        /\ q.phase = p.phase /\ q.place = p.place /\ q.of = p.of /\ q.closing = p.closing
        /\ q.parking = p.parking /\ q.picking = p.picking /\ q.want = p.want
    BY <1>1, ClosingFields
  <1> HIDE DEF q
  <1>5. CASE ~page.want \/ c = page.place
    BY <1>1, <1>2, <1>5
  <1>6. CASE page.want /\ c # page.place /\ page' = r /\ page.room # 0
    <2>1. q.closing + 1 = 1
      BY <1>1, <1>4 DEF Quiet
    <2>2. r = [q EXCEPT !.closing = 1]
      BY <2>1
    <2> HIDE DEF r
    <2>3. /\ r.room = q.room /\ r.state = q.state /\ r.out = q.out /\ r.pending = q.pending
          /\ r.phase = q.phase /\ r.place = q.place /\ r.of = q.of /\ r.closing = 1
          /\ r.parking = q.parking /\ r.picking = q.picking /\ r.want = q.want
      BY <1>3, <2>2 DEF PageState
    <2> QED
      BY <1>1, <1>4, <1>6, <2>3
  <1>7. CASE page.want /\ c # page.place /\ page' = Asking(q)
    <2>1. PICK n \in JoinIds : Asking(q) =
            [q EXCEPT !.state = "connecting", !.want = TRUE, !.pending = n,
                      !.phase[n] = "asked", !.out = Append(@, "join")]
      BY <1>3, <1>4, AskingGives DEF NewJoins
    <2>2. Append(q.out, "join") = <<"join">>
      BY <1>1, <1>4 DEF Quiet
    <2>3. /\ page'.place = q.place /\ page'.of = q.of /\ page'.parking = q.parking
          /\ page'.picking = q.picking /\ page'.want = TRUE /\ page'.closing = q.closing
          /\ page'.state = "connecting" /\ page'.room = q.room /\ page'.out = <<"join">>
          /\ page'.pending = n /\ page'.phase = [q.phase EXCEPT ![n] = "asked"]
      <3> DEFINE phase == [q.phase EXCEPT ![n] = "asked"]
      <3>1. page' = [q EXCEPT !.state = "connecting", !.want = TRUE, !.pending = n,
                              !.phase = phase, !.out = <<"join">>]
        BY <1>3, <1>7, <2>1, <2>2 DEF PageState
      <3> HIDE DEF phase
      <3>2. /\ page'.place = q.place /\ page'.of = q.of /\ page'.parking = q.parking
            /\ page'.picking = q.picking /\ page'.want = TRUE /\ page'.closing = q.closing
            /\ page'.state = "connecting" /\ page'.room = q.room /\ page'.out = <<"join">>
            /\ page'.pending = n /\ page'.phase = phase
        BY <1>3, <3>1 DEF PageState
      <3> QED
        BY <3>2 DEF phase
    <2>4. page.want = TRUE
      BY <1>7 DEF PageState
    <2>5. page'.pending = n /\ page'.phase = [page.phase EXCEPT ![n] = "asked"]
      BY <1>1, <1>4, <2>3
    <2>6. \E m \in JoinIds : page'.pending = m /\ page'.phase = [page.phase EXCEPT ![m] = "asked"]
      BY <2>5
    <2>7. /\ page'.place = c /\ page'.of = page.of /\ page'.parking = page.parking
          /\ page'.picking = page.picking /\ page'.want = page.want
          /\ page'.closing = page.closing
          /\ page'.state = "connecting" /\ page'.room = 0 /\ page'.out = <<"join">>
      BY <1>1, <1>4, <2>3, <2>4
    <2> QED
      BY <1>7, <2>6, <2>7
  <1> QED
    BY <1>2, <1>5, <1>6, <1>7

\* What a drop leaves of the room.
LEMMA DownGives ==
  ASSUME page \in PageState, TakeDown, Quiet
  PROVE  /\ page'.place = NoChan /\ page'.of = page.of /\ page'.picking = page.picking
         /\ page'.pending = page.pending /\ page'.phase = page.phase
         /\ page'.closing = page.closing
         /\ \/ /\ page.room = 0 /\ page'.room = page.room /\ page'.state = page.state
               /\ page'.want = page.want /\ page'.out = page.out
               /\ page'.parking = page.parking /\ page'.screen = page.screen
            \/ /\ page'.room = 0 /\ page'.state = "idle" /\ page'.out = <<"leave">>
               /\ page.want /\ page.screen = "room" => page'.screen \in {"parking", "held"}
  <1> DEFINE q == [page EXCEPT !.place = NoChan]
             screen == IF q.screen = "room" THEN "parking" ELSE q.screen
             p == [q EXCEPT !.screen = screen]
             parking == IF page.want THEN "back" ELSE "away"
             l == Left(p)
             parked == [l EXCEPT !.parking = parking]
  <1>1. /\ q \in PageState /\ q.place = NoChan /\ q.of = page.of /\ q.picking = page.picking
        /\ q.pending = page.pending /\ q.phase = page.phase /\ q.closing = page.closing
        /\ q.room = page.room /\ q.state = page.state /\ q.want = page.want
        /\ q.out = page.out /\ q.parking = page.parking /\ q.screen = page.screen
    BY DEF PageState
  <1>2. page' = IF page.room = 0 /\ page.state = "idle" THEN q
                ELSE IF sfu /\ page.room # 0 THEN parked ELSE Parked(parked)
    BY DEF TakeDown
  <1> HIDE DEF q
  <1>3. screen \in {"none", "room", "parking", "held", "stray"} /\ parking \in {"back", "away"}
    BY <1>1 DEF PageState
  <1>4. /\ p \in PageState /\ p.place = NoChan /\ p.of = page.of /\ p.picking = page.picking
        /\ p.pending = page.pending /\ p.phase = page.phase /\ p.closing = page.closing
        /\ p.out = page.out /\ p.screen = screen
    <2> HIDE DEF screen
    <2> QED
      BY <1>1, <1>3 DEF PageState
  <1>5. page.screen = "room" => screen = "parking"
    BY <1>1
  <1> HIDE DEF p, screen
  <1>6. /\ l \in PageState /\ l.place = NoChan /\ l.of = page.of /\ l.picking = page.picking
        /\ l.pending = page.pending /\ l.phase = page.phase /\ l.closing = page.closing
        /\ l.room = 0 /\ l.state = "idle" /\ l.out = <<"leave">>
        /\ screen = "parking" => l.screen = "parking"
    <2> DEFINE k == Closing(p)
               left == IF k.screen = "held" THEN "none" ELSE k.screen
    <2>1. k \in PageState
      BY <1>4, PagesStay
    <2>2. /\ k.room = 0 /\ k.state = "idle" /\ k.out = p.out /\ k.pending = p.pending
          /\ k.phase = p.phase /\ k.place = p.place /\ k.of = p.of /\ k.closing = p.closing
          /\ k.picking = p.picking /\ (screen = "parking" => k.screen = "parking")
      BY <1>4, ClosingFields
    <2>3. l \in PageState
      BY <1>4, PagesStay
    <2>4. Append(k.out, "leave") = <<"leave">>
      BY <1>4, <2>2 DEF Quiet
    <2>5. l = [k EXCEPT !.want = FALSE, !.out = <<"leave">>, !.screen = left]
      BY <2>4 DEF Left
    <2>6. screen = "parking" => left = "parking"
      BY <2>2
    <2> HIDE DEF k, left
    <2> QED
      BY <1>4, <2>1, <2>2, <2>3, <2>5, <2>6 DEF PageState
  <1> HIDE DEF l
  <1>7. /\ parked \in PageState /\ parked.place = NoChan /\ parked.of = page.of
        /\ parked.picking = page.picking /\ parked.pending = page.pending
        /\ parked.phase = page.phase /\ parked.closing = page.closing
        /\ parked.room = 0 /\ parked.state = "idle" /\ parked.out = <<"leave">>
        /\ parked.parking = parking
        /\ screen = "parking" => parked.screen = "parking"
    <2> HIDE DEF parking
    <2> QED
      BY <1>3, <1>6 DEF PageState
  <1>8. page.want => parking = "back"
    OBVIOUS
  <1> HIDE DEF parked, parking
  <1>9. /\ Parked(parked).place = NoChan /\ Parked(parked).of = page.of
        /\ Parked(parked).picking = page.picking /\ Parked(parked).pending = page.pending
        /\ Parked(parked).phase = page.phase /\ Parked(parked).closing = page.closing
        /\ Parked(parked).room = 0 /\ Parked(parked).state = "idle"
        /\ Parked(parked).out = <<"leave">>
        /\ page.want /\ screen = "parking" => Parked(parked).screen = "held"
    <2> DEFINE want == parked.want \/ parked.parking = "back"
               kept == IF parked.screen = "parking"
                       THEN IF parked.parking = "back" THEN "held" ELSE "none"
                       ELSE parked.screen
    <2>1. Parked(parked) = [parked EXCEPT !.parking = "no", !.want = want, !.screen = kept]
      BY DEF Parked
    <2>2. page.want /\ screen = "parking" => kept = "held"
      BY <1>7, <1>8
    <2> HIDE DEF want, kept
    <2> QED
      BY <1>7, <2>1, <2>2 DEF PageState
  <1> QED
    BY <1>1, <1>2, <1>5, <1>7, <1>9

\* A join that fails, in time or not.
LEMMA AtPaceFails ==
  ASSUME VideoTypes, AtPace, NEW n \in JoinIds, Busy(n),
         page' = Failed([page EXCEPT !.pending = 0], n),
         UNCHANGED <<hubPlace, hubVideo>>, toPage' = <<>>, page.out = <<>>,
         page.place = hubPlace
  PROVE  AtPace'
  <1> DEFINE q == [page EXCEPT !.pending = 0]
             phase == [q.phase EXCEPT ![n] = "over"]
  <1>1. page \in PageState /\ 0 \notin JoinIds
    BY JoinIdsAre DEF VideoTypes
  <1>2. /\ q \in PageState /\ q.pending = 0 /\ q.state = page.state /\ q.want = page.want
        /\ q.room = page.room /\ q.out = page.out /\ q.phase = page.phase
        /\ q.place = page.place /\ q.of = page.of /\ q.closing = page.closing
        /\ q.parking = page.parking /\ q.picking = page.picking
    BY <1>1 DEF PageState
  <1>3. page' = [q EXCEPT !.state = "idle", !.want = FALSE, !.phase = phase]
    BY <1>2 DEF Failed, PageState
  <1> HIDE DEF q
  <1>4. /\ \A m \in JoinIds \ {n} : phase[m] = page.phase[m]
        /\ phase[n] = "over"
    BY <1>1, <1>2 DEF PageState
  <1> HIDE DEF phase
  <1>5. /\ page'.pending = 0 /\ page'.want = FALSE /\ page'.out = <<>>
        /\ page'.place = page.place /\ page'.closing = page.closing
        /\ page'.parking = page.parking /\ page'.picking = page.picking
        /\ page'.of = page.of /\ page'.state = "idle" /\ page'.room = page.room
        /\ page'.phase = phase
    BY <1>2, <1>3 DEF PageState
  <1>6. page.state = "connecting" /\ page.closing = 0 /\ page.parking = "no" /\ page.picking = 0
    BY DEF AtPace, Joining
  <1>7. \A m \in JoinIds : page'.phase[m] \notin {"asked", "dialling"}
    BY <1>4, <1>5 DEF AtPace, Joining, Busy
  <1>8. OneThing' /\ Places'
    <2>1. OneThing'
      <3>1. <<>> # <<"join">>
        OBVIOUS
      <3>2. ~News' /\ page'.out = <<>> /\ page'.closing = 0
        BY <1>5, <1>6 DEF News
      <3>3. ~(page'.closing > 0)
        BY <3>2
      <3> QED
        BY <1>5, <1>6, <3>1, <3>2, <3>3 DEF OneThing
    <2>2. Places'
      BY <1>5 DEF Places, News
    <2> QED
      BY <2>1, <2>2
  <1>9. Joining'
    BY <1>1, <1>5, <1>6, <1>7 DEF Joining, Busy
  <1>10. page.room = 0
    BY <1>6 DEF AtPace, Rooms
  <1>11. Rooms'
    BY <1>5, <1>6, <1>10 DEF Rooms, News
  <1> QED
    BY <1>8, <1>9, <1>11 DEF AtPace

LEMMA AtPaceReads ==
  ASSUME VideoTypes, VideoTypes', steady, AtPace, PageReads
  PROVE  AtPace'
  <1>1. page \in PageState /\ page' \in PageState /\ 0 \notin JoinIds
    BY JoinIdsAre DEF VideoTypes
  <1>2. page.phase \in [JoinIds -> {"new", "asked", "dialling", "over"}]
    BY <1>1 DEF PageState
  <1>3. /\ toPage # <<>> /\ toPage' = Tail(toPage) /\ UNCHANGED <<hubPlace, hubVideo>>
        /\ page.out = <<>>
    BY DEF PageReads, TakeGrant, TakeRefusal, TakeSelf, TakeGone, TakeDown, Reads,
           AtPace, OneThing
  <1>4. /\ Head(toPage) = toPage[1]
        /\ Len(toPage') = Len(toPage) - 1 /\ toPage' \in Seq(VideoMsgs)
        /\ Len(toPage) = 1 => toPage' = <<>>
        /\ Len(toPage) = 2 => toPage' # <<>> /\ toPage'[1] = toPage[2]
    <2>1. toPage \in Seq(VideoMsgs) /\ Len(toPage) \in Nat
      BY DEF VideoTypes
    <2>2. /\ Head(toPage) = toPage[1] /\ toPage' \in Seq(VideoMsgs)
          /\ Len(toPage') = Len(toPage) - 1
          /\ \A i \in 1..Len(toPage') : toPage'[i] = toPage[i + 1]
      BY <1>3, <2>1, VideoKinds
    <2>3. Len(toPage) = 1 => toPage' = <<>>
      BY <2>2
    <2>4. Len(toPage) = 2 => toPage' # <<>> /\ toPage'[1] = toPage[2]
      <3>1. ASSUME Len(toPage) = 2
            PROVE  Len(toPage') = 1 /\ 1 \in 1..Len(toPage') /\ 1 + 1 = 2
        BY <2>2, <3>1
      <3> QED
        BY <2>2, <3>1
    <2> QED
      BY <2>2, <2>3, <2>4
  <1>5. /\ page.closing = 0 /\ page.parking = "no" /\ page.picking = 0
        /\ \A n \in JoinIds : page.phase[n] # "dialling"
    BY <1>1, <1>3 DEF AtPace, OneThing, Joining, PageState
  <1>6. ASSUME NEW kept \in BOOLEAN, TakeGrant(kept)
        PROVE  AtPace'
    <2> DEFINE n == page.pending
               q == [page EXCEPT !.pending = 0]
    <2>1. /\ toPage[1].kind = "grant" /\ toPage[1].of = hubPlace /\ hubVideo
          /\ toPage' = <<>> /\ n # 0 /\ page.place = hubPlace
      BY <1>3, <1>4, <1>6 DEF TakeGrant, Reads, AtPace, Places, News
    <2>2. n \in JoinIds /\ page.phase[n] = "asked" /\ page.state = "connecting"
      BY <1>1, <2>1 DEF AtPace, Joining, Busy, PageState
    <2>3. \A m \in JoinIds \ {n} : page.phase[m] \notin {"asked", "dialling"}
      BY <2>2 DEF AtPace, Joining, Busy
    <2>4. page.place # NoChan /\ page.want /\ page.of \in [JoinIds -> VideoChan \cup {NoChan}]
      BY <1>1, <2>2 DEF AtPace, Joining, PageState
    <2>5. /\ q \in PageState /\ q.pending = 0 /\ q.state = page.state /\ q.want = page.want
          /\ q.room = page.room /\ q.out = page.out /\ q.phase = page.phase
          /\ q.place = page.place /\ q.of = page.of /\ q.closing = page.closing
          /\ q.parking = page.parking /\ q.picking = page.picking
      BY <1>1 DEF PageState
    <2>6. page' = IF sfu THEN [q EXCEPT !.phase[n] = "dialling", !.of[n] = page.place]
                  ELSE Opened(q, n, page.place, kept)
      BY <1>4, <1>6, <2>1 DEF TakeGrant
    <2> HIDE DEF q
    <2>7. /\ page'.pending = 0 /\ page'.want = page.want /\ page'.out = page.out
          /\ page'.place = page.place /\ page'.closing = page.closing
          /\ page'.parking = page.parking /\ page'.picking = page.picking
          /\ page'.of = [page.of EXCEPT ![n] = page.place]
          /\ \/ /\ page'.state = "connecting" /\ page'.room = page.room
                /\ page'.phase = [page.phase EXCEPT ![n] = "dialling"]
             \/ /\ page'.state = "connected" /\ page'.room = n
                /\ page'.phase = [page.phase EXCEPT ![n] = "over"]
      <3>1. CASE sfu
        <4> DEFINE phase == [q.phase EXCEPT ![n] = "dialling"]
                   of == [q.of EXCEPT ![n] = page.place]
        <4>1. page' = [q EXCEPT !.phase = phase, !.of = of]
          BY <2>5, <2>6, <3>1 DEF PageState
        <4> HIDE DEF phase, of
        <4>2. /\ page'.pending = q.pending /\ page'.want = q.want /\ page'.out = q.out
              /\ page'.place = q.place /\ page'.closing = q.closing
              /\ page'.parking = q.parking /\ page'.picking = q.picking
              /\ page'.state = q.state /\ page'.room = q.room
              /\ page'.phase = phase /\ page'.of = of
          BY <2>5, <4>1 DEF PageState
        <4>3. page'.phase = [page.phase EXCEPT ![n] = "dialling"] /\ page'.of = [page.of EXCEPT ![n] = page.place]
          BY <2>5, <4>2 DEF phase, of
        <4> HIDE DEF n
        <4> QED
          BY <2>2, <2>5, <4>2, <4>3
      <3>2. CASE ~sfu
        <4> DEFINE phase == [q.phase EXCEPT ![n] = "over"]
                   of == [q.of EXCEPT ![n] = page.place]
                   screen == IF q.screen = "held" THEN IF kept THEN "room" ELSE "none"
                             ELSE IF q.room # 0 /\ q.screen = "room" THEN "stray"
                             ELSE q.screen
        <4>1. page' = [q EXCEPT !.room = n, !.of = of, !.state = "connected",
                                !.phase = phase, !.screen = screen]
          BY <2>5, <2>6, <3>2 DEF PageState, Opened
        <4> HIDE DEF phase, of, screen
        <4>2. /\ page'.pending = q.pending /\ page'.want = q.want /\ page'.out = q.out
              /\ page'.place = q.place /\ page'.closing = q.closing
              /\ page'.parking = q.parking /\ page'.picking = q.picking
              /\ page'.state = "connected" /\ page'.room = n
              /\ page'.phase = phase /\ page'.of = of
          BY <2>5, <4>1 DEF PageState
        <4>3. page'.phase = [page.phase EXCEPT ![n] = "over"] /\ page'.of = [page.of EXCEPT ![n] = page.place]
          BY <2>5, <4>2 DEF phase, of
        <4> HIDE DEF n
        <4> QED
          BY <2>5, <4>2, <4>3
      <3> QED
        BY <3>1, <3>2
    <2>8. /\ page'.of[n] = page.place /\ page'.phase[n] \in {"dialling", "over"}
          /\ \A m \in JoinIds \ {n} : page'.phase[m] = page.phase[m]
      BY <1>2, <2>2, <2>4, <2>7
    <2>9. \A m \in JoinIds : page'.phase[m] = "dialling" => m = n /\ page'.state = "connecting"
      BY <1>2, <2>2, <2>3, <2>7, <2>8
    <2>10. page'.phase[n] = "dialling" <=> page'.state = "connecting"
      BY <1>2, <2>2, <2>7
    <2> HIDE DEF n
    <2>11. OneThing' /\ Places'
      BY <1>3, <1>5, <2>1, <2>7 DEF OneThing, Places, News
    <2>12. Joining'
      BY <1>1, <1>3, <1>5, <2>1, <2>2, <2>3, <2>4, <2>7, <2>8, <2>9, <2>10 DEF Joining, Busy
    <2>13. page.room = 0
      BY <2>2 DEF AtPace, Rooms
    <2>14. Rooms'
      BY <1>1, <1>3, <1>5, <2>1, <2>2, <2>4, <2>7, <2>8, <2>13 DEF Rooms, News
    <2> QED
      BY <2>11, <2>12, <2>14 DEF AtPace
  <1>7. CASE TakeRefusal
    <2> DEFINE n == page.pending
               q == [page EXCEPT !.pending = 0]
    <2>1. toPage[1].kind = "refused" /\ toPage' = <<>> /\ n # 0 /\ page.place = hubPlace
      BY <1>3, <1>4, <1>7 DEF TakeRefusal, Reads, AtPace, Places, News
    <2>2. n \in JoinIds /\ page.phase[n] = "asked" /\ page.state = "connecting"
      BY <1>1, <2>1 DEF AtPace, Joining, Busy, PageState
    <2>3. page' = Failed(q, n)
      BY <1>7, <2>1 DEF TakeRefusal
    <2>4. Busy(n)
      BY <2>2 DEF Busy
    <2> HIDE DEF n
    <2> QED
      BY <1>3, <2>1, <2>2, <2>3, <2>4, AtPaceFails
  <1> USE DEF AtPace, OneThing, Joining, Places, Rooms, News, Quiet, Busy
  <1>8. CASE TakeSelf
    <2>1. /\ Quiet /\ toPage' = <<>> /\ hubPlace \in VideoChan
          /\ page.place # hubPlace /\ Follows(hubPlace) /\ NewJoins # {}
      BY <1>3, <1>4, <1>8 DEF TakeSelf, Reads, VideoTypes
    <2>2. hubPlace # NoChan
      BY <2>1, VideoAssumption
    <2>3. /\ page'.place = hubPlace /\ page'.of = page.of /\ page'.parking = page.parking
          /\ page'.picking = page.picking /\ page'.want = page.want
      BY <1>1, <2>1, FollowsGives
    <2>4. CASE /\ ~page.want
               /\ page'.state = page.state /\ page'.room = page.room /\ page'.out = page.out
               /\ page'.pending = page.pending /\ page'.phase = page.phase
               /\ page'.closing = page.closing
      BY <1>1, <1>2, <1>3, <1>5, <2>1, <2>2, <2>3, <2>4
    <2>5. CASE /\ page.want
               /\ page'.state = "idle" /\ page'.room = 0 /\ page'.out = page.out
               /\ page'.pending = page.pending /\ page'.phase = page.phase
               /\ page'.closing = 1
      BY <1>1, <1>2, <1>3, <1>5, <2>1, <2>2, <2>3, <2>5
    <2>6. CASE /\ page.want /\ page'.closing = page.closing
               /\ page'.state = "connecting" /\ page'.room = 0 /\ page'.out = <<"join">>
               /\ \E n \in JoinIds : page'.pending = n
                                     /\ page'.phase = [page.phase EXCEPT ![n] = "asked"]
      <3>1. PICK n \in JoinIds : page'.pending = n
                                /\ page'.phase = [page.phase EXCEPT ![n] = "asked"]
        BY <2>6
      <3>2. page'.phase[n] = "asked" /\ \A m \in JoinIds \ {n} : page'.phase[m] = page.phase[m]
        BY <1>2, <3>1
      <3> QED
        BY <1>1, <1>3, <1>5, <2>1, <2>2, <2>3, <2>6, <3>1, <3>2
    <2> QED
      BY <1>1, <2>1, <2>4, <2>5, <2>6, FollowsGives
  <1>9. CASE TakeGone
    <2>1. Quiet /\ hubPlace = NoChan /\ Len(toPage) = 2 /\ toPage[2].kind = "down"
      BY <1>3, <1>4, <1>9 DEF TakeGone, Reads
    <2>2. Len(toPage') = 1 /\ toPage' # <<>> /\ toPage'[1].kind = "down"
      BY <1>4, <2>1
    <2>3. /\ page'.pending = page.pending /\ page'.state = page.state /\ page'.want = page.want
          /\ page'.room = page.room /\ page'.out = page.out /\ page'.phase = page.phase
          /\ page'.place = NoChan /\ page'.of = page.of /\ page'.closing = page.closing
          /\ page'.parking = page.parking /\ page'.picking = page.picking
      BY <1>1, <1>9 DEF TakeGone, PageState
    <2> QED
      BY <1>1, <1>2, <1>3, <1>5, <2>1, <2>2, <2>3
  <1>10. CASE TakeDown
    <2>1. Quiet /\ hubPlace = NoChan /\ toPage' = <<>>
      BY <1>3, <1>4, <1>10 DEF TakeDown, Reads
    <2>2. /\ page'.place = NoChan /\ page'.of = page.of /\ page'.picking = page.picking
          /\ page'.pending = page.pending /\ page'.phase = page.phase
          /\ page'.closing = page.closing
      BY <1>1, <1>10, <2>1, DownGives
    <2>3. CASE /\ page.room = 0 /\ page'.room = page.room /\ page'.state = page.state
               /\ page'.want = page.want /\ page'.out = page.out
               /\ page'.parking = page.parking
      BY <1>1, <1>2, <1>3, <1>5, <2>1, <2>2, <2>3
    <2>4. CASE page'.room = 0 /\ page'.state = "idle" /\ page'.out = <<"leave">>
      BY <1>1, <1>2, <1>3, <1>5, <2>1, <2>2, <2>4
    <2> QED
      BY <1>1, <1>10, <2>1, <2>3, <2>4, DownGives
  <1> QED
    BY <1>6, <1>7, <1>8, <1>9, <1>10 DEF PageReads

LEMMA AtPaceWorks ==
  ASSUME VideoTypes, VideoTypes', steady, AtPace, PageWorks
  PROVE  AtPace'
  <1>1. page \in PageState /\ page' \in PageState /\ 0 \notin JoinIds
    BY JoinIdsAre DEF VideoTypes
  <1>2. page.phase \in [JoinIds -> {"new", "asked", "dialling", "over"}]
    BY <1>1 DEF PageState
  <1>3. UNCHANGED <<hubPlace, hubVideo, toPage>>
    BY DEF PageWorks, Picked, AskTimesOut, DialFails, Dialled, ClosedThenJoin, LeftThenPark, PageOnly
  <1>4. ASSUME NEW n \in JoinIds, AskTimesOut(n)
        PROVE  AtPace'
    <2>1. Busy(n) /\ page.out = <<>> /\ toPage' = <<>> /\ page' = Failed([page EXCEPT !.pending = 0], n)
      BY <1>3, <1>4 DEF AskTimesOut, Busy
    <2>2. page.place = hubPlace
      BY <1>3, <2>1 DEF AtPace, Places, News
    <2> QED
      BY <1>3, <2>1, <2>2, AtPaceFails
  <1>5. ASSUME NEW n \in JoinIds, page.phase[n] = "dialling"
        PROVE  /\ Busy(n) /\ page.out = <<>> /\ toPage = <<>> /\ page.pending = 0
               /\ page.of[n] = page.place /\ hubVideo /\ page.place = hubPlace
               /\ page.state = "connecting" /\ page.want /\ page.room = 0 /\ page.place # NoChan
               /\ page.closing = 0 /\ page.parking = "no" /\ page.picking = 0
    <2>1. Busy(n)
      BY <1>5 DEF Busy
    <2>2. page.pending = 0
      BY <1>1, <1>5 DEF AtPace, Joining, Busy, PageState
    <2>3. /\ page.out = <<>> /\ toPage = <<>> /\ page.of[n] = page.place /\ hubVideo
          /\ page.state = "connecting" /\ page.want /\ page.place # NoChan
          /\ page.closing = 0 /\ page.parking = "no" /\ page.picking = 0
      BY <1>5, <2>1 DEF AtPace, Joining
    <2>4. page.room = 0 /\ page.place = hubPlace
      BY <2>3 DEF AtPace, Rooms, Places, News
    <2> QED
      BY <2>1, <2>2, <2>3, <2>4
  <1>6. ASSUME NEW n \in JoinIds, DialFails(n)
        PROVE  AtPace'
    <2>1. page' = Failed(page, n) /\ page.phase[n] = "dialling"
      BY <1>6 DEF DialFails
    <2>2. page = [page EXCEPT !.pending = 0]
      BY <1>1, <1>5, <2>1 DEF PageState
    <2>3. page' = Failed([page EXCEPT !.pending = 0], n)
      BY <2>1, <2>2
    <2> QED
      BY <1>3, <1>5, <2>1, <2>3, AtPaceFails
  <1> USE DEF AtPace, OneThing, Joining, Places, Rooms, News, Quiet, Busy
  <1>7. ASSUME NEW n \in JoinIds, NEW kept \in BOOLEAN, Dialled(n, kept)
        PROVE  AtPace'
    <2>1. page' = Opened(page, n, page.of[n], kept) /\ page.phase[n] = "dialling"
      BY <1>7 DEF Dialled
    <2> DEFINE phase == [page.phase EXCEPT ![n] = "over"]
               of == [page.of EXCEPT ![n] = page.of[n]]
               screen == IF page.screen = "held" THEN IF kept THEN "room" ELSE "none"
                         ELSE IF page.room # 0 /\ page.screen = "room" THEN "stray"
                         ELSE page.screen
    <2>2. page' = [page EXCEPT !.room = n, !.of = of, !.state = "connected",
                               !.phase = phase, !.screen = screen]
      BY <1>1, <2>1 DEF PageState, Opened
    <2>3. of = page.of /\ phase[n] = "over" /\ \A m \in JoinIds \ {n} : phase[m] = page.phase[m]
      BY <1>1, <1>2 DEF PageState
    <2> HIDE DEF phase, of, screen
    <2>4. /\ page'.pending = page.pending /\ page'.want = page.want /\ page'.out = page.out
          /\ page'.place = page.place /\ page'.closing = page.closing
          /\ page'.parking = page.parking /\ page'.picking = page.picking
          /\ page'.state = "connected" /\ page'.room = n
          /\ page'.phase = phase /\ page'.of = page.of
      BY <1>1, <2>2, <2>3 DEF PageState
    <2>5. \A m \in JoinIds : page'.phase[m] \notin {"asked", "dialling"}
      BY <2>1, <2>3, <2>4
    <2> QED
      BY <1>1, <1>3, <1>5, <2>1, <2>4, <2>5
  <1>8. ASSUME NEW chosen \in BOOLEAN, Picked(chosen)
        PROVE  AtPace'
    <2>1. /\ page'.pending = page.pending /\ page'.want = page.want /\ page'.out = page.out
          /\ page'.place = page.place /\ page'.closing = page.closing
          /\ page'.parking = page.parking /\ page'.picking = 0
          /\ page'.state = page.state /\ page'.room = page.room
          /\ page'.phase = page.phase /\ page'.of = page.of
      BY <1>1, <1>8 DEF Picked, PageState
    <2> QED
      BY <1>1, <1>2, <1>3, <2>1
  <1>9. CASE ClosedThenJoin
    <2> DEFINE q == [page EXCEPT !.closing = @ - 1]
    <2>1. /\ page.closing = 1 /\ page.state = "idle" /\ page.out = <<>> /\ toPage = <<>>
          /\ page.parking = "no" /\ page.picking = 0 /\ page.want /\ page.place # NoChan
          /\ page.room = 0 /\ page.place = hubPlace /\ NewJoins # {} /\ page' = Asking(q)
      BY <1>9 DEF ClosedThenJoin
    <2>2. page.closing - 1 = 0
      BY <2>1
    <2>3. /\ q \in PageState /\ q.state = "idle" /\ q.out = <<>> /\ q.closing = 0
          /\ q.parking = "no" /\ q.picking = 0 /\ q.place = page.place /\ q.of = page.of
          /\ q.room = 0 /\ q.phase = page.phase
      <3>1. q = [page EXCEPT !.closing = 0]
        BY <2>2
      <3> HIDE DEF q
      <3> QED
        BY <1>1, <2>1, <3>1 DEF PageState
    <2> HIDE DEF q
    <2>4. PICK n \in JoinIds : Asking(q) =
            [q EXCEPT !.state = "connecting", !.want = TRUE, !.pending = n,
                      !.phase[n] = "asked", !.out = Append(@, "join")]
      <3>1. NewJoins # {}
        BY <2>1
      <3>2. \E n \in NewJoins : Asking(q) =
               [q EXCEPT !.state = "connecting", !.want = TRUE, !.pending = n,
                         !.phase[n] = "asked", !.out = Append(@, "join")]
        BY <1>1, <2>3, <3>1, AskingGives
      <3>3. \A n \in NewJoins : n \in JoinIds
        BY DEF NewJoins
      <3> QED
        BY <3>2, <3>3
    <2> DEFINE phase == [q.phase EXCEPT ![n] = "asked"]
    <2>5. page' = [q EXCEPT !.state = "connecting", !.want = TRUE, !.pending = n,
                            !.phase = phase, !.out = <<"join">>]
      <3>1. page' = Asking(q)
        BY <2>1
      <3>2. Append(q.out, "join") = <<"join">>
        BY <2>3
      <3> QED
        BY <2>3, <2>4, <3>1, <3>2 DEF PageState
    <2>6. phase[n] = "asked" /\ \A m \in JoinIds \ {n} : phase[m] = page.phase[m]
      BY <1>2, <2>3
    <2> HIDE DEF phase
    <2>7. /\ page'.place = q.place /\ page'.of = q.of /\ page'.parking = q.parking
          /\ page'.picking = q.picking /\ page'.want = TRUE /\ page'.closing = q.closing
          /\ page'.state = "connecting" /\ page'.room = q.room /\ page'.out = <<"join">>
          /\ page'.pending = n /\ page'.phase = phase
      BY <2>3, <2>5 DEF PageState
    <2>8. \A m \in JoinIds : page.phase[m] \notin {"asked", "dialling"}
      BY <2>1
    <2> QED
      BY <1>1, <1>3, <2>1, <2>3, <2>6, <2>7, <2>8
  <1>10. CASE LeftThenPark
    <2> DEFINE want == page.want \/ page.parking = "back"
               screen == IF page.screen = "parking"
                         THEN IF page.parking = "back" THEN "held" ELSE "none"
                         ELSE page.screen
    <2>1. page' = [page EXCEPT !.parking = "no", !.want = want, !.screen = screen]
      BY <1>10 DEF LeftThenPark, Parked
    <2> HIDE DEF want, screen
    <2>2. /\ page'.pending = page.pending /\ page'.out = page.out
          /\ page'.place = page.place /\ page'.closing = page.closing
          /\ page'.parking = "no" /\ page'.picking = page.picking
          /\ page'.state = page.state /\ page'.room = page.room
          /\ page'.phase = page.phase /\ page'.of = page.of
      BY <1>1, <2>1 DEF PageState
    <2>3. page.state = "idle" /\ page.place = NoChan /\ toPage = <<>> /\ page.picking = 0
      BY <1>1, <1>10 DEF LeftThenPark
    <2> QED
      BY <1>1, <1>2, <1>3, <2>2, <2>3
  <1> QED
    BY <1>4, <1>6, <1>7, <1>8, <1>9, <1>10 DEF PageWorks

\* The inductive invariant: in a steady world the page does one thing at a time, and
\* what it has and the hub counts fits together at every step.
PaceInv == VideoTypes /\ (steady => AtPace)

\* The page (useVideo.join, leave, resync and its handlers) keeps its types and, where
\* nothing happens while it is at work, keeps pace with the hub at every step of its work.
THEOREM AtPaceAlways == VideoSpec => []PaceInv
  <1>1. VideoInit => PaceInv
    BY AtPaceInit DEF PaceInv
  <1>2. PaceInv /\ [VideoNext]_videoVars => PaceInv'
    <2> SUFFICES ASSUME PaceInv, [VideoNext]_videoVars
                 PROVE  PaceInv'
      OBVIOUS
    <2>1. CASE UNCHANGED videoVars
      BY <2>1 DEF PaceInv, videoVars, VideoTypes, AtPace, OneThing, Joining, Places, Rooms,
                  News, Quiet, Busy
    <2>2. CASE VideoNext
      <3>1. VideoTypes'
        BY <2>2, VideoTypesStep DEF PaceInv
      <3>2. steady' = steady
        BY <2>2 DEF VideoNext, UserStep, VideoHubStep, HubEvent, PageReads, PageWorks, ClickJoin,
                    ClickLeave, PickScreen, StopScreen, PageOnly, HubGrants, HubRefuses,
                    HubForgets, Moves, Returns, Drops, Event, TakeGrant, TakeRefusal, TakeSelf,
                    TakeGone, TakeDown, Reads, Picked, AskTimesOut, DialFails, Dialled,
                    ClosedThenJoin, LeftThenPark
      <3>3. steady => AtPace'
        BY <2>2, <3>1, AtPaceUser, AtPaceHub, AtPaceEvent, AtPaceReads, AtPaceWorks
        DEF PaceInv, VideoNext
      <3> QED
        BY <3>1, <3>2, <3>3 DEF PaceInv
    <2> QED
      BY <2>1, <2>2
  <1> QED
    BY <1>1, <1>2, PTL DEF VideoSpec

\* In such a world the page at rest is in a room exactly if its user wants video, the room
\* is its channel's, and the hub counts it there.
THEOREM SteadyRoomInSync == VideoSpec => []RoomInSyncIfSteady
  <1>1. PaceInv => RoomInSyncIfSteady
    BY AtPaceAtRest DEF PaceInv, RoomInSyncIfSteady
  <1> QED
    BY <1>1, AtPaceAlways, PTL

\* Nor does a drop end the share of one who wants to come back, though his own client
\* leaves the channel first: it stays, or is kept for the rejoin.
THEOREM DropKeepsShare == VideoSpec => ShareSurvivesDrop
  <1> DEFINE A == steady /\ Dropping /\ toPage' # toPage /\ page.want /\ page.screen = "room"
                    => page'.screen \in {"room", "parking", "held"}
  <1>1. PaceInv /\ [VideoNext]_videoVars => [A]_videoVars
    <2> SUFFICES ASSUME PaceInv, VideoNext, steady, Dropping, toPage' # toPage,
                        page.want, page.screen = "room"
                 PROVE  page'.screen \in {"room", "parking", "held"}
      OBVIOUS
    <2>1. page \in PageState /\ AtPace
      BY DEF PaceInv, VideoTypes
    <2>2. /\ toPage # <<>> /\ toPage[1] = Head(toPage) /\ Head(toPage).kind \in {"gone", "down"}
      BY VideoKinds DEF Dropping, PaceInv, VideoTypes
    <2>3. Quiet
      BY <2>1, <2>2 DEF AtPace, OneThing, News
    <2>4. ~UserStep /\ ~PageWorks
      BY DEF UserStep, ClickJoin, ClickLeave, PickScreen, StopScreen, PageWorks, Picked,
             AskTimesOut, DialFails, Dialled, ClosedThenJoin, LeftThenPark, PageOnly
    <2>5. CASE VideoHubStep
      <3>1. page.out # <<>>
        BY <2>5 DEF VideoHubStep, HubGrants, HubRefuses, HubForgets
      <3> QED
        BY <2>3, <3>1 DEF Quiet
    <2>6. CASE HubEvent
      BY <2>6 DEF HubEvent, Moves, Returns, Drops, Event
    <2>7. CASE PageReads
      <3>1. CASE TakeGone
        BY <2>1, <3>1 DEF TakeGone, PageState
      <3>2. CASE TakeDown
        BY <2>1, <2>3, <3>2, DownGives
      <3> QED
        BY <2>2, <2>7, <3>1, <3>2 DEF PageReads, TakeGrant, TakeRefusal, TakeSelf, Reads
    <2> QED
      BY <2>4, <2>5, <2>6, <2>7 DEF VideoNext
  <1> QED
    BY <1>1, AtPaceAlways, PTL DEF VideoSpec, ShareSurvivesDrop
=============================================================================
