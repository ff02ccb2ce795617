----------------------------- MODULE VideoRoom -----------------------------
(***************************************************************************)
(* A page's stay in the video room of its channel (stores/rtc.ts).         *)
(*                                                                         *)
(* join() asks the hub for a grant, by one slot for the answer and a timer *)
(* per question, and then opens a room: a mesh at once, a LiveKit room     *)
(* after a dial.  A watcher follows the channel, closing one room and      *)
(* joining the next; another parks the screen capture when TeamSpeak       *)
(* drops, for the room after the reconnect.  Closing a LiveKit room takes  *)
(* a while, and so does the picker of a screen.                            *)
(*                                                                         *)
(* Of the hub's session the model keeps where it is and whether it counts  *)
(* as a video member; what mintToken's await adds is RoomRegistry's.       *)
(***************************************************************************)
EXTENDS Naturals, Sequences, FiniteSets

CONSTANTS
  VideoChan,  \* channels
  NoChan,     \* undefined: no channel
  MaxJoins,   \* bound: grants asked for
  MaxEvents   \* bound: moves, drops and reconnects

ASSUME VideoAssumption ==
  /\ NoChan \notin VideoChan
  /\ MaxJoins \in Nat /\ MaxEvents \in Nat

VARIABLES
  sfu,        \* the hub uses LiveKit, otherwise a mesh
  steady,     \* the environment's: does nothing happen while the page is at work?
  events,     \* moves, drops and reconnects so far
  hubPlace,   \* TsSession.selfChannelId
  hubVideo,   \* RoomMember.video
  toPage,     \* messages the page has not read
  page        \* the page, see PageState

videoVars == <<sfu, steady, events, hubPlace, hubVideo, toPage, page>>

JoinIds == 1..MaxJoins

\* place: ts.selfChannel; want: wantVideo; state: state; room: the join that made the
\* room, 0 for null; of: the channel of each join's grant; phase: where each join()
\* stands; pending: the join of pendingJoin, 0 for null; closing: channel watchers that
\* await a close; parking: the drop watcher that awaits leave(), and whether it wants
\* to come back; screen: where the capture is; picking: the room a picker is open for,
\* 0 for none; out: messages the hub has not read.
PageState ==
  [place : VideoChan \cup {NoChan}, want : BOOLEAN,
   state : {"idle", "connecting", "connected"}, room : {0} \cup JoinIds,
   of : [JoinIds -> VideoChan \cup {NoChan}],
   phase : [JoinIds -> {"new", "asked", "dialling", "over"}],
   pending : {0} \cup JoinIds, closing : Nat, parking : {"no", "back", "away"},
   screen : {"none", "room", "parking", "held", "stray"}, picking : {0} \cup JoinIds,
   out : Seq({"join", "leave"})]

VideoInit ==
  /\ sfu \in BOOLEAN /\ steady \in BOOLEAN
  /\ events = 0
  /\ hubPlace \in VideoChan /\ hubVideo = FALSE
  /\ toPage = <<>>
  /\ page = [place |-> hubPlace, want |-> FALSE, state |-> "idle", room |-> 0,
          of |-> [n \in JoinIds |-> NoChan], phase |-> [n \in JoinIds |-> "new"],
          pending |-> 0, closing |-> 0, parking |-> "no", screen |-> "none",
          picking |-> 0, out |-> <<>>]

-----------------------------------------------------------------------------
(* What the handlers are made of.                                          *)

NewJoins == {n \in JoinIds : page.phase[n] = "new"}

\* join() up to its await: the question takes the slot, whoever had it.
Asking(q) ==
  IF q.state # "idle" THEN q
  ELSE LET n == CHOOSE n \in NewJoins : \A m \in NewJoins : n <= m
       IN [q EXCEPT !.state = "connecting", !.want = TRUE, !.pending = n,
                    !.phase[n] = "asked", !.out = Append(@, "join")]

\* join() once its room is there; what was parked is published, unless its capture
\* has ended or is refused.
Opened(q, n, c, kept) ==
  [q EXCEPT !.room = n, !.of[n] = c, !.state = "connected", !.phase[n] = "over",
            !.screen = IF @ = "held" THEN IF kept THEN "room" ELSE "none"
                       ELSE IF q.room # 0 /\ @ = "room" THEN "stray" ELSE @]

\* join()'s catch.
Failed(q, n) == [q EXCEPT !.state = "idle", !.want = FALSE, !.phase[n] = "over"]

\* The room is let go of, and closed with what it publishes.
Closing(q) ==
  [q EXCEPT !.room = 0, !.state = "idle",
            !.screen = IF @ = "room" THEN "none" ELSE @]

\* leave(): what is parked is thrown away.
Left(q) ==
  [Closing(q) EXCEPT !.want = FALSE, !.out = Append(@, "leave"),
                     !.screen = IF @ = "held" THEN "none" ELSE @]

\* The drop watcher after its leave().
Parked(q) ==
  [q EXCEPT !.parking = "no", !.want = @ \/ q.parking = "back",
            !.screen = IF @ = "parking"
                       THEN IF q.parking = "back" THEN "held" ELSE "none" ELSE @]

AtWork ==
  \/ page.state = "connecting" \/ page.closing > 0 \/ page.parking # "no" \/ page.picking # 0
  \/ page.out # <<>> \/ toPage # <<>>
  \/ \E n \in JoinIds : page.phase[n] \in {"asked", "dialling"}

\* Something happens: in a steady world, when the page is at rest.
Happens == steady => ~AtWork

PageOnly == UNCHANGED <<sfu, steady, events, hubPlace, hubVideo, toPage>>

-----------------------------------------------------------------------------
(* The user.                                                               *)

\* The button, enabled in a channel while the room is idle.
ClickJoin ==
  /\ Happens
  /\ page.state = "idle" /\ page.place # NoChan /\ NewJoins # {}
  /\ page' = Asking(page)
  /\ PageOnly

ClickLeave ==
  /\ Happens
  /\ page.state = "connected"
  /\ page' = Left(page)
  /\ PageOnly

\* shareScreen: a picker, for the room there is.
PickScreen ==
  /\ Happens
  /\ page.state = "connected" /\ page.room # 0 /\ page.picking = 0 /\ page.screen = "none"
  /\ page' = [page EXCEPT !.picking = page.room]
  /\ PageOnly

\* A mesh room takes the capture even if it was closed meanwhile.
Picked(chosen) ==
  /\ page.picking # 0
  /\ page' = [page EXCEPT !.picking = 0,
             !.screen = IF ~chosen THEN @
                        ELSE IF page.picking = page.room THEN "room"
                        ELSE IF sfu THEN @ ELSE "stray"]
  /\ PageOnly

StopScreen ==
  /\ Happens
  /\ page.screen = "room"
  /\ page' = [page EXCEPT !.screen = "none"]
  /\ PageOnly

-----------------------------------------------------------------------------
(* The hub's session.                                                      *)

\* rtc.join: the member is marked and told; without a connection it is refused or
\* not answered at all, as when the token cannot be made.
HubGrants ==
  /\ page.out # <<>> /\ Head(page.out) = "join"
  /\ hubPlace # NoChan
  /\ page' = [page EXCEPT !.out = Tail(@)]
  /\ hubVideo' = TRUE
  /\ toPage' = Append(toPage, [kind |-> "grant", of |-> hubPlace])
  /\ UNCHANGED <<sfu, steady, events, hubPlace>>

HubRefuses(told) ==
  /\ page.out # <<>> /\ Head(page.out) = "join"
  /\ hubPlace = NoChan \/ (sfu /\ ~told)
  /\ page' = [page EXCEPT !.out = Tail(@)]
  /\ toPage' = IF told THEN Append(toPage, [kind |-> "refused"]) ELSE toPage
  /\ UNCHANGED <<sfu, steady, events, hubPlace, hubVideo>>

\* rtc.leave
HubForgets ==
  /\ page.out # <<>> /\ Head(page.out) = "leave"
  /\ page' = [page EXCEPT !.out = Tail(@)]
  /\ hubVideo' = FALSE
  /\ UNCHANGED <<sfu, steady, events, hubPlace, toPage>>

Event(place, messages) ==
  /\ Happens
  /\ events < MaxEvents
  /\ events' = events + 1
  /\ hubPlace' = place
  /\ hubVideo' = FALSE
  /\ toPage' = toPage \o messages
  /\ UNCHANGED <<sfu, steady, page>>

\* The client is moved, by its user or somebody else; a new room starts without video.
Moves(c) ==
  /\ hubPlace # NoChan /\ c # hubPlace
  /\ Event(c, <<[kind |-> "self", of |-> c]>>)

\* The connection ends: the own client goes first, or with the rest.
Drops(first) ==
  /\ hubPlace # NoChan
  /\ Event(NoChan, IF first THEN <<[kind |-> "gone"], [kind |-> "down"]>>
                   ELSE <<[kind |-> "down"]>>)

Returns(c) ==
  /\ hubPlace = NoChan
  /\ Event(c, <<[kind |-> "self", of |-> c]>>)

-----------------------------------------------------------------------------
(* The page.                                                               *)

Reads(kind) ==
  /\ toPage # <<>>
  /\ Head(toPage).kind = kind
  /\ toPage' = Tail(toPage)
  /\ UNCHANGED <<sfu, steady, events, hubPlace, hubVideo>>

\* rtc.token, rtc.mesh: for whoever has the slot.
TakeGrant(kept) ==
  LET n == page.pending
      c == Head(toPage).of
      q == [page EXCEPT !.pending = 0]
  IN
  /\ Reads("grant")
  /\ page' = IF n = 0 THEN page
          ELSE IF sfu THEN [q EXCEPT !.phase[n] = "dialling", !.of[n] = c]
          ELSE Opened(q, n, c, kept)

\* rtc_unavailable
TakeRefusal ==
  /\ Reads("refused")
  /\ page' = IF page.pending = 0 THEN page ELSE Failed([page EXCEPT !.pending = 0], page.pending)

\* LiveKitRoom.connect
Dialled(n, kept) ==
  /\ page.phase[n] = "dialling"
  /\ page' = Opened(page, n, page.of[n], kept)
  /\ PageOnly

DialFails(n) ==
  /\ page.phase[n] = "dialling"
  /\ page' = Failed(page, n)
  /\ PageOnly

\* requestJoin's timer: it empties the slot, whoever has it.  In a steady world it
\* runs out only when no answer is on its way.
AskTimesOut(n) ==
  /\ page.phase[n] = "asked"
  /\ steady => page.out = <<>> /\ toPage = <<>>
  /\ page' = Failed([page EXCEPT !.pending = 0], n)
  /\ PageOnly

\* (Mutant: the next room is joined without letting go of the one there is.)
FollowsJoining(c) ==
  LET q == [page EXCEPT !.place = c]
  IN page' = IF ~page.want \/ c = page.place THEN q ELSE Asking(q)

\* The channel watcher: the room of the last channel is closed, then the next joined.
Follows(c) ==
  LET q == Closing([page EXCEPT !.place = c])
  IN page' = IF ~page.want \/ c = page.place THEN [page EXCEPT !.place = c]
          ELSE IF sfu /\ page.room # 0 THEN [q EXCEPT !.closing = @ + 1]
          ELSE Asking(q)

TakeSelf ==
  /\ Reads("self")
  /\ NewJoins # {}
  /\ Follows(Head(toPage).of)

\* The close is done.
ClosedThenJoin ==
  /\ page.closing > 0 /\ NewJoins # {}
  /\ page' = Asking([page EXCEPT !.closing = @ - 1])
  /\ PageOnly

\* (Mutant: losing the channel is taken for a switch.)
TakeGoneAsSwitch ==
  /\ Reads("gone")
  /\ page' = IF page.want THEN Closing([page EXCEPT !.place = NoChan])
          ELSE [page EXCEPT !.place = NoChan]

\* The own client left: the channel is gone, which is no switch.
TakeGone ==
  /\ Reads("gone")
  /\ page' = [page EXCEPT !.place = NoChan]

\* The drop watcher: the capture is taken out of the room before leave() closes it.
TakeDown ==
  LET q == [page EXCEPT !.place = NoChan]
      parked == [Left([q EXCEPT !.screen = IF @ = "room" THEN "parking" ELSE @])
                   EXCEPT !.parking = IF page.want THEN "back" ELSE "away"]
  IN
  /\ Reads("down")
  /\ page.parking = "no"
  /\ page' = IF page.room = 0 /\ page.state = "idle" THEN q
          ELSE IF sfu /\ page.room # 0 THEN parked ELSE Parked(parked)

LeftThenPark ==
  /\ page.parking # "no"
  /\ page' = Parked(page)
  /\ PageOnly

-----------------------------------------------------------------------------
UserStep == ClickJoin \/ ClickLeave \/ PickScreen \/ StopScreen
VideoHubStep == HubGrants \/ (\E told \in BOOLEAN : HubRefuses(told)) \/ HubForgets
HubEvent == (\E c \in VideoChan : Moves(c) \/ Returns(c)) \/ (\E first \in BOOLEAN : Drops(first))
PageReads ==
  (\E kept \in BOOLEAN : TakeGrant(kept)) \/ TakeRefusal \/ TakeSelf \/ TakeGone \/ TakeDown
PageWorks ==
  \/ \E chosen \in BOOLEAN : Picked(chosen)
  \/ \E n \in JoinIds : AskTimesOut(n) \/ DialFails(n) \/ \E kept \in BOOLEAN : Dialled(n, kept)
  \/ ClosedThenJoin \/ LeftThenPark

VideoNext == UserStep \/ VideoHubStep \/ HubEvent \/ PageReads \/ PageWorks
VideoSpec == VideoInit /\ [][VideoNext]_videoVars

-----------------------------------------------------------------------------
(* Properties.                                                             *)

\* At rest in a channel, the page is in a room exactly if its user wants video, the
\* room is that channel's, the page says so, and the hub counts it (rtc.ts wantVideo:
\* "keep the video room in sync with the TS channel while true").
RoomInSync ==
  ~AtWork /\ page.place # NoChan =>
    /\ page.want <=> page.room # 0
    /\ page.room # 0 => page.of[page.room] = page.place /\ page.state = "connected" /\ hubVideo

\* So it is if nothing happened while a join, a close or a picker was under way.
RoomInSyncIfSteady == steady => RoomInSync

Dropping == toPage # <<>> /\ Head(toPage).kind \in {"gone", "down"}

\* A drop does not end the share of one who wants to come back, though his own client
\* leaves the channel first (the watchers' comments).  In a world that is not steady it
\* does: a second drop before the rejoin throws away what the first one parked.
ShareSurvivesDrop ==
  [][steady /\ Dropping /\ toPage' # toPage /\ page.want /\ page.screen = "room"
       => page'.screen \in {"room", "parking", "held"}]_videoVars
=============================================================================
