----------------------------- MODULE HubSession -----------------------------
(***************************************************************************)
(* A browser session of the hub (session/Session.ts) and the TeamSpeak     *)
(* connections it makes, one after another (gateway/TsSession.ts).         *)
(*                                                                         *)
(* Every handler of a session is an async function run without waiting for *)
(* the previous one (Session.onMessage), so a connect that is still        *)
(* resolving a name, a disconnect that waits for the server's goodbye and  *)
(* a music bot that is still starting interleave at every await.  One      *)
(* action below is the code between two awaits.                            *)
(*                                                                         *)
(* Each connection (a TsSession object) is used once and belongs to the    *)
(* session that made it.  Shared between sessions: the pool of music       *)
(* bridges, one reference count per bot.                                   *)
(***************************************************************************)
EXTENDS Integers, FiniteSets

CONSTANTS
  Session,      \* browser sessions (one websocket each)
  Conn,         \* TsSession objects, each made by one connect message
  Bot,          \* music bot URLs
  None,         \* null
  Owner,        \* the session each connection belongs to
  BotOf,        \* the bot each connection's music panel resolves to
  MaxAttempts,  \* TsSessionOptions.connectRetries
  MaxPooled     \* MAX_POOLED_BRIDGES

ASSUME NoneAssumption == None \notin Conn
ASSUME ConnAssumption ==
  /\ IsFiniteSet(Conn)
  /\ Owner \in [Conn -> Session]
  /\ BotOf \in [Conn -> Bot]
ASSUME BoundAssumption ==
  /\ MaxAttempts \in Nat \ {0}
  /\ MaxPooled \in Nat

VARIABLES
  cur,        \* Session.ts: the connection the session owns
  closed,     \* Session.closed
  musicLink,  \* Session.musicLink: the connection whose attach set it
  room,       \* RoomRegistry.bySession: the connection that placed the session
  shown,      \* the connection the page shows as up, by the last word it got
  pc,         \* where Session.connect stands for each connection
  tsClosed,   \* TsSession.closed
  client,     \* TsSession.client: the driver client of the current attempt
  tries,      \* attempts made
  closing,    \* who awaits TsSession.disconnect
  attach,     \* where Session.attachMusic stands for each connection
  refs,       \* BridgePool.entries: references per bot, 0 when not pooled
  announced   \* connections whose end the registry told its listeners

sessionVars == <<cur, closed, musicLink, room, shown>>
vars == <<cur, closed, musicLink, room, shown, pc, tsClosed, client, tries,
          closing, attach, refs, announced>>

Phases == {"idle", "resolve", "slot", "handshake", "delay", "subscribe",
           "returned", "failed"}
\* kicked: its "kicked" event came, its "disconnected" is still to come.
ClientStates == {"none", "live", "closing", "kicked", "gone"}
Closers == {"user", "dispose", "ban"}
AttachStates == {"none", "vetting", "acquiring"}

ConnsOf(s) == {c \in Conn : Owner[c] = s}

TypeOK ==
  /\ cur \in [Session -> Conn \cup {None}]
  /\ closed \in [Session -> BOOLEAN]
  /\ musicLink \in [Session -> Conn \cup {None}]
  /\ room \in [Session -> Conn \cup {None}]
  /\ shown \in [Session -> Conn \cup {None}]
  /\ pc \in [Conn -> Phases]
  /\ tsClosed \in [Conn -> BOOLEAN]
  /\ client \in [Conn -> ClientStates]
  /\ tries \in [Conn -> 0..MaxAttempts]
  /\ closing \in [Conn -> SUBSET Closers]
  /\ attach \in [Conn -> AttachStates]
  /\ refs \in [Bot -> Nat]
  /\ announced \subseteq Conn

Init ==
  /\ cur = [s \in Session |-> None]
  /\ closed = [s \in Session |-> FALSE]
  /\ musicLink = [s \in Session |-> None]
  /\ room = [s \in Session |-> None]
  /\ shown = [s \in Session |-> None]
  /\ pc = [c \in Conn |-> "idle"]
  /\ tsClosed = [c \in Conn |-> FALSE]
  /\ client = [c \in Conn |-> "none"]
  /\ tries = [c \in Conn |-> 0]
  /\ closing = [c \in Conn |-> {}]
  /\ attach = [c \in Conn |-> "none"]
  /\ refs = [b \in Bot |-> 0]
  /\ announced = {}

-----------------------------------------------------------------------------
(* The pieces the handlers share.                                          *)

\* BridgePool.release: drops one reference; a bot that is not pooled stays so.
Released(b) == [refs EXCEPT ![b] = IF @ > 0 THEN @ - 1 ELSE 0]

\* Session.detachMusic
DetachMusic(s) ==
  /\ musicLink' = [musicLink EXCEPT ![s] = None]
  /\ refs' = IF musicLink[s] = None THEN refs ELSE Released(BotOf[musicLink[s]])

\* (Mutant: the registry is not told.)
DropTsSilently(s) ==
  /\ cur' = [cur EXCEPT ![s] = None]
  /\ UNCHANGED announced

\* Session.dropTs: whatever connection is current is let go of and announced.
DropTs(s) ==
  /\ cur' = [cur EXCEPT ![s] = None]
  /\ announced' = announced \cup ({cur[s]} \ {None})

\* (Mutant: the music bot stays attached.)
FinishKeepingMusic(c) ==
  LET s == Owner[c] IN
  IF tsClosed[c]
  THEN UNCHANGED <<tsClosed, room, announced, cur, musicLink, refs>>
  ELSE /\ tsClosed' = [tsClosed EXCEPT ![c] = TRUE]
       /\ room' = [room EXCEPT ![s] = None]
       /\ announced' = announced \cup {c}
       /\ cur' = IF cur[s] = c THEN [cur EXCEPT ![s] = None] ELSE cur
       /\ UNCHANGED <<musicLink, refs>>

\* TsSession.finish with the session's onClosed handler.
Finish(c) ==
  LET s == Owner[c] IN
  IF tsClosed[c]
  THEN UNCHANGED <<tsClosed, room, announced, cur, musicLink, refs>>
  ELSE /\ tsClosed' = [tsClosed EXCEPT ![c] = TRUE]
       /\ room' = [room EXCEPT ![s] = None]
       /\ announced' = announced \cup {c}
       /\ IF cur[s] = c
          THEN cur' = [cur EXCEPT ![s] = None] /\ DetachMusic(s)
          ELSE UNCHANGED <<cur, musicLink, refs>>

\* The page shows nothing once it is told "disconnected" or a fatal error.
TellEnded(s) == shown' = [shown EXCEPT ![s] = None]

\* (Mutant: nobody tells the page.)
TellNobody(c) == UNCHANGED shown

\* onClosed tells the page only about the connection the session still owns.
TellFinished(c) ==
  IF ~tsClosed[c] /\ cur[Owner[c]] = c THEN TellEnded(Owner[c])
                                       ELSE UNCHANGED shown

\* (Mutant: the driver client is forgotten, not told to leave.)
ForgetClient(c, by) == UNCHANGED <<tsClosed, client, closing>>

\* TsSession.disconnect up to its await, for the connection just let go of (or
\* None): with no driver client it finishes at once.
BeginDisconnect(c, by) ==
  /\ tsClosed' = [d \in Conn |-> tsClosed[d] \/ (d = c /\ client[d] = "none")]
  /\ client' = [d \in Conn |-> IF d = c /\ client[d] = "live" THEN "closing"
                                                             ELSE client[d]]
  /\ closing' = [d \in Conn |-> IF d = c /\ client[d] # "none"
                                THEN closing[d] \cup {by} ELSE closing[d]]

\* connect() resolved: Session.connect goes on to attach the music bot,
\* whether the connection is up or was closed meanwhile.
ConnectReturns(c) ==
  /\ pc' = [pc EXCEPT ![c] = "returned"]
  /\ attach' = [attach EXCEPT ![c] = "vetting"]

-----------------------------------------------------------------------------
(* The session's connect handler and the attempts it waits for.            *)

\* (Mutant: no already_connected refusal.)
ConnectAgain(c) ==
  LET s == Owner[c] IN
  /\ pc[c] = "idle"
  /\ ~closed[s]
  /\ cur' = [cur EXCEPT ![s] = c]
  /\ pc' = [pc EXCEPT ![c] = "resolve"]
  /\ UNCHANGED <<closed, musicLink, room, shown, tsClosed, client, tries,
                 closing, attach, refs, announced>>

\* A connect message: refused while the session owns a connection.
Connect(c) ==
  LET s == Owner[c] IN
  /\ pc[c] = "idle"
  /\ ~closed[s]
  /\ cur[s] = None
  /\ cur' = [cur EXCEPT ![s] = c]
  /\ pc' = [pc EXCEPT ![c] = "resolve"]
  /\ UNCHANGED <<closed, musicLink, room, shown, tsClosed, client, tries,
                 closing, attach, refs, announced>>

\* (Mutant: a connection closed during the pause never comes back.)
NextAttemptIfOpen(c) ==
  /\ pc[c] \in {"resolve", "delay"}
  /\ ~tsClosed[c]
  /\ pc' = [pc EXCEPT ![c] = "slot"]
  /\ UNCHANGED <<sessionVars, tsClosed, client, tries, closing, attach, refs, announced>>

\* The name is resolved, or the pause before a retry is over: the loop goes on
\* unless the connection was closed meanwhile.
NextAttempt(c) ==
  /\ pc[c] \in {"resolve", "delay"}
  /\ IF tsClosed[c]
     THEN ConnectReturns(c)
     ELSE pc' = [pc EXCEPT ![c] = "slot"] /\ UNCHANGED attach
  /\ UNCHANGED <<sessionVars, tsClosed, client, tries, closing, refs, announced>>

\* The guard's connect slot came up: a fresh driver client starts its handshake.
Dial(c) ==
  /\ pc[c] = "slot"
  /\ IF tsClosed[c]
     THEN ConnectReturns(c) /\ UNCHANGED <<client, tries>>
     ELSE /\ pc' = [pc EXCEPT ![c] = "handshake"]
          /\ client' = [client EXCEPT ![c] = "live"]
          /\ tries' = [tries EXCEPT ![c] = @ + 1]
          /\ UNCHANGED attach
  /\ UNCHANGED <<sessionVars, tsClosed, closing, refs, announced>>

\* waitConnected resolved: the channels are subscribed next.
HandshakeDone(c) ==
  /\ pc[c] = "handshake"
  /\ client[c] \in {"live", "closing", "kicked"}
  /\ pc' = [pc EXCEPT ![c] = "subscribe"]
  /\ UNCHANGED <<sessionVars, tsClosed, client, tries, closing, attach, refs, announced>>

\* A lost handshake with attempts left: the client is torn down and, after a
\* pause, the loop goes round again.
HandshakeTimeout(c) ==
  /\ pc[c] = "handshake"
  /\ tries[c] < MaxAttempts
  /\ pc' = [pc EXCEPT ![c] = "delay"]
  /\ client' = [client EXCEPT ![c] = "none"]
  /\ UNCHANGED <<sessionVars, tsClosed, tries, closing, attach, refs, announced>>

\* connect() rejects: the name does not resolve, the server is cooling down
\* after a flood ban, the server refuses, or the last attempt timed out.  The
\* client is torn down; the session's catch lets go of the connection it owns
\* now, and ends this one.
ConnectFails(c) ==
  LET s == Owner[c] IN
  /\ pc[c] \in {"resolve", "handshake"}
  /\ pc' = [pc EXCEPT ![c] = "failed"]
  /\ client' = [client EXCEPT ![c] = "none"]
  /\ TellEnded(s)
  /\ cur' = [cur EXCEPT ![s] = None]
  /\ announced' = announced \cup ({cur[s]} \ {None})
                            \cup (IF tsClosed[c] THEN {} ELSE {c})
  /\ tsClosed' = [tsClosed EXCEPT ![c] = TRUE]
  /\ room' = IF tsClosed[c] THEN room ELSE [room EXCEPT ![s] = None]
  /\ UNCHANGED <<closed, musicLink, tries, closing, attach, refs>>

\* The subscribe-all answered (or failed, which is only logged): unless closed,
\* the page gets "connected", and the session sits in its channel's room when
\* the own channel is known.
Subscribed(c) ==
  LET s == Owner[c] IN
  /\ pc[c] = "subscribe"
  /\ ConnectReturns(c)
  /\ IF tsClosed[c]
     THEN UNCHANGED <<shown, room>>
     ELSE /\ shown' = IF closed[s] THEN shown ELSE [shown EXCEPT ![s] = c]
          /\ \/ room' = [room EXCEPT ![s] = c]
             \/ UNCHANGED room
  /\ UNCHANGED <<cur, closed, musicLink, tsClosed, client, tries, closing, refs,
                 announced>>

\* Our own client was moved to another channel: the session follows it.
SelfMoved(c) ==
  /\ pc[c] = "returned"
  /\ ~tsClosed[c]
  /\ room[Owner[c]] # c
  /\ room' = [room EXCEPT ![Owner[c]] = c]
  /\ UNCHANGED <<cur, closed, musicLink, shown, pc, tsClosed, client, tries,
                 closing, attach, refs, announced>>

-----------------------------------------------------------------------------
(* Ends of a connection.                                                   *)

\* The server kicked the client: the page gets a fatal error, and the connection
\* stays the session's until the driver reports its end.
Kicked(c) ==
  /\ client[c] \in {"live", "closing"}
  /\ ~tsClosed[c]
  /\ client' = [client EXCEPT ![c] = "kicked"]
  /\ TellEnded(Owner[c])
  /\ UNCHANGED <<cur, closed, musicLink, room, pc, tsClosed, tries, closing, attach,
                 refs, announced>>

\* The driver reports the current client's end: dropped, kicked, timed out.
ClientGone(c) ==
  /\ client[c] \in {"live", "closing", "kicked"}
  /\ client' = [client EXCEPT ![c] = "gone"]
  /\ Finish(c)
  /\ TellFinished(c)
  /\ UNCHANGED <<closed, pc, tries, closing, attach>>

\* The server says this very client was banned: the page gets a fatal error, then
\* TsSession.disconnect, with the session still owning the connection.
SelfBanned(c) ==
  /\ client[c] \in {"live", "closing"}
  /\ ~tsClosed[c]
  /\ "ban" \notin closing[c]
  /\ client' = [client EXCEPT ![c] = "closing"]
  /\ closing' = [closing EXCEPT ![c] = @ \cup {"ban"}]
  /\ TellEnded(Owner[c])
  /\ UNCHANGED <<cur, closed, musicLink, room, pc, tsClosed, tries, attach, refs,
                 announced>>

\* A disconnect message.  Without a driver client onClosed and the answer to the
\* page come at once.
UserDisconnect(s) ==
  LET c == cur[s]
      atOnce == c # None /\ client[c] = "none"
  IN
  /\ ~closed[s]
  /\ c # None \/ musicLink[s] # None
  /\ DropTs(s)
  /\ DetachMusic(s)
  /\ BeginDisconnect(c, "user")
  /\ room' = IF atOnce THEN [room EXCEPT ![s] = None] ELSE room
  /\ IF atOnce THEN TellEnded(s) ELSE UNCHANGED shown
  /\ UNCHANGED <<closed, pc, tries, attach>>

\* The websocket closed, failed or missed its heartbeat.
Dispose(s) ==
  /\ ~closed[s]
  /\ closed' = [closed EXCEPT ![s] = TRUE]
  /\ room' = [room EXCEPT ![s] = None]
  /\ DropTs(s)
  /\ DetachMusic(s)
  /\ BeginDisconnect(cur[s], "dispose")
  /\ UNCHANGED <<shown, pc, tries, attach>>

\* The driver's disconnect came back to whoever awaited it; a user's one
\* answers the page "disconnected".
GoodbyeDone(c, by) ==
  /\ by \in closing[c]
  /\ closing' = [closing EXCEPT ![c] = @ \ {by}]
  /\ client' = [client EXCEPT ![c] = IF @ \in {"closing", "kicked"} THEN "gone" ELSE @]
  /\ Finish(c)
  /\ IF by = "user" THEN TellEnded(Owner[c]) ELSE TellFinished(c)
  /\ UNCHANGED <<closed, pc, tries, attach>>

-----------------------------------------------------------------------------
(* Joining the music bot.                                                  *)

Pooled == {b \in Bot : refs[b] > 0}

\* The bot's address is vetted, or refused: BridgePool.acquire takes its
\* reference at once unless the session ended or the pool is full.
Vetted(c) ==
  LET b == BotOf[c] IN
  /\ attach[c] = "vetting"
  /\ \/ /\ attach' = [attach EXCEPT ![c] = "none"]
        /\ UNCHANGED refs
     \/ /\ ~closed[Owner[c]]
        /\ cur[Owner[c]] # None
        /\ b \in Pooled \/ Cardinality(Pooled) < MaxPooled
        /\ attach' = [attach EXCEPT ![c] = "acquiring"]
        /\ refs' = [refs EXCEPT ![b] = @ + 1]
  /\ UNCHANGED <<sessionVars, pc, tsClosed, client, tries, closing, announced>>

\* (Mutant: a lost session does not give the reference back.)
AcquiredKeepingRef(c) ==
  LET s == Owner[c] IN
  /\ attach[c] = "acquiring"
  /\ attach' = [attach EXCEPT ![c] = "none"]
  /\ IF closed[s] \/ cur[s] = None \/ musicLink[s] # None
     THEN UNCHANGED <<refs, musicLink>>
     ELSE musicLink' = [musicLink EXCEPT ![s] = c] /\ UNCHANGED refs
  /\ UNCHANGED <<cur, closed, room, shown, pc, tsClosed, client, tries, closing,
                 announced>>

\* (Mutant: linked without looking whether the session still lives.)
AcquiredBlindly(c) ==
  LET s == Owner[c] IN
  /\ attach[c] = "acquiring"
  /\ attach' = [attach EXCEPT ![c] = "none"]
  /\ IF musicLink[s] # None
     THEN refs' = Released(BotOf[c]) /\ UNCHANGED musicLink
     ELSE musicLink' = [musicLink EXCEPT ![s] = c] /\ UNCHANGED refs
  /\ UNCHANGED <<cur, closed, room, shown, pc, tsClosed, client, tries, closing,
                 announced>>

\* The bridge finished its first start: the session links it, or gives the
\* reference back when it is closed, unconnected or already linked.
Acquired(c) ==
  LET s == Owner[c] IN
  /\ attach[c] = "acquiring"
  /\ attach' = [attach EXCEPT ![c] = "none"]
  /\ IF closed[s] \/ cur[s] = None \/ musicLink[s] # None
     THEN refs' = Released(BotOf[c]) /\ UNCHANGED musicLink
     ELSE musicLink' = [musicLink EXCEPT ![s] = c] /\ UNCHANGED refs
  /\ UNCHANGED <<cur, closed, room, shown, pc, tsClosed, client, tries, closing,
                 announced>>

-----------------------------------------------------------------------------
\* The steps an await of the connect handler ends with.
ConnectStep(c) ==
  \/ NextAttempt(c)
  \/ Dial(c)
  \/ HandshakeDone(c)
  \/ HandshakeTimeout(c)
  \/ ConnectFails(c)
  \/ Subscribed(c)

Next ==
  \/ \E c \in Conn :
       \/ Connect(c)
       \/ ConnectStep(c)
       \/ SelfMoved(c)
       \/ Kicked(c)
       \/ ClientGone(c)
       \/ SelfBanned(c)
       \/ Vetted(c)
       \/ Acquired(c)
       \/ \E by \in Closers : GoodbyeDone(c, by)
  \/ \E s \in Session : UserDisconnect(s) \/ Dispose(s)

Spec == Init /\ [][Next]_vars

\* Every await ends: lookups, handshakes, the subscribe-all and the bot's start
\* have timeouts, and the driver's disconnect settles.  What the user, the
\* server and the browser do is not forced.
Fairness ==
  \A c \in Conn :
    /\ WF_vars(ConnectStep(c))
    /\ WF_vars(Vetted(c))
    /\ WF_vars(Acquired(c))
    /\ WF_vars(\E by \in Closers : GoodbyeDone(c, by))

FairSpec == Spec /\ Fairness

-----------------------------------------------------------------------------
(* What holds whatever the page does.                                      *)

\* An attach holds a reference on its bot from the acquire until the session
\* gives it back.
Holds(c) == attach[c] = "acquiring" \/ musicLink[Owner[c]] = c

Holders(b) == {c \in Conn : BotOf[c] = b /\ Holds(c)}

\* The pool's count of a bot is the number of attaches that owe it a release:
\* none is leaked by an attach that lost its session or connection while the
\* bot started, and none is released twice (BridgePool.acquire: "a matching
\* release() is owed even if the caller stops waiting").
RefsMatchHolders == \A b \in Bot : refs[b] = Cardinality(Holders(b))

\* Every connection the session let go of was announced to the registry's
\* listeners, and none that it still owns was (registry.ts: a media stream must
\* stop the moment its connection ends, and not before).
AnnouncedWhenLetGo ==
  \A c \in Conn : pc[c] # "idle" => (c \in announced <=> cur[Owner[c]] # c)

\* A session never sits in a room on behalf of a connection that has ended,
\* whatever moves and goodbyes arrive late (Session onClosed / onSelfChannel).
RoomOfOpenConnection ==
  \A s \in Session : room[s] # None => ~tsClosed[room[s]]

\* Once its websocket is gone a session gives back every reference on a music
\* bot and takes none again (Session.dispose and the checks of attachMusic).
MusicGivenBack ==
  \A s \in Session : closed[s] ~> [](\A c \in ConnsOf(s) : ~Holds(c))

\* Every connect message is answered: the handler comes back, connected, closed
\* or failed.
ConnectAnswered ==
  \A c \in Conn : pc[c] = "resolve" ~> pc[c] \in {"returned", "failed"}

-----------------------------------------------------------------------------
(* What the source says of a session's single connection.                  *)

\* No two driver clients that nobody told to leave.
OneClient(s) == Cardinality({c \in ConnsOf(s) : client[c] = "live"}) <= 1

\* Session.ts:5: at most one TeamSpeak connection per session.
OneConnection == \A s \in Session : OneClient(s)

\* A session in its connection's room stays there as long as it owns that connection.
Stays(s) == room[s] # None /\ room[s] = cur[s] /\ cur'[s] = cur[s] => room'[s] = room[s]

\* RoomRegistry.ts:2: the registry knows the sessions that sit in a channel.
StaysInRoom == [][\A s \in Session : Stays(s)]_vars
=============================================================================
