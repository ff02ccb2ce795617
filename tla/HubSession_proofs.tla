-------------------------- MODULE HubSession_proofs --------------------------
(***************************************************************************)
(* Proofs about HubSession for any sessions, connections, bots, number of  *)
(* attempts and pool size; at first whether or not connects overlap, and   *)
(* then about the page that waits its turn (PatientPage).                  *)
(***************************************************************************)
EXTENDS PatientPage, FiniteSetTheorems, TLAPS

-----------------------------------------------------------------------------
(* Type correctness.                                                       *)

LEMMA ReleasedType ==
  ASSUME TypeOK, NEW b \in Bot
  PROVE  Released(b) \in [Bot -> Nat]
BY DEF TypeOK, Released

LEMMA DetachMusicType ==
  ASSUME TypeOK, NEW s \in Session, DetachMusic(s)
  PROVE  /\ musicLink' \in [Session -> Conn \cup {None}]
         /\ refs' \in [Bot -> Nat]
<1>1. musicLink[s] # None => BotOf[musicLink[s]] \in Bot
  BY ConnAssumption DEF TypeOK
<1> QED
  BY <1>1, ReleasedType DEF TypeOK, DetachMusic

LEMMA FinishType ==
  ASSUME TypeOK, NEW c \in Conn, Finish(c)
  PROVE  /\ cur' \in [Session -> Conn \cup {None}]
         /\ musicLink' \in [Session -> Conn \cup {None}]
         /\ room' \in [Session -> Conn \cup {None}]
         /\ tsClosed' \in [Conn -> BOOLEAN]
         /\ refs' \in [Bot -> Nat]
         /\ announced' \subseteq Conn
<1>1. Owner[c] \in Session
  BY ConnAssumption
<1>2. CASE tsClosed[c]
  BY <1>2 DEF TypeOK, Finish
<1>3. CASE ~tsClosed[c] /\ cur[Owner[c]] = c
  BY <1>1, <1>3, DetachMusicType DEF TypeOK, Finish
<1>4. CASE ~tsClosed[c] /\ cur[Owner[c]] # c
  BY <1>1, <1>4 DEF TypeOK, Finish
<1> QED
  BY <1>2, <1>3, <1>4

LEMMA BeginDisconnectType ==
  ASSUME TypeOK, NEW c, NEW by \in Closers, BeginDisconnect(c, by)
  PROVE  /\ tsClosed' \in [Conn -> BOOLEAN]
         /\ client' \in [Conn -> ClientStates]
         /\ closing' \in [Conn -> SUBSET Closers]
<1>1. tsClosed' \in [Conn -> BOOLEAN]
  BY DEF TypeOK, BeginDisconnect
<1>2. client' \in [Conn -> ClientStates]
  BY DEF TypeOK, BeginDisconnect, ClientStates
<1>3. closing' \in [Conn -> SUBSET Closers]
  BY DEF TypeOK, BeginDisconnect
<1> QED
  BY <1>1, <1>2, <1>3

\* A connect handler about to dial has an attempt left: without it the bound on
\* tries is not inductive.
AttemptsLeft ==
  \A c \in Conn : pc[c] \in {"idle", "resolve", "slot", "delay"} => tries[c] < MaxAttempts

TypeInv == TypeOK /\ AttemptsLeft

LEMMA ConnectStepType ==
  ASSUME TypeInv, NEW c \in Conn, ConnectStep(c) \/ Connect(c) \/ SelfMoved(c)
  PROVE  TypeInv'
<1> USE DEF TypeInv, TypeOK, AttemptsLeft
<1>0. Owner[c] \in Session /\ MaxAttempts \in Nat
  BY ConnAssumption, BoundAssumption
<1>1. CASE Connect(c)
  BY <1>0, <1>1 DEF Connect, Phases
<1>2. CASE NextAttempt(c)
  BY <1>0, <1>2 DEF NextAttempt, ConnectReturns, Phases, AttachStates, sessionVars
<1>3. CASE Dial(c)
  BY <1>0, <1>3 DEF Dial, ConnectReturns, Phases, AttachStates, ClientStates, sessionVars
<1>4. CASE HandshakeDone(c)
  BY <1>0, <1>4 DEF HandshakeDone, Phases, sessionVars
<1>5. CASE HandshakeTimeout(c)
  BY <1>0, <1>5 DEF HandshakeTimeout, Phases, ClientStates, sessionVars
<1>6. CASE ConnectFails(c)
  BY <1>0, <1>6 DEF ConnectFails, TellEnded, Phases, ClientStates
<1>7. CASE Subscribed(c)
  BY <1>0, <1>7 DEF Subscribed, ConnectReturns, Phases, AttachStates
<1>8. CASE SelfMoved(c)
  BY <1>0, <1>8 DEF SelfMoved
<1> QED
  BY <1>1, <1>2, <1>3, <1>4, <1>5, <1>6, <1>7, <1>8 DEF ConnectStep

LEMMA EndStepType ==
  ASSUME TypeInv, NEW c \in Conn, NEW by \in Closers,
         Kicked(c) \/ ClientGone(c) \/ SelfBanned(c) \/ GoodbyeDone(c, by)
  PROVE  TypeInv'
<1>0. TypeOK /\ Owner[c] \in Session
  BY ConnAssumption DEF TypeInv
<1>1. CASE ClientGone(c)
  <2>1. client' \in [Conn -> ClientStates]
    BY <1>0, <1>1 DEF TypeOK, ClientGone, ClientStates
  <2>2. shown' \in [Session -> Conn \cup {None}]
    BY <1>0, <1>1 DEF TypeOK, ClientGone, TellFinished, TellEnded
  <2> QED
    BY <1>0, <1>1, <2>1, <2>2, FinishType DEF TypeInv, TypeOK, AttemptsLeft, ClientGone
<1>2. CASE SelfBanned(c)
  BY <1>0, <1>2 DEF TypeInv, TypeOK, AttemptsLeft, SelfBanned, TellEnded, ClientStates,
                    Closers
<1>3. CASE GoodbyeDone(c, by)
  <2>1. /\ client' \in [Conn -> ClientStates]
        /\ closing' \in [Conn -> SUBSET Closers]
    BY <1>0, <1>3 DEF TypeOK, GoodbyeDone, ClientStates
  <2>2. shown' \in [Session -> Conn \cup {None}]
    BY <1>0, <1>3 DEF TypeOK, GoodbyeDone, TellFinished, TellEnded
  <2> QED
    BY <1>0, <1>3, <2>1, <2>2, FinishType DEF TypeInv, TypeOK, AttemptsLeft, GoodbyeDone
<1>4. CASE Kicked(c)
  BY <1>0, <1>4 DEF TypeInv, TypeOK, AttemptsLeft, Kicked, TellEnded, ClientStates
<1> QED
  BY <1>1, <1>2, <1>3, <1>4

LEMMA SessionStepType ==
  ASSUME TypeInv, NEW s \in Session, UserDisconnect(s) \/ Dispose(s)
  PROVE  TypeInv'
<1>0. TypeOK
  BY DEF TypeInv
<1>1. CASE UserDisconnect(s)
  <2>1. BeginDisconnect(cur[s], "user") /\ DetachMusic(s) /\ DropTs(s)
    BY <1>1 DEF UserDisconnect
  <2>2. /\ cur' \in [Session -> Conn \cup {None}]
        /\ announced' \subseteq Conn
    BY <1>0, <2>1 DEF TypeOK, DropTs
  <2>3. /\ room' \in [Session -> Conn \cup {None}]
        /\ shown' \in [Session -> Conn \cup {None}]
    BY <1>0, <1>1 DEF TypeOK, UserDisconnect, TellEnded
  <2>4. "user" \in Closers
    BY DEF Closers
  <2>5. /\ tsClosed' \in [Conn -> BOOLEAN]
        /\ client' \in [Conn -> ClientStates]
        /\ closing' \in [Conn -> SUBSET Closers]
    BY <1>0, <2>1, <2>4, BeginDisconnectType
  <2> QED
    BY <1>0, <1>1, <2>1, <2>2, <2>3, <2>5, DetachMusicType
    DEF TypeInv, TypeOK, AttemptsLeft, UserDisconnect
<1>2. CASE Dispose(s)
  <2>1. BeginDisconnect(cur[s], "dispose") /\ DetachMusic(s) /\ DropTs(s)
    BY <1>2 DEF Dispose
  <2>2. /\ cur' \in [Session -> Conn \cup {None}]
        /\ announced' \subseteq Conn
    BY <1>0, <2>1 DEF TypeOK, DropTs
  <2>3. /\ room' \in [Session -> Conn \cup {None}]
        /\ closed' \in [Session -> BOOLEAN]
    BY <1>0, <1>2 DEF TypeOK, Dispose
  <2>4. "dispose" \in Closers
    BY DEF Closers
  <2>5. /\ tsClosed' \in [Conn -> BOOLEAN]
        /\ client' \in [Conn -> ClientStates]
        /\ closing' \in [Conn -> SUBSET Closers]
    BY <1>0, <2>1, <2>4, BeginDisconnectType
  <2> QED
    BY <1>0, <1>2, <2>1, <2>2, <2>3, <2>5, DetachMusicType
    DEF TypeInv, TypeOK, AttemptsLeft, Dispose
<1> QED
  BY <1>1, <1>2

LEMMA MusicStepType ==
  ASSUME TypeInv, NEW c \in Conn, Vetted(c) \/ Acquired(c)
  PROVE  TypeInv'
<1>0. TypeOK /\ Owner[c] \in Session /\ BotOf[c] \in Bot
  BY ConnAssumption DEF TypeInv
<1>1. CASE Vetted(c)
  <2>1. refs' \in [Bot -> Nat]
    BY <1>0, <1>1 DEF TypeOK, Vetted
  <2> QED
    BY <1>0, <1>1, <2>1 DEF TypeInv, TypeOK, AttemptsLeft, Vetted, AttachStates, sessionVars
<1>2. CASE Acquired(c)
  <2>1. refs' \in [Bot -> Nat]
    BY <1>0, <1>2, ReleasedType DEF TypeOK, Acquired
  <2> QED
    BY <1>0, <1>2, <2>1 DEF TypeInv, TypeOK, AttemptsLeft, Acquired, AttachStates
<1> QED
  BY <1>1, <1>2

LEMMA InitType == Init => TypeInv
BY BoundAssumption
DEF Init, TypeInv, TypeOK, AttemptsLeft, Phases, ClientStates, AttachStates

LEMMA NextType == TypeInv /\ [Next]_vars => TypeInv'
<1> SUFFICES ASSUME TypeInv, [Next]_vars PROVE TypeInv'
  OBVIOUS
<1>1. CASE \E c \in Conn : ConnectStep(c) \/ Connect(c) \/ SelfMoved(c)
  BY <1>1, ConnectStepType
<1>2. CASE \E c \in Conn : Kicked(c) \/ ClientGone(c) \/ SelfBanned(c)
  <2>1. "user" \in Closers
    BY DEF Closers
  <2> QED
    BY <1>2, <2>1, EndStepType
<1>3. CASE \E c \in Conn, by \in Closers : GoodbyeDone(c, by)
  BY <1>3, EndStepType
<1>4. CASE \E c \in Conn : Vetted(c) \/ Acquired(c)
  BY <1>4, MusicStepType
<1>5. CASE \E s \in Session : UserDisconnect(s) \/ Dispose(s)
  BY <1>5, SessionStepType
<1>6. CASE UNCHANGED vars
  BY <1>6 DEF vars, TypeInv, TypeOK, AttemptsLeft
<1> QED
  BY <1>1, <1>2, <1>3, <1>4, <1>5, <1>6 DEF Next

\* Every reachable state is well typed, and no connection is ever dialled more
\* often than its retries allow (TsSession.connect's loop).
THEOREM TypeCorrect == Spec => []TypeOK
<1>1. Spec => []TypeInv
  BY InitType, NextType, PTL DEF Spec
<1>2. TypeInv => TypeOK
  BY DEF TypeInv
<1> QED
  BY <1>1, <1>2, PTL

-----------------------------------------------------------------------------
(* Rooms and end notices.  Neither property is inductive by itself: a      *)
(* handler that ends a connection must know that the connection is its     *)
(* session's own, that it was used, and that one still owned is open.      *)

OwnCurrent ==
  \A s \in Session : cur[s] # None =>
    /\ Owner[cur[s]] = s
    /\ pc[cur[s]] # "idle"
    /\ ~tsClosed[cur[s]]

OwnRoom == \A s \in Session : room[s] # None => Owner[room[s]] = s

IdleIsUnused ==
  \A c \in Conn : pc[c] = "idle" =>
    /\ c \notin announced
    /\ client[c] = "none"
    /\ closing[c] = {}
    /\ ~tsClosed[c]

Inv ==
  /\ TypeOK
  /\ OwnCurrent
  /\ OwnRoom
  /\ IdleIsUnused
  /\ AnnouncedWhenLetGo
  /\ RoomOfOpenConnection

\* What finishing a used connection does to the parts of Inv.
LEMMA FinishInv ==
  ASSUME Inv, NEW c \in Conn, pc[c] # "idle", UNCHANGED pc, Finish(c)
  PROVE  /\ OwnCurrent'
         /\ OwnRoom'
         /\ AnnouncedWhenLetGo'
         /\ RoomOfOpenConnection'
         /\ \A d \in Conn : pc[d] = "idle" => d \notin announced' /\ ~tsClosed'[d]
<1>0. Owner[c] \in Session /\ None \notin Conn
  BY ConnAssumption, NoneAssumption
<1>1. CASE tsClosed[c]
  BY <1>0, <1>1
  DEF Inv, OwnCurrent, OwnRoom, IdleIsUnused, AnnouncedWhenLetGo,
      RoomOfOpenConnection, Finish
<1>2. CASE ~tsClosed[c]
  <2>1. /\ tsClosed' = [tsClosed EXCEPT ![c] = TRUE]
        /\ room' = [room EXCEPT ![Owner[c]] = None]
        /\ announced' = announced \cup {c}
        /\ cur' = IF cur[Owner[c]] = c THEN [cur EXCEPT ![Owner[c]] = None] ELSE cur
    BY <1>2 DEF Finish
  <2>2. OwnCurrent'
    BY <1>0, <2>1 DEF Inv, TypeOK, OwnCurrent
  <2>3. OwnRoom' /\ RoomOfOpenConnection'
    BY <1>0, <2>1 DEF Inv, TypeOK, OwnRoom, RoomOfOpenConnection
  <2>4. AnnouncedWhenLetGo'
    BY <1>0, <2>1 DEF Inv, TypeOK, AnnouncedWhenLetGo, OwnCurrent
  <2>5. \A d \in Conn : pc[d] = "idle" => d \notin announced' /\ ~tsClosed'[d]
    BY <2>1 DEF Inv, TypeOK, IdleIsUnused
  <2> QED
    BY <2>2, <2>3, <2>4, <2>5
<1> QED
  BY <1>1, <1>2

LEMMA ConnectStepInv ==
  ASSUME Inv, TypeOK', NEW c \in Conn, ConnectStep(c) \/ Connect(c) \/ SelfMoved(c)
  PROVE  Inv'
<1> USE DEF Inv, TypeOK, OwnCurrent, OwnRoom, IdleIsUnused, AnnouncedWhenLetGo,
            RoomOfOpenConnection
<1>0. Owner[c] \in Session /\ None \notin Conn
  BY ConnAssumption, NoneAssumption
<1>1. CASE Connect(c)
  BY <1>0, <1>1 DEF Connect
<1>2. CASE NextAttempt(c)
  BY <1>0, <1>2 DEF NextAttempt, ConnectReturns, sessionVars
<1>3. CASE Dial(c)
  BY <1>0, <1>3 DEF Dial, ConnectReturns, sessionVars
<1>4. CASE HandshakeDone(c)
  BY <1>0, <1>4 DEF HandshakeDone, sessionVars
<1>5. CASE HandshakeTimeout(c)
  BY <1>0, <1>5 DEF HandshakeTimeout, sessionVars
<1>6. CASE ConnectFails(c)
  BY <1>0, <1>6 DEF ConnectFails
<1>7. CASE Subscribed(c)
  BY <1>0, <1>7 DEF Subscribed, ConnectReturns
<1>8. CASE SelfMoved(c)
  BY <1>0, <1>8 DEF SelfMoved
<1> QED
  BY <1>1, <1>2, <1>3, <1>4, <1>5, <1>6, <1>7, <1>8 DEF ConnectStep

LEMMA EndStepInv ==
  ASSUME Inv, TypeOK', NEW c \in Conn, NEW by \in Closers,
         Kicked(c) \/ ClientGone(c) \/ SelfBanned(c) \/ GoodbyeDone(c, by)
  PROVE  Inv'
<1>1. CASE ClientGone(c)
  <2>1. pc[c] # "idle" /\ Finish(c) /\ UNCHANGED <<pc, closing>>
    BY <1>1 DEF ClientGone, Inv, IdleIsUnused
  <2>2. IdleIsUnused'
    BY <1>1, <2>1, FinishInv DEF ClientGone, Inv, TypeOK, IdleIsUnused
  <2> QED
    BY <2>1, <2>2, FinishInv DEF Inv
<1>2. CASE SelfBanned(c)
  BY <1>2
  DEF SelfBanned, Inv, TypeOK, OwnCurrent, OwnRoom, IdleIsUnused, AnnouncedWhenLetGo,
      RoomOfOpenConnection
<1>3. CASE GoodbyeDone(c, by)
  <2>1. pc[c] # "idle" /\ Finish(c) /\ UNCHANGED pc
    BY <1>3 DEF GoodbyeDone, Inv, IdleIsUnused
  <2>2. IdleIsUnused'
    BY <1>3, <2>1, FinishInv DEF GoodbyeDone, Inv, TypeOK, IdleIsUnused
  <2> QED
    BY <2>1, <2>2, FinishInv DEF Inv
<1>4. CASE Kicked(c)
  BY <1>4
  DEF Kicked, Inv, TypeOK, OwnCurrent, OwnRoom, IdleIsUnused, AnnouncedWhenLetGo,
      RoomOfOpenConnection
<1> QED
  BY <1>1, <1>2, <1>3, <1>4

LEMMA SessionStepInv ==
  ASSUME Inv, TypeOK', NEW s \in Session, UserDisconnect(s) \/ Dispose(s)
  PROVE  Inv'
<1> USE NoneAssumption
<1>1. PICK by : /\ DropTs(s)
                /\ BeginDisconnect(cur[s], by)
                /\ UNCHANGED pc
                /\ room' = room \/ room' = [room EXCEPT ![s] = None]
                /\ cur[s] # None /\ client[cur[s]] = "none"
                      => room' = [room EXCEPT ![s] = None]
  BY DEF UserDisconnect, Dispose
<1>2. OwnCurrent'
  BY <1>1 DEF Inv, TypeOK, OwnCurrent, DropTs, BeginDisconnect
<1>3. OwnRoom'
  BY <1>1 DEF Inv, TypeOK, OwnRoom
<1>4. IdleIsUnused'
  BY <1>1 DEF Inv, TypeOK, OwnCurrent, IdleIsUnused, DropTs, BeginDisconnect
<1>5. AnnouncedWhenLetGo'
  BY <1>1, ConnAssumption
  DEF Inv, TypeOK, OwnCurrent, AnnouncedWhenLetGo, DropTs
<1>6. RoomOfOpenConnection'
  BY <1>1
  DEF Inv, TypeOK, OwnCurrent, OwnRoom, RoomOfOpenConnection, BeginDisconnect
<1> QED
  BY <1>2, <1>3, <1>4, <1>5, <1>6 DEF Inv

LEMMA MusicStepInv ==
  ASSUME Inv, TypeOK', NEW c \in Conn, Vetted(c) \/ Acquired(c)
  PROVE  Inv'
<1>1. UNCHANGED <<cur, room, pc, tsClosed, client, closing, announced>>
  BY DEF Vetted, Acquired, sessionVars
<1> QED
  BY <1>1 DEF Inv, OwnCurrent, OwnRoom, IdleIsUnused, AnnouncedWhenLetGo,
              RoomOfOpenConnection

LEMMA InitInv == Init => Inv
BY InitType, NoneAssumption
DEF TypeInv, Init, Inv, OwnCurrent, OwnRoom, IdleIsUnused, AnnouncedWhenLetGo,
    RoomOfOpenConnection

LEMMA NextInv == Inv /\ TypeOK' /\ [Next]_vars => Inv'
<1> SUFFICES ASSUME Inv, TypeOK', [Next]_vars PROVE Inv'
  OBVIOUS
<1>1. CASE \E c \in Conn : ConnectStep(c) \/ Connect(c) \/ SelfMoved(c)
  BY <1>1, ConnectStepInv
<1>2. CASE \E c \in Conn : Kicked(c) \/ ClientGone(c) \/ SelfBanned(c)
  <2>1. "user" \in Closers
    BY DEF Closers
  <2> QED
    BY <1>2, <2>1, EndStepInv
<1>3. CASE \E c \in Conn, by \in Closers : GoodbyeDone(c, by)
  BY <1>3, EndStepInv
<1>4. CASE \E c \in Conn : Vetted(c) \/ Acquired(c)
  BY <1>4, MusicStepInv
<1>5. CASE \E s \in Session : UserDisconnect(s) \/ Dispose(s)
  BY <1>5, SessionStepInv
<1>6. CASE UNCHANGED vars
  BY <1>6 DEF vars, Inv, TypeOK, OwnCurrent, OwnRoom, IdleIsUnused,
              AnnouncedWhenLetGo, RoomOfOpenConnection
<1> QED
  BY <1>1, <1>2, <1>3, <1>4, <1>5, <1>6 DEF Next

LEMMA InvHolds == Spec => []Inv
BY InitInv, NextInv, TypeCorrect, PTL DEF Spec

\* However late its moves and goodbyes arrive, a connection that has ended
\* holds no seat in a room for its session.
THEOREM RoomsOnlyOfOpenConnections == Spec => []RoomOfOpenConnection
BY InvHolds, PTL DEF Inv

\* The registry's listeners (the media streams) hear of a connection's end
\* exactly when its session lets go of it.
THEOREM EndsAnnounced == Spec => []AnnouncedWhenLetGo
BY InvHolds, PTL DEF Inv

-----------------------------------------------------------------------------
(* The reference counts.  A count is the size of a set of attaches; each   *)
(* step adds one holder, removes one, or leaves them all, once it is known *)
(* that an attach is made once, by a handler that returned, and that a     *)
(* session links only its own.                                             *)

OwnLink ==
  \A s \in Session : musicLink[s] # None =>
    /\ Owner[musicLink[s]] = s
    /\ pc[musicLink[s]] = "returned"
    /\ attach[musicLink[s]] = "none"

AttachAfterReturn == \A c \in Conn : attach[c] # "none" => pc[c] = "returned"

MusicInv ==
  /\ TypeOK
  /\ OwnLink
  /\ AttachAfterReturn
  /\ RefsMatchHolders

LEMMA HoldersFinite == \A b \in Bot : IsFiniteSet(Holders(b))
<1>1. \A b \in Bot : Holders(b) \subseteq Conn
  BY DEF Holders
<1> QED
  BY <1>1, ConnAssumption, FS_Subset

\* The same attaches hold: the counts may stay.
LEMMA SameHolders ==
  ASSUME RefsMatchHolders, UNCHANGED refs, \A d \in Conn : Holds(d)' <=> Holds(d)
  PROVE  RefsMatchHolders'
<1>1. \A b \in Bot : Holders(b)' = Holders(b)
  BY DEF Holders
<1> QED
  BY <1>1 DEF RefsMatchHolders

\* One attach more holds: its bot's count goes up by one.
LEMMA OneHolderMore ==
  ASSUME RefsMatchHolders, TypeOK, NEW c \in Conn, ~Holds(c),
         refs' = [refs EXCEPT ![BotOf[c]] = @ + 1],
         \A d \in Conn : Holds(d)' <=> Holds(d) \/ d = c
  PROVE  RefsMatchHolders'
<1> SUFFICES ASSUME NEW b \in Bot PROVE refs'[b] = Cardinality(Holders(b)')
  BY DEF RefsMatchHolders
<1>1. CASE b = BotOf[c]
  <2>1. Holders(b)' = Holders(b) \cup {c} /\ c \notin Holders(b)
    BY <1>1 DEF Holders
  <2>2. Cardinality(Holders(b)') = Cardinality(Holders(b)) + 1
    BY <2>1, HoldersFinite, FS_AddElement
  <2> QED
    BY <1>1, <2>2 DEF RefsMatchHolders, TypeOK
<1>2. CASE b # BotOf[c]
  <2>1. Holders(b)' = Holders(b)
    BY <1>2 DEF Holders
  <2> QED
    BY <1>2, <2>1 DEF RefsMatchHolders, TypeOK
<1> QED
  BY <1>1, <1>2

\* One attach less holds: its bot's count was positive and goes down by one.
LEMMA OneHolderLess ==
  ASSUME RefsMatchHolders, TypeOK, NEW c \in Conn, Holds(c),
         refs' = Released(BotOf[c]),
         \A d \in Conn : Holds(d)' <=> Holds(d) /\ d # c
  PROVE  RefsMatchHolders'
<1> SUFFICES ASSUME NEW b \in Bot PROVE refs'[b] = Cardinality(Holders(b)')
  BY DEF RefsMatchHolders
<1>0. refs[b] = Cardinality(Holders(b)) /\ refs[b] \in Nat
  BY DEF RefsMatchHolders, TypeOK
<1>1. CASE b = BotOf[c]
  <2>1. Holders(b)' = Holders(b) \ {c} /\ c \in Holders(b)
    BY <1>1 DEF Holders
  <2>2. Cardinality(Holders(b)') = Cardinality(Holders(b)) - 1
    BY <2>1, HoldersFinite, FS_RemoveElement
  <2>3. Cardinality(Holders(b)') \in Nat
    BY <2>1, HoldersFinite, FS_RemoveElement, FS_CardinalityType
  <2>4. refs'[b] = refs[b] - 1
    BY <1>0, <1>1, <2>2, <2>3 DEF Released, TypeOK
  <2> QED
    BY <1>0, <2>2, <2>4
<1>2. CASE b # BotOf[c]
  <2>1. Holders(b)' = Holders(b)
    BY <1>2 DEF Holders
  <2> QED
    BY <1>0, <1>2, <2>1 DEF Released, TypeOK
<1> QED
  BY <1>1, <1>2

\* Detaching a session's bot, with nothing else of the attaches touched.
LEMMA DetachInv ==
  ASSUME MusicInv, TypeOK', NEW s \in Session, DetachMusic(s), UNCHANGED <<pc, attach>>
  PROVE  MusicInv'
<1>1. OwnLink' /\ AttachAfterReturn'
  BY DEF MusicInv, TypeOK, OwnLink, AttachAfterReturn, DetachMusic
<1>2. CASE musicLink[s] = None
  <2>1. \A d \in Conn : Holds(d)' <=> Holds(d)
    BY <1>2, NoneAssumption DEF DetachMusic, Holds, MusicInv, TypeOK
  <2> QED
    BY <1>1, <1>2, <2>1, SameHolders DEF MusicInv, DetachMusic
<1>3. CASE musicLink[s] # None
  <2> DEFINE l == musicLink[s]
  <2>1. l \in Conn /\ Owner[l] = s /\ attach[l] = "none" /\ Holds(l)
    BY <1>3 DEF MusicInv, TypeOK, OwnLink, Holds
  <2>2. \A d \in Conn : Holds(d)' <=> Holds(d) /\ d # l
    BY <1>3, <2>1, NoneAssumption DEF DetachMusic, Holds, MusicInv, TypeOK
  <2>3. refs' = Released(BotOf[l])
    BY <1>3 DEF DetachMusic
  <2> QED
    BY <1>1, <2>1, <2>2, <2>3, OneHolderLess DEF MusicInv
<1> QED
  BY <1>2, <1>3

LEMMA FinishMusicInv ==
  ASSUME MusicInv, TypeOK', NEW c \in Conn, Finish(c), UNCHANGED <<pc, attach>>
  PROVE  MusicInv'
<1>1. Owner[c] \in Session
  BY ConnAssumption
<1>2. CASE UNCHANGED <<musicLink, refs>>
  <2>1. \A d \in Conn : Holds(d)' <=> Holds(d)
    BY <1>2 DEF Holds
  <2> QED
    BY <1>2, <2>1, SameHolders DEF MusicInv, OwnLink, AttachAfterReturn
<1>3. CASE DetachMusic(Owner[c])
  BY <1>1, <1>3, DetachInv
<1> QED
  BY <1>2, <1>3 DEF Finish

\* The connect handler leaves links and counts alone, and starts an attach only
\* when it returns.
LEMMA ConnectStepMusic ==
  ASSUME MusicInv, TypeOK', NEW c \in Conn, ConnectStep(c) \/ Connect(c) \/ SelfMoved(c)
  PROVE  MusicInv'
<1>1. /\ UNCHANGED <<musicLink, refs>>
      /\ \/ UNCHANGED <<pc, attach>>
         \/ /\ pc[c] # "returned"
            /\ \E p \in Phases : pc' = [pc EXCEPT ![c] = p]
            /\ attach' = attach
         \/ /\ pc[c] # "returned"
            /\ pc' = [pc EXCEPT ![c] = "returned"]
            /\ attach' = [attach EXCEPT ![c] = "vetting"]
  <2>1. CASE Connect(c)
    BY <2>1 DEF Connect, Phases
  <2>2. CASE NextAttempt(c)
    BY <2>2 DEF NextAttempt, ConnectReturns, Phases, sessionVars
  <2>3. CASE Dial(c)
    BY <2>3 DEF Dial, ConnectReturns, Phases, sessionVars
  <2>4. CASE HandshakeDone(c)
    BY <2>4 DEF HandshakeDone, Phases, sessionVars
  <2>5. CASE HandshakeTimeout(c)
    BY <2>5 DEF HandshakeTimeout, Phases, sessionVars
  <2>6. CASE ConnectFails(c)
    BY <2>6 DEF ConnectFails, Phases
  <2>7. CASE Subscribed(c)
    BY <2>7 DEF Subscribed, ConnectReturns, Phases
  <2>8. CASE SelfMoved(c)
    BY <2>8 DEF SelfMoved
  <2> QED
    BY <2>1, <2>2, <2>3, <2>4, <2>5, <2>6, <2>7, <2>8 DEF ConnectStep
<1>2. OwnLink' /\ AttachAfterReturn'
  BY <1>1 DEF MusicInv, TypeOK, OwnLink, AttachAfterReturn
<1>3. \A d \in Conn : Holds(d)' <=> Holds(d)
  BY <1>1 DEF MusicInv, TypeOK, AttachAfterReturn, Holds
<1> QED
  BY <1>1, <1>2, <1>3, SameHolders DEF MusicInv

LEMMA MusicStepMusic ==
  ASSUME MusicInv, TypeOK', NEW c \in Conn, Vetted(c) \/ Acquired(c)
  PROVE  MusicInv'
<1>0. Owner[c] \in Session /\ BotOf[c] \in Bot /\ None \notin Conn
  BY ConnAssumption, NoneAssumption
<1>1. CASE Vetted(c)
  <2>0. musicLink' = musicLink /\ pc' = pc /\ attach[c] = "vetting" /\ ~Holds(c)
    BY <1>0, <1>1 DEF Vetted, sessionVars, Holds, MusicInv, TypeOK, OwnLink
  <2>1. OwnLink' /\ AttachAfterReturn'
    BY <1>1, <2>0 DEF Vetted, MusicInv, TypeOK, OwnLink, AttachAfterReturn
  <2>2. CASE attach' = [attach EXCEPT ![c] = "none"] /\ UNCHANGED refs
    <3>1. \A d \in Conn : Holds(d)' <=> Holds(d)
      BY <2>0, <2>2 DEF Holds, MusicInv, TypeOK
    <3> QED
      BY <2>1, <2>2, <3>1, SameHolders DEF MusicInv
  <2>3. CASE /\ attach' = [attach EXCEPT ![c] = "acquiring"]
             /\ refs' = [refs EXCEPT ![BotOf[c]] = @ + 1]
    <3>1. \A d \in Conn : Holds(d)' <=> Holds(d) \/ d = c
      BY <2>0, <2>3 DEF Holds, MusicInv, TypeOK
    <3> QED
      BY <2>0, <2>1, <2>3, <3>1, OneHolderMore DEF MusicInv
  <2> QED
    BY <1>1, <2>2, <2>3 DEF Vetted
<1>2. CASE Acquired(c)
  <2>0. /\ attach' = [attach EXCEPT ![c] = "none"]
        /\ pc' = pc
        /\ attach[c] = "acquiring"
        /\ pc[c] = "returned"
        /\ Holds(c)
        /\ musicLink[Owner[c]] # c
    BY <1>0, <1>2 DEF Acquired, Holds, MusicInv, TypeOK, OwnLink, AttachAfterReturn
  <2>1. CASE refs' = Released(BotOf[c]) /\ UNCHANGED musicLink
    <3>1. OwnLink' /\ AttachAfterReturn'
      BY <2>0, <2>1 DEF MusicInv, TypeOK, OwnLink, AttachAfterReturn
    <3>2. \A d \in Conn : Holds(d)' <=> Holds(d) /\ d # c
      BY <2>0, <2>1 DEF Holds, MusicInv, TypeOK
    <3> QED
      BY <2>0, <2>1, <3>1, <3>2, OneHolderLess DEF MusicInv
  <2>2. CASE /\ musicLink[Owner[c]] = None
             /\ musicLink' = [musicLink EXCEPT ![Owner[c]] = c]
             /\ UNCHANGED refs
    <3>1. OwnLink' /\ AttachAfterReturn'
      BY <1>0, <2>0, <2>2 DEF MusicInv, TypeOK, OwnLink, AttachAfterReturn
    <3>2. \A d \in Conn : Holds(d)' <=> Holds(d)
      BY <1>0, <2>0, <2>2 DEF Holds, MusicInv, TypeOK
    <3> QED
      BY <2>2, <3>1, <3>2, SameHolders DEF MusicInv
  <2> QED
    BY <1>2, <2>1, <2>2 DEF Acquired
<1> QED
  BY <1>1, <1>2

LEMMA InitMusic == Init => MusicInv
<1> SUFFICES ASSUME Init PROVE MusicInv
  OBVIOUS
<1>1. \A b \in Bot : Holders(b) = {}
  BY NoneAssumption, ConnAssumption DEF Init, Holders, Holds
<1>2. RefsMatchHolders
  BY <1>1, FS_EmptySet DEF Init, RefsMatchHolders
<1> QED
  BY <1>2, InitType DEF TypeInv, Init, MusicInv, OwnLink, AttachAfterReturn

LEMMA NextMusic == MusicInv /\ TypeOK' /\ [Next]_vars => MusicInv'
<1> SUFFICES ASSUME MusicInv, TypeOK', [Next]_vars PROVE MusicInv'
  OBVIOUS
<1>1. CASE \E c \in Conn : ConnectStep(c) \/ Connect(c) \/ SelfMoved(c)
  BY <1>1, ConnectStepMusic
<1>2. CASE \E c \in Conn : ClientGone(c) \/ \E by \in Closers : GoodbyeDone(c, by)
  BY <1>2, FinishMusicInv DEF ClientGone, GoodbyeDone
<1>3. CASE \E c \in Conn : Vetted(c) \/ Acquired(c)
  BY <1>3, MusicStepMusic
<1>4. CASE \E s \in Session : UserDisconnect(s) \/ Dispose(s)
  BY <1>4, DetachInv DEF UserDisconnect, Dispose
<1>5. CASE UNCHANGED vars \/ \E c \in Conn : Kicked(c) \/ SelfBanned(c)
  <2>1. UNCHANGED <<musicLink, refs, attach, pc>>
    BY <1>5 DEF vars, Kicked, SelfBanned
  <2>2. \A d \in Conn : Holds(d)' <=> Holds(d)
    BY <2>1 DEF Holds
  <2> QED
    BY <2>1, <2>2, SameHolders DEF MusicInv, OwnLink, AttachAfterReturn
<1> QED
  BY <1>1, <1>2, <1>3, <1>4, <1>5 DEF Next

\* However attaches race disconnects, disposals and each other, a bot's count
\* in the pool is the number of attaches that still owe it a release.
THEOREM RefsExact == Spec => []RefsMatchHolders
<1>1. Spec => []MusicInv
  BY InitMusic, NextMusic, TypeCorrect, PTL DEF Spec
<1>2. MusicInv => RefsMatchHolders
  BY DEF MusicInv
<1> QED
  BY <1>1, <1>2, PTL

-----------------------------------------------------------------------------
(* The page that waits its turn.  Its session has one connection in flight  *)
(* at a time, so what comes late can only be about that one.               *)

\* While a session has a connection, nothing of its others is in flight.
OthersQuiet ==
  \A s \in Session : cur[s] # None =>
    \A d \in ConnsOf(s) : d # cur[s] => Quiet(d)

\* A connection that was let go of and is not closed has its goodbye under way.
LetGoTold ==
  \A c \in Conn : pc[c] # "idle" /\ cur[Owner[c]] # c /\ ~tsClosed[c] =>
    /\ closing[c] # {}
    /\ ~closed[Owner[c]] => "user" \in closing[c]

\* A client is that of an attempt; on the first one it is the current connection's,
\* and nobody has told it to leave.
ClientOfAttempt ==
  \A c \in Conn :
    /\ pc[c] \in {"idle", "resolve", "slot", "delay"} => client[c] = "none"
    /\ tries[c] = 0 => client[c] = "none" /\ closing[c] = {}
    /\ client[c] = "live" /\ tries[c] <= 1 => closing[c] = {} /\ cur[Owner[c]] = c

\* MusicOfCurrent and PageShowsCurrent, for the patient page.
LinkedIsCurrent == \A s \in Session : musicLink[s] # None => cur[s] = musicLink[s]

ShownRight ==
  \A s \in Session : ~closed[s] =>
    /\ cur[s] # None /\ pc[cur[s]] = "returned" => shown[s] = cur[s] \/ Expelled(cur[s])
    /\ shown[s] # None /\ cur[s] # shown[s] => "user" \in closing[shown[s]]

\* A page is shown connections of its own session.
OwnShown == \A s \in Session : shown[s] # None => Owner[shown[s]] = s

\* What holds of every page.
Known == Inv /\ OwnLink /\ AttachAfterReturn

\* None of the four properties is inductive: each needs to know that late steps are
\* those of the current connection or of none, which OthersQuiet and LetGoTold give.
TurnInv ==
  OthersQuiet /\ LetGoTold /\ ClientOfAttempt /\ LinkedIsCurrent /\ ShownRight /\ OwnShown

\* What c does, it does alone.
LEMMA Alone ==
  ASSUME Known, TurnInv, NEW c \in Conn,
         ~Quiet(c) \/ (~tsClosed[c] /\ pc[c] # "idle")
  PROVE  cur[Owner[c]] \in {None, c}
  <1> QED
    BY ConnAssumption DEF Known, Inv, TurnInv, OthersQuiet, LetGoTold, ConnsOf, Quiet

\* Nothing has happened yet.
LEMMA TurnInit == Init => TurnInv
  BY NoneAssumption, ConnAssumption
  DEF Init, TurnInv, OthersQuiet, LetGoTold, ClientOfAttempt, LinkedIsCurrent, ShownRight,
      Expelled, OwnShown, ConnsOf

\* Each step of a patient page's session keeps TurnInv: a connect comes when all is quiet,
LEMMA ConnectTurn ==
  ASSUME Known, TurnInv, NEW c \in Conn, Connect(c), InTurn
  PROVE  TurnInv'
  <1>1. \A d \in ConnsOf(Owner[c]) : Quiet(d)
    BY DEF Connect, InTurn, Known, Inv, TypeOK
  <1>2. Owner[c] \in Session /\ c # None
    BY ConnAssumption, NoneAssumption
  <1>3. /\ cur[Owner[c]] = None /\ cur' = [cur EXCEPT ![Owner[c]] = c]
        /\ pc' = [pc EXCEPT ![c] = "resolve"] /\ pc[c] = "idle"
        /\ UNCHANGED <<closed, musicLink, room, shown, tsClosed, client, tries,
                       closing, attach, refs, announced>>
    BY DEF Connect
  <1>4. OthersQuiet'
    BY <1>1, <1>2, <1>3 DEF Known, Inv, TypeOK, TurnInv, OthersQuiet, ConnsOf, Quiet
  <1>5. LetGoTold'
    BY <1>1, <1>2, <1>3, ConnAssumption, NoneAssumption DEF Known, Inv, TypeOK, TurnInv, LetGoTold
  <1>6. ClientOfAttempt'
    BY <1>1, <1>2, <1>3, ConnAssumption, NoneAssumption DEF Known, Inv, TypeOK, TurnInv, ClientOfAttempt, IdleIsUnused
  <1>7. LinkedIsCurrent'
    BY <1>1, <1>2, <1>3 DEF Known, Inv, TypeOK, TurnInv, LinkedIsCurrent
  <1>8. shown[Owner[c]] = None \/ closed[Owner[c]]
    BY <1>1, <1>2, <1>3 DEF Known, Inv, TypeOK, TurnInv, ShownRight, Expelled, OwnShown, ConnsOf, Quiet
  <1>9. ShownRight' /\ OwnShown'
    BY <1>1, <1>2, <1>3, <1>8 DEF Known, Inv, TypeOK, TurnInv, ShownRight, Expelled, OwnShown
  <1> QED
    BY <1>4, <1>5, <1>6, <1>7, <1>9 DEF TurnInv

\* the connect handler goes on,
LEMMA ConnectStepTurn ==
  ASSUME Known, TurnInv, NEW c \in Conn, ConnectStep(c)
  PROVE  TurnInv'
  <1>1. pc[c] \notin {"idle", "returned", "failed"}
    BY DEF ConnectStep, NextAttempt, Dial, HandshakeDone, HandshakeTimeout, ConnectFails, Subscribed
  <1>2. cur[Owner[c]] \in {None, c} /\ Owner[c] \in Session /\ c # None
    BY <1>1, Alone, ConnAssumption, NoneAssumption DEF Quiet
  <1>3. cur[Owner[c]] = c => ~tsClosed[c]
    BY <1>2 DEF Known, Inv, OwnCurrent
  <1>4. CASE NextAttempt(c)
    <2>3. OthersQuiet'
      BY <1>1, <1>2, <1>3, ConnAssumption, NoneAssumption, <1>4 DEF Known, Inv, TypeOK, TurnInv, OthersQuiet, ConnsOf, Quiet, NextAttempt, ConnectReturns, sessionVars
    <2>4. LetGoTold'
      BY <1>1, <1>2, <1>3, ConnAssumption, NoneAssumption, <1>4 DEF Known, Inv, TypeOK, TurnInv, LetGoTold, NextAttempt, ConnectReturns, sessionVars
    <2>5. ClientOfAttempt'
      BY <1>1, <1>2, <1>3, ConnAssumption, NoneAssumption, <1>4 DEF Known, Inv, TypeOK, TurnInv, ClientOfAttempt, NextAttempt, ConnectReturns, sessionVars
    <2>6. LinkedIsCurrent'
      BY <1>1, <1>2, <1>3, ConnAssumption, NoneAssumption, <1>4 DEF Known, Inv, TypeOK, TurnInv, LinkedIsCurrent, NextAttempt, ConnectReturns, sessionVars
    <2>7. ShownRight'
      BY <1>1, <1>2, <1>3, ConnAssumption, NoneAssumption, <1>4 DEF Known, Inv, TypeOK, TurnInv, ShownRight, Expelled, OwnShown, OwnCurrent, LetGoTold, NextAttempt, ConnectReturns, sessionVars
    <2>8. OwnShown'
      BY <1>1, <1>2, <1>3, ConnAssumption, NoneAssumption, <1>4 DEF Known, Inv, TypeOK, TurnInv, OwnShown, NextAttempt, ConnectReturns, sessionVars
    <2> QED
      BY <2>3, <2>4, <2>5, <2>6, <2>7, <2>8 DEF TurnInv
  <1>5. CASE Dial(c)
    <2>1. tries[c] = 0 /\ ~tsClosed[c] => cur[Owner[c]] = c
      BY <1>1, <1>2 DEF TurnInv, ClientOfAttempt, LetGoTold
    <2>3. OthersQuiet'
      BY <1>1, <1>2, <1>3, ConnAssumption, NoneAssumption, <1>5, <2>1 DEF Known, Inv, TypeOK, TurnInv, OthersQuiet, ConnsOf, Quiet, Dial, ConnectReturns, sessionVars
    <2>4. LetGoTold'
      BY <1>1, <1>2, <1>3, ConnAssumption, NoneAssumption, <1>5, <2>1 DEF Known, Inv, TypeOK, TurnInv, LetGoTold, Dial, ConnectReturns, sessionVars
    <2>5. ClientOfAttempt'
      BY <1>1, <1>2, <1>3, ConnAssumption, NoneAssumption, <1>5, <2>1 DEF Known, Inv, TypeOK, TurnInv, ClientOfAttempt, Dial, ConnectReturns, sessionVars
    <2>6. LinkedIsCurrent'
      BY <1>1, <1>2, <1>3, ConnAssumption, NoneAssumption, <1>5, <2>1 DEF Known, Inv, TypeOK, TurnInv, LinkedIsCurrent, Dial, ConnectReturns, sessionVars
    <2>7. ShownRight'
      BY <1>1, <1>2, <1>3, ConnAssumption, NoneAssumption, <1>5, <2>1 DEF Known, Inv, TypeOK, TurnInv, ShownRight, Expelled, OwnShown, OwnCurrent, LetGoTold, Dial, ConnectReturns, sessionVars
    <2>8. OwnShown'
      BY <1>1, <1>2, <1>3, ConnAssumption, NoneAssumption, <1>5, <2>1 DEF Known, Inv, TypeOK, TurnInv, OwnShown, Dial, ConnectReturns, sessionVars
    <2> QED
      BY <2>3, <2>4, <2>5, <2>6, <2>7, <2>8 DEF TurnInv
  <1>6. CASE HandshakeDone(c)
    <2>3. OthersQuiet'
      BY <1>1, <1>2, <1>3, ConnAssumption, NoneAssumption, <1>6 DEF Known, Inv, TypeOK, TurnInv, OthersQuiet, ConnsOf, Quiet, HandshakeDone, sessionVars
    <2>4. LetGoTold'
      BY <1>1, <1>2, <1>3, ConnAssumption, NoneAssumption, <1>6 DEF Known, Inv, TypeOK, TurnInv, LetGoTold, HandshakeDone, sessionVars
    <2>5. ClientOfAttempt'
      BY <1>1, <1>2, <1>3, ConnAssumption, NoneAssumption, <1>6 DEF Known, Inv, TypeOK, TurnInv, ClientOfAttempt, HandshakeDone, sessionVars
    <2>6. LinkedIsCurrent'
      BY <1>1, <1>2, <1>3, ConnAssumption, NoneAssumption, <1>6 DEF Known, Inv, TypeOK, TurnInv, LinkedIsCurrent, HandshakeDone, sessionVars
    <2>7. ShownRight'
      BY <1>1, <1>2, <1>3, ConnAssumption, NoneAssumption, <1>6 DEF Known, Inv, TypeOK, TurnInv, ShownRight, Expelled, HandshakeDone, sessionVars
    <2>8. OwnShown'
      BY <1>1, <1>2, <1>3, ConnAssumption, NoneAssumption, <1>6 DEF Known, Inv, TypeOK, TurnInv, OwnShown, HandshakeDone, sessionVars
    <2> QED
      BY <2>3, <2>4, <2>5, <2>6, <2>7, <2>8 DEF TurnInv
  <1>7. CASE HandshakeTimeout(c)
    <2>3. OthersQuiet'
      BY <1>1, <1>2, <1>3, ConnAssumption, NoneAssumption, <1>7 DEF Known, Inv, TypeOK, TurnInv, OthersQuiet, ConnsOf, Quiet, HandshakeTimeout, sessionVars
    <2>4. LetGoTold'
      BY <1>1, <1>2, <1>3, ConnAssumption, NoneAssumption, <1>7 DEF Known, Inv, TypeOK, TurnInv, LetGoTold, HandshakeTimeout, sessionVars
    <2>5. ClientOfAttempt'
      BY <1>1, <1>2, <1>3, ConnAssumption, NoneAssumption, <1>7 DEF Known, Inv, TypeOK, TurnInv, ClientOfAttempt, HandshakeTimeout, sessionVars
    <2>6. LinkedIsCurrent'
      BY <1>1, <1>2, <1>3, ConnAssumption, NoneAssumption, <1>7 DEF Known, Inv, TypeOK, TurnInv, LinkedIsCurrent, HandshakeTimeout, sessionVars
    <2>7. ShownRight'
      BY <1>1, <1>2, <1>3, ConnAssumption, NoneAssumption, <1>7 DEF Known, Inv, TypeOK, TurnInv, ShownRight, Expelled, HandshakeTimeout, sessionVars
    <2>8. OwnShown'
      BY <1>1, <1>2, <1>3, ConnAssumption, NoneAssumption, <1>7 DEF Known, Inv, TypeOK, TurnInv, OwnShown, HandshakeTimeout, sessionVars
    <2> QED
      BY <2>3, <2>4, <2>5, <2>6, <2>7, <2>8 DEF TurnInv
  <1>8. CASE ConnectFails(c)
    <2>1. musicLink[Owner[c]] = None
      BY <1>1, <1>2 DEF Known, OwnLink, TurnInv, LinkedIsCurrent
    <2>3. OthersQuiet'
      BY <1>1, <1>2, <1>3, ConnAssumption, NoneAssumption, <1>8, <2>1 DEF Known, Inv, TypeOK, TurnInv, OthersQuiet, ConnsOf, Quiet, ConnectFails, TellEnded
    <2>4. LetGoTold'
      BY <1>1, <1>2, <1>3, ConnAssumption, NoneAssumption, <1>8, <2>1 DEF Known, Inv, TypeOK, TurnInv, LetGoTold, ConnectFails, TellEnded
    <2>5. ClientOfAttempt'
      BY <1>1, <1>2, <1>3, ConnAssumption, NoneAssumption, <1>8, <2>1 DEF Known, Inv, TypeOK, TurnInv, ClientOfAttempt, ConnectFails, TellEnded
    <2>6. LinkedIsCurrent'
      BY <1>1, <1>2, <1>3, ConnAssumption, NoneAssumption, <1>8, <2>1 DEF Known, Inv, TypeOK, TurnInv, LinkedIsCurrent, ConnectFails, TellEnded
    <2>7. ShownRight'
      BY <1>1, <1>2, <1>3, ConnAssumption, NoneAssumption, <1>8, <2>1 DEF Known, Inv, TypeOK, TurnInv, ShownRight, Expelled, ConnectFails, TellEnded
    <2>8. OwnShown'
      BY <1>1, <1>2, <1>3, ConnAssumption, NoneAssumption, <1>8, <2>1 DEF Known, Inv, TypeOK, TurnInv, OwnShown, ConnectFails, TellEnded
    <2> QED
      BY <2>3, <2>4, <2>5, <2>6, <2>7, <2>8 DEF TurnInv
  <1>9. CASE Subscribed(c)
    <2>3. OthersQuiet'
      BY <1>1, <1>2, <1>3, ConnAssumption, NoneAssumption, <1>9 DEF Known, Inv, TypeOK, TurnInv, OthersQuiet, ConnsOf, Quiet, Subscribed, ConnectReturns
    <2>4. LetGoTold'
      BY <1>1, <1>2, <1>3, ConnAssumption, NoneAssumption, <1>9 DEF Known, Inv, TypeOK, TurnInv, LetGoTold, Subscribed, ConnectReturns
    <2>5. ClientOfAttempt'
      BY <1>1, <1>2, <1>3, ConnAssumption, NoneAssumption, <1>9 DEF Known, Inv, TypeOK, TurnInv, ClientOfAttempt, Subscribed, ConnectReturns
    <2>6. LinkedIsCurrent'
      BY <1>1, <1>2, <1>3, ConnAssumption, NoneAssumption, <1>9 DEF Known, Inv, TypeOK, TurnInv, LinkedIsCurrent, Subscribed, ConnectReturns
    <2>7. ShownRight'
      BY <1>1, <1>2, <1>3, ConnAssumption, NoneAssumption, <1>9 DEF Known, Inv, TypeOK, TurnInv, ShownRight, Expelled, OwnShown, OwnCurrent, LetGoTold, Subscribed, ConnectReturns
    <2>8. OwnShown'
      BY <1>1, <1>2, <1>3, ConnAssumption, NoneAssumption, <1>9 DEF Known, Inv, TypeOK, TurnInv, OwnShown, Subscribed, ConnectReturns
    <2> QED
      BY <2>3, <2>4, <2>5, <2>6, <2>7, <2>8 DEF TurnInv
  <1> QED
    BY <1>4, <1>5, <1>6, <1>7, <1>8, <1>9 DEF ConnectStep

\* the server moves, kicks or bans the client,
LEMMA MovedTurn ==
  ASSUME Known, TurnInv, NEW c \in Conn, SelfMoved(c) \/ Kicked(c) \/ SelfBanned(c)
  PROVE  TurnInv'
  <1>1. CASE SelfMoved(c)
    BY <1>1 DEF SelfMoved, TurnInv, OthersQuiet, ConnsOf, Quiet, LetGoTold, ClientOfAttempt,
                LinkedIsCurrent, ShownRight, Expelled, OwnShown
  <1>2. CASE Kicked(c) \/ SelfBanned(c)
    <2>1. cur[Owner[c]] \in {None, c} /\ Owner[c] \in Session /\ c # None
      BY <1>2, Alone, ConnAssumption, NoneAssumption
      DEF Kicked, SelfBanned, Known, Inv, IdleIsUnused
    <2>2. tries[c] # 0 /\ pc[c] \notin {"idle", "resolve", "slot", "delay"}
      BY <1>2 DEF Kicked, SelfBanned, TurnInv, ClientOfAttempt
    <2>3. /\ UNCHANGED <<cur, closed, musicLink, pc, tsClosed, tries, attach>>
          /\ shown' = [shown EXCEPT ![Owner[c]] = None]
          /\ \/ client' = [client EXCEPT ![c] = "kicked"] /\ closing' = closing
             \/ /\ client' = [client EXCEPT ![c] = "closing"]
                /\ closing' = [closing EXCEPT ![c] = @ \cup {"ban"}]
      BY <1>2 DEF Kicked, SelfBanned, TellEnded
    <2>10. OthersQuiet'
      BY <2>1, <2>3, ConnAssumption, NoneAssumption
      DEF Known, Inv, TypeOK, TurnInv, OthersQuiet, ConnsOf, Quiet
    <2>11. LetGoTold'
      BY <2>3 DEF Known, Inv, TypeOK, TurnInv, LetGoTold
    <2>12. ClientOfAttempt'
      BY <2>2, <2>3 DEF Known, Inv, TypeOK, TurnInv, ClientOfAttempt
    <2>13. LinkedIsCurrent'
      BY <2>3 DEF TurnInv, LinkedIsCurrent
    <2>14. ShownRight'
      <3> SUFFICES ASSUME NEW s \in Session, ~closed[s]
                   PROVE  /\ cur[s] # None /\ pc[cur[s]] = "returned" =>
                                shown'[s] = cur[s] \/ Expelled(cur[s])'
                          /\ shown'[s] # None /\ cur[s] # shown'[s] =>
                                "user" \in closing'[shown'[s]]
        BY <2>3 DEF ShownRight
      <3>1. CASE s = Owner[c]
        <4>1. shown'[s] = None /\ Expelled(c)'
          BY <2>3, <3>1 DEF Known, Inv, TypeOK, Expelled
        <4> QED
          BY <2>1, <2>3, <3>1, <4>1
      <3>2. CASE s # Owner[c]
        <4>1. /\ shown'[s] = shown[s] /\ cur[s] # c
              /\ shown[s] # None => shown[s] \in Conn
              /\ cur[s] # None => cur[s] \in Conn
          BY <2>1, <2>3, <3>2 DEF Known, Inv, TypeOK, OwnCurrent
        <4>2. shown[s] # c
          BY <2>1, <3>2 DEF TurnInv, OwnShown
        <4>3. \A d \in Conn : d # c => client'[d] = client[d] /\ closing'[d] = closing[d]
          BY <2>3 DEF Known, Inv, TypeOK
        <4> QED
          BY <2>3, <4>1, <4>2, <4>3 DEF TurnInv, ShownRight, Expelled
      <3> QED
        BY <3>1, <3>2
    <2>15. OwnShown'
      BY <2>1, <2>3 DEF Known, Inv, TypeOK, TurnInv, OwnShown
    <2> QED
      BY <2>10, <2>11, <2>12, <2>13, <2>14, <2>15 DEF TurnInv
  <1> QED
    BY <1>1, <1>2

\* the client ends,
LEMMA ClientGoneTurn ==
  ASSUME Known, TurnInv, NEW c \in Conn, ClientGone(c)
  PROVE  TurnInv'
  <1>1. Owner[c] \in Session /\ c # None /\ pc[c] # "idle"
    BY ConnAssumption, NoneAssumption DEF ClientGone, Known, Inv, IdleIsUnused
  <1>2. /\ client[c] \in {"live", "closing", "kicked"} /\ client' = [client EXCEPT ![c] = "gone"]
        /\ UNCHANGED <<closed, pc, tries, closing, attach>>
    BY DEF ClientGone
  <1>3. CASE tsClosed[c]
    <2>1. UNCHANGED <<tsClosed, cur, musicLink, shown>>
      BY <1>3 DEF ClientGone, Finish, TellFinished
    <2>10. OthersQuiet'
      BY <1>1, <1>2, <1>3, <2>1, ConnAssumption, NoneAssumption
      DEF Known, Inv, TypeOK, TurnInv, OthersQuiet, ConnsOf, Quiet, IdleIsUnused
    <2>11. LetGoTold'
      BY <1>1, <1>2, <1>3, <2>1, ConnAssumption, NoneAssumption
      DEF Known, Inv, TypeOK, TurnInv, LetGoTold, IdleIsUnused
    <2>12. ClientOfAttempt'
      BY <1>1, <1>2, <1>3, <2>1, ConnAssumption, NoneAssumption
      DEF Known, Inv, TypeOK, TurnInv, ClientOfAttempt, IdleIsUnused
    <2>13. LinkedIsCurrent'
      BY <1>1, <1>2, <1>3, <2>1, ConnAssumption, NoneAssumption
      DEF Known, Inv, TypeOK, TurnInv, LinkedIsCurrent, IdleIsUnused
    <2>14. ShownRight'
      BY <1>1, <1>2, <1>3, <2>1, ConnAssumption, NoneAssumption
      DEF Known, Inv, TypeOK, TurnInv, ShownRight, Expelled, OwnShown, OwnCurrent, LetGoTold, OthersQuiet, ConnsOf, Quiet, IdleIsUnused
    <2>15. OwnShown'
      BY <1>1, <1>2, <1>3, <2>1, ConnAssumption, NoneAssumption
      DEF Known, Inv, TypeOK, TurnInv, OwnShown, IdleIsUnused
    <2> QED
      BY <2>10, <2>11, <2>12, <2>13, <2>14, <2>15 DEF TurnInv
  <1>4. CASE ~tsClosed[c] /\ cur[Owner[c]] = c
    <2>1. /\ tsClosed' = [tsClosed EXCEPT ![c] = TRUE]
          /\ cur' = [cur EXCEPT ![Owner[c]] = None]
          /\ musicLink' = [musicLink EXCEPT ![Owner[c]] = None]
          /\ shown' = [shown EXCEPT ![Owner[c]] = None]
      BY <1>4 DEF ClientGone, Finish, TellFinished, TellEnded, DetachMusic
    <2>10. OthersQuiet'
      BY <1>1, <1>2, <1>4, <2>1, ConnAssumption, NoneAssumption
      DEF Known, Inv, TypeOK, TurnInv, OthersQuiet, ConnsOf, Quiet, IdleIsUnused
    <2>11. LetGoTold'
      BY <1>1, <1>2, <1>4, <2>1, ConnAssumption, NoneAssumption
      DEF Known, Inv, TypeOK, TurnInv, LetGoTold, IdleIsUnused
    <2>12. ClientOfAttempt'
      BY <1>1, <1>2, <1>4, <2>1, ConnAssumption, NoneAssumption
      DEF Known, Inv, TypeOK, TurnInv, ClientOfAttempt, IdleIsUnused
    <2>13. LinkedIsCurrent'
      BY <1>1, <1>2, <1>4, <2>1, ConnAssumption, NoneAssumption
      DEF Known, Inv, TypeOK, TurnInv, LinkedIsCurrent, IdleIsUnused
    <2>14. ShownRight'
      BY <1>1, <1>2, <1>4, <2>1, ConnAssumption, NoneAssumption
      DEF Known, Inv, TypeOK, TurnInv, ShownRight, Expelled, OwnShown, OwnCurrent, LetGoTold, OthersQuiet, ConnsOf, Quiet, IdleIsUnused
    <2>15. OwnShown'
      BY <1>1, <1>2, <1>4, <2>1, ConnAssumption, NoneAssumption
      DEF Known, Inv, TypeOK, TurnInv, OwnShown, IdleIsUnused
    <2> QED
      BY <2>10, <2>11, <2>12, <2>13, <2>14, <2>15 DEF TurnInv
  <1>5. CASE ~tsClosed[c] /\ cur[Owner[c]] # c
    <2>1. tsClosed' = [tsClosed EXCEPT ![c] = TRUE] /\ UNCHANGED <<cur, musicLink, shown>>
      BY <1>5 DEF ClientGone, Finish, TellFinished
    <2>10. OthersQuiet'
      BY <1>1, <1>2, <1>5, <2>1, ConnAssumption, NoneAssumption
      DEF Known, Inv, TypeOK, TurnInv, OthersQuiet, ConnsOf, Quiet, IdleIsUnused
    <2>11. LetGoTold'
      BY <1>1, <1>2, <1>5, <2>1, ConnAssumption, NoneAssumption
      DEF Known, Inv, TypeOK, TurnInv, LetGoTold, IdleIsUnused
    <2>12. ClientOfAttempt'
      BY <1>1, <1>2, <1>5, <2>1, ConnAssumption, NoneAssumption
      DEF Known, Inv, TypeOK, TurnInv, ClientOfAttempt, IdleIsUnused
    <2>13. LinkedIsCurrent'
      BY <1>1, <1>2, <1>5, <2>1, ConnAssumption, NoneAssumption
      DEF Known, Inv, TypeOK, TurnInv, LinkedIsCurrent, IdleIsUnused
    <2>14. ShownRight'
      BY <1>1, <1>2, <1>5, <2>1, ConnAssumption, NoneAssumption
      DEF Known, Inv, TypeOK, TurnInv, ShownRight, Expelled, OwnShown, OwnCurrent, LetGoTold, OthersQuiet, ConnsOf, Quiet, IdleIsUnused
    <2>15. OwnShown'
      BY <1>1, <1>2, <1>5, <2>1, ConnAssumption, NoneAssumption
      DEF Known, Inv, TypeOK, TurnInv, OwnShown, IdleIsUnused
    <2> QED
      BY <2>10, <2>11, <2>12, <2>13, <2>14, <2>15 DEF TurnInv
  <1> QED
    BY <1>3, <1>4, <1>5

\* a goodbye comes back,
LEMMA GoodbyeTurn ==
  ASSUME Known, TurnInv, NEW c \in Conn, NEW by \in Closers, GoodbyeDone(c, by)
  PROVE  TurnInv'
  <1>1. cur[Owner[c]] \in {None, c} /\ Owner[c] \in Session /\ c # None
    BY Alone, ConnAssumption, NoneAssumption DEF GoodbyeDone, Quiet
  <1>2. /\ by \in closing[c] /\ closing' = [closing EXCEPT ![c] = @ \ {by}]
        /\ client' = [client EXCEPT ![c] = IF @ \in {"closing", "kicked"} THEN "gone" ELSE @]
        /\ UNCHANGED <<closed, pc, tries, attach>>
    BY DEF GoodbyeDone
  <1>3. /\ tsClosed' = [tsClosed EXCEPT ![c] = TRUE]
        /\ cur' = [cur EXCEPT ![Owner[c]] = None]
        /\ cur[Owner[c]] = c => musicLink' = [musicLink EXCEPT ![Owner[c]] = None]
        /\ cur[Owner[c]] # c => musicLink' = musicLink
    BY <1>1 DEF GoodbyeDone, Finish, DetachMusic, Known, Inv, TypeOK, OwnCurrent
  <1>4. /\ by = "user" \/ cur[Owner[c]] = c => shown' = [shown EXCEPT ![Owner[c]] = None]
        /\ by # "user" /\ cur[Owner[c]] # c => shown' = shown
    BY <1>1 DEF GoodbyeDone, TellEnded, TellFinished, Known, Inv, OwnCurrent
  <1>10. OthersQuiet'
    BY <1>1, <1>2, <1>3, <1>4, ConnAssumption, NoneAssumption
    DEF Known, Inv, TypeOK, TurnInv, OthersQuiet, ConnsOf, Quiet, IdleIsUnused
  <1>11. LetGoTold'
    BY <1>1, <1>2, <1>3, <1>4, ConnAssumption, NoneAssumption
    DEF Known, Inv, TypeOK, TurnInv, LetGoTold, IdleIsUnused
  <1>12. ClientOfAttempt'
    BY <1>1, <1>2, <1>3, <1>4, ConnAssumption, NoneAssumption
    DEF Known, Inv, TypeOK, TurnInv, ClientOfAttempt, IdleIsUnused
  <1>13. LinkedIsCurrent'
    BY <1>1, <1>2, <1>3, <1>4, ConnAssumption, NoneAssumption
    DEF Known, Inv, TypeOK, TurnInv, LinkedIsCurrent, IdleIsUnused
  <1>14. ShownRight'
    BY <1>1, <1>2, <1>3, <1>4, ConnAssumption, NoneAssumption
    DEF Known, Inv, TypeOK, TurnInv, ShownRight, Expelled, OwnShown, OwnCurrent, LetGoTold, OthersQuiet, ConnsOf, Quiet, IdleIsUnused
  <1>15. OwnShown'
    BY <1>1, <1>2, <1>3, <1>4, ConnAssumption, NoneAssumption
    DEF Known, Inv, TypeOK, TurnInv, OwnShown, IdleIsUnused
  <1> QED
    BY <1>10, <1>11, <1>12, <1>13, <1>14, <1>15 DEF TurnInv

\* the music bot is vetted or acquired,
LEMMA MusicTurn ==
  ASSUME Known, TurnInv, NEW c \in Conn, Vetted(c) \/ Acquired(c)
  PROVE  TurnInv'
  <1>1. /\ cur[Owner[c]] \in {None, c} /\ Owner[c] \in Session /\ c # None
    BY Alone, ConnAssumption, NoneAssumption DEF Vetted, Acquired, Quiet
  <1>2. /\ attach[c] # "none"
        /\ UNCHANGED <<cur, closed, shown, pc, tsClosed, client, tries, closing>>
        /\ attach' \in [Conn -> AttachStates] => \A d \in Conn : d # c => attach'[d] = attach[d]
        /\ \/ UNCHANGED musicLink
           \/ cur[Owner[c]] # None /\ musicLink' = [musicLink EXCEPT ![Owner[c]] = c]
    BY DEF Vetted, Acquired, sessionVars, Known, Inv, TypeOK
  <1>10. OthersQuiet'
    BY <1>1, <1>2, ConnAssumption, NoneAssumption
    DEF Known, Inv, TypeOK, TurnInv, OthersQuiet, ConnsOf, Quiet, Vetted, Acquired
  <1>11. LetGoTold'
    BY <1>1, <1>2, ConnAssumption, NoneAssumption
    DEF Known, Inv, TypeOK, TurnInv, LetGoTold, Vetted, Acquired
  <1>12. ClientOfAttempt'
    BY <1>1, <1>2, ConnAssumption, NoneAssumption
    DEF Known, Inv, TypeOK, TurnInv, ClientOfAttempt, Vetted, Acquired
  <1>13. LinkedIsCurrent'
    BY <1>1, <1>2, ConnAssumption, NoneAssumption
    DEF Known, Inv, TypeOK, TurnInv, LinkedIsCurrent, Vetted, Acquired
  <1>14. ShownRight'
    BY <1>1, <1>2, ConnAssumption, NoneAssumption
    DEF Known, Inv, TypeOK, TurnInv, ShownRight, Expelled, OwnShown, OwnCurrent, LetGoTold, OthersQuiet, ConnsOf, Quiet, Vetted, Acquired
  <1>15. OwnShown'
    BY <1>1, <1>2, ConnAssumption, NoneAssumption
    DEF Known, Inv, TypeOK, TurnInv, OwnShown, Vetted, Acquired
  <1> QED
    BY <1>10, <1>11, <1>12, <1>13, <1>14, <1>15 DEF TurnInv

\* the page disconnects or goes.
LEMMA LetGoTurn ==
  ASSUME Known, TurnInv, NEW s \in Session, UserDisconnect(s) \/ Dispose(s)
  PROVE  TurnInv'
  <1>1. /\ ~closed[s] /\ UNCHANGED <<pc, tries, attach>>
        /\ cur' = [cur EXCEPT ![s] = None] /\ musicLink' = [musicLink EXCEPT ![s] = None]
        /\ \A t \in Session : t # s => closed'[t] = closed[t]
    BY DEF UserDisconnect, Dispose, DropTs, DetachMusic, Known, Inv, TypeOK
  <1>2. CASE cur[s] = None
    <2>1. musicLink[s] = None
      BY <1>2 DEF TurnInv, LinkedIsCurrent, Known, Inv, TypeOK
    <2>2. Dispose(s)
      BY <1>2, <2>1 DEF UserDisconnect
    <2>3. /\ closed' = [closed EXCEPT ![s] = TRUE] /\ shown' = shown
          /\ tsClosed' = tsClosed /\ client' = client /\ closing' = closing
      BY <1>2, <2>2, NoneAssumption DEF Dispose, BeginDisconnect, Known, Inv, TypeOK
    <2>4. cur' = cur /\ musicLink' = musicLink
      BY <1>1, <1>2, <2>1 DEF Known, Inv, TypeOK
    <2>10. OthersQuiet'
      BY <1>1, <2>3, <2>4, ConnAssumption, NoneAssumption
      DEF Known, Inv, TypeOK, TurnInv, OthersQuiet, ConnsOf, Quiet
    <2>11. LetGoTold'
      BY <1>1, <2>3, <2>4, ConnAssumption, NoneAssumption
      DEF Known, Inv, TypeOK, TurnInv, LetGoTold
    <2>12. ClientOfAttempt'
      BY <1>1, <2>3, <2>4, ConnAssumption, NoneAssumption
      DEF Known, Inv, TypeOK, TurnInv, ClientOfAttempt
    <2>13. LinkedIsCurrent'
      BY <1>1, <2>3, <2>4, ConnAssumption, NoneAssumption
      DEF Known, Inv, TypeOK, TurnInv, LinkedIsCurrent
    <2>14. ShownRight'
      BY <1>1, <2>3, <2>4, ConnAssumption, NoneAssumption
      DEF Known, Inv, TypeOK, TurnInv, ShownRight, Expelled, OwnShown, OwnCurrent
    <2>15. OwnShown'
      BY <1>1, <2>3, <2>4, ConnAssumption, NoneAssumption
      DEF Known, Inv, TypeOK, TurnInv, OwnShown
    <2> QED
      BY <2>10, <2>11, <2>12, <2>13, <2>14, <2>15 DEF TurnInv
  <1>3. ASSUME NEW c \in Conn, c = cur[s]
        PROVE  TurnInv'
    <2>1. Owner[c] = s /\ c # None /\ pc[c] # "idle" /\ ~tsClosed[c]
      BY <1>3, NoneAssumption DEF Known, Inv, OwnCurrent
    <2>2. ASSUME NEW by \in {"user", "dispose"}, BeginDisconnect(c, by),
                 \A t \in Session : t # s => shown'[t] = shown[t],
                 shown'[s] \in {None, shown[s]},
                 closed'[s] \/ by = "user",
                 ~closed'[s] /\ client[c] = "none" => shown'[s] = None,
                 ~closed'[s] /\ client[c] # "none" => shown'[s] = shown[s]
          PROVE  TurnInv'
      <3>3. CASE client[c] = "none"
        <4>1. /\ tsClosed'[c] /\ \A d \in Conn : d # c => (tsClosed'[d] <=> tsClosed[d])
              /\ client' = client /\ closing' = closing
          BY <2>2, <3>3 DEF BeginDisconnect, Known, Inv, TypeOK
        <4>10. OthersQuiet'
          BY <1>1, <1>3, <2>1, <2>2, <3>3, <4>1, ConnAssumption, NoneAssumption
          DEF Known, Inv, TypeOK, TurnInv, OthersQuiet, ConnsOf, Quiet
        <4>11. LetGoTold'
          BY <1>1, <1>3, <2>1, <2>2, <3>3, <4>1, ConnAssumption, NoneAssumption
          DEF Known, Inv, TypeOK, TurnInv, LetGoTold
        <4>12. ClientOfAttempt'
          BY <1>1, <1>3, <2>1, <2>2, <3>3, <4>1, ConnAssumption, NoneAssumption
          DEF Known, Inv, TypeOK, TurnInv, ClientOfAttempt
        <4>13. LinkedIsCurrent'
          BY <1>1, <1>3, <2>1, <2>2, <3>3, <4>1, ConnAssumption, NoneAssumption
          DEF Known, Inv, TypeOK, TurnInv, LinkedIsCurrent
        <4>14. ShownRight'
          BY <1>1, <1>3, <2>1, <2>2, <3>3, <4>1, ConnAssumption, NoneAssumption
          DEF Known, Inv, TypeOK, TurnInv, ShownRight, Expelled, OwnShown, OwnCurrent
        <4>15. OwnShown'
          BY <1>1, <1>3, <2>1, <2>2, <3>3, <4>1, ConnAssumption, NoneAssumption
          DEF Known, Inv, TypeOK, TurnInv, OwnShown
        <4> QED
          BY <4>10, <4>11, <4>12, <4>13, <4>14, <4>15 DEF TurnInv
      <3>4. CASE client[c] # "none"
        <4>1. /\ \A d \in Conn : tsClosed'[d] <=> tsClosed[d]
              /\ client' = [client EXCEPT ![c] = IF @ = "live" THEN "closing" ELSE @]
              /\ closing' = [closing EXCEPT ![c] = @ \cup {by}]
          BY <2>2, <3>4 DEF BeginDisconnect, Known, Inv, TypeOK
        <4>2. tries[c] # 0
          BY <3>4 DEF TurnInv, ClientOfAttempt
        <4>10. OthersQuiet'
          BY <1>1, <1>3, <2>1, <2>2, <3>4, <4>1, <4>2, ConnAssumption, NoneAssumption
          DEF Known, Inv, TypeOK, TurnInv, OthersQuiet, ConnsOf, Quiet
        <4>11. LetGoTold'
          BY <1>1, <1>3, <2>1, <2>2, <3>4, <4>1, <4>2, ConnAssumption, NoneAssumption
          DEF Known, Inv, TypeOK, TurnInv, LetGoTold
        <4>12. ClientOfAttempt'
          BY <1>1, <1>3, <2>1, <2>2, <3>4, <4>1, <4>2, ConnAssumption, NoneAssumption
          DEF Known, Inv, TypeOK, TurnInv, ClientOfAttempt
        <4>13. LinkedIsCurrent'
          BY <1>1, <1>3, <2>1, <2>2, <3>4, <4>1, <4>2, ConnAssumption, NoneAssumption
          DEF Known, Inv, TypeOK, TurnInv, LinkedIsCurrent
        <4>14. ShownRight'
          BY <1>1, <1>3, <2>1, <2>2, <3>4, <4>1, <4>2, ConnAssumption, NoneAssumption
          DEF Known, Inv, TypeOK, TurnInv, ShownRight, Expelled, OwnShown, OwnCurrent
        <4>15. OwnShown'
          BY <1>1, <1>3, <2>1, <2>2, <3>4, <4>1, <4>2, ConnAssumption, NoneAssumption
          DEF Known, Inv, TypeOK, TurnInv, OwnShown
        <4> QED
          BY <4>10, <4>11, <4>12, <4>13, <4>14, <4>15 DEF TurnInv
      <3> QED
        BY <3>3, <3>4
    <2>3. CASE UserDisconnect(s)
      <3>1. /\ BeginDisconnect(c, "user") /\ closed' = closed
            /\ client[c] = "none" => shown' = [shown EXCEPT ![s] = None]
            /\ client[c] # "none" => shown' = shown
        BY <1>3, <2>1, <2>3 DEF UserDisconnect, TellEnded
      <3> QED
        BY <1>1, <2>2, <3>1 DEF Known, Inv, TypeOK
    <2>4. CASE Dispose(s)
      <3>1. BeginDisconnect(c, "dispose") /\ closed' = [closed EXCEPT ![s] = TRUE] /\ shown' = shown
        BY <1>3, <2>4 DEF Dispose
      <3>2. closed'[s]
        BY <3>1 DEF Known, Inv, TypeOK
      <3> QED
        BY <2>2, <3>1, <3>2 DEF Known, Inv, TypeOK
    <2> QED
      BY <2>3, <2>4
  <1> QED
    BY <1>2, <1>3 DEF Known, Inv, TypeOK

\* Together.
LEMMA TurnNext ==
  ASSUME Known, TurnInv, Next, InTurn
  PROVE  TurnInv'
  <1>1. CASE \E c \in Conn : Connect(c)
    BY <1>1, ConnectTurn
  <1>2. CASE \E c \in Conn : ConnectStep(c)
    BY <1>2, ConnectStepTurn
  <1>3. CASE \E c \in Conn : SelfMoved(c) \/ Kicked(c) \/ SelfBanned(c)
    BY <1>3, MovedTurn
  <1>4. CASE \E c \in Conn : ClientGone(c)
    BY <1>4, ClientGoneTurn
  <1>5. CASE \E c \in Conn, by \in Closers : GoodbyeDone(c, by)
    BY <1>5, GoodbyeTurn
  <1>6. CASE \E c \in Conn : Vetted(c) \/ Acquired(c)
    BY <1>6, MusicTurn
  <1>7. CASE \E s \in Session : UserDisconnect(s) \/ Dispose(s)
    BY <1>7, LetGoTurn
  <1> QED
    BY <1>1, <1>2, <1>3, <1>4, <1>5, <1>6, <1>7 DEF Next

\* The invariants of HubSession, behind either kind of page.
LEMMA PageKnown == PageSpec => []Known
  <1>1. PageInit => Init
    BY DEF PageInit
  <1>2. [PageNext]_<<vars, patient>> => [Next]_vars
    BY DEF PageNext
  <1>3. PageSpec => Spec
    BY <1>1, <1>2, PTL DEF PageSpec, Spec
  <1>4. Spec => []MusicInv
    BY InitMusic, NextMusic, TypeCorrect, PTL DEF Spec
  <1>5. Inv /\ MusicInv => Known
    BY DEF MusicInv, Known
  <1> QED
    BY <1>3, <1>4, <1>5, InvHolds, PTL

\* The invariant of both kinds of pages.
PatientInv == patient => TurnInv

\* It holds throughout.
LEMMA PatientHolds == PageSpec => []PatientInv
  <1>1. PageInit => PatientInv
    BY TurnInit DEF PageInit, PatientInv
  <1>2. Known /\ PatientInv /\ [PageNext]_<<vars, patient>> => PatientInv'
    <2> SUFFICES ASSUME Known, PatientInv, [PageNext]_<<vars, patient>>
                 PROVE  PatientInv'
      OBVIOUS
    <2>1. CASE PageNext
      BY <2>1, TurnNext DEF PageNext, PatientInv
    <2>2. CASE UNCHANGED <<vars, patient>>
      BY <2>2 DEF vars, PatientInv, TurnInv, OthersQuiet, ConnsOf, Quiet, LetGoTold,
                  ClientOfAttempt, LinkedIsCurrent, ShownRight, Expelled, OwnShown
    <2> QED
      BY <2>1, <2>2
  <1> QED
    BY <1>1, <1>2, PageKnown, PTL DEF PageSpec

\* A page that waits its turn has one driver client at most that nobody told to leave,
\* for any number of connections, while no handshake is tried again (Session.ts:5).
THEOREM OneClientInTurn == PageSpec => []OneConnectionInTurn
  <1>1. ASSUME TurnInv, NEW s \in Session, \A c \in Conn : tries[c] <= 1
        PROVE  OneClient(s)
    <2>1. {c \in ConnsOf(s) : client[c] = "live"} \subseteq {cur[s]}
      BY <1>1 DEF TurnInv, ClientOfAttempt, ConnsOf
    <2>2. IsFiniteSet({cur[s]}) /\ Cardinality({cur[s]}) = 1
      BY FS_Singleton
    <2>3. /\ Cardinality({c \in ConnsOf(s) : client[c] = "live"}) \in Nat
          /\ Cardinality({c \in ConnsOf(s) : client[c] = "live"}) <= 1
      BY <2>1, <2>2, FS_Subset, FS_CardinalityType
    <2> QED
      BY <2>3 DEF OneClient
  <1>2. PatientInv => OneConnectionInTurn
    BY <1>1 DEF PatientInv, OneConnectionInTurn, OneConnection
  <1> QED
    BY <1>2, PatientHolds, PTL

\* The bot its session is linked to is the current connection's (attachMusic).
THEOREM MusicFollows == PageSpec => []MusicOfCurrent
  <1>1. PatientInv => MusicOfCurrent
    BY DEF PatientInv, TurnInv, LinkedIsCurrent, MusicOfCurrent
  <1> QED
    BY <1>1, PatientHolds, PTL

\* What the page was told last of its connection is true, or about to be corrected.
THEOREM PageFollows == PageSpec => []PageShowsCurrent
  <1>1. PatientInv => PageShowsCurrent
    BY DEF PatientInv, TurnInv, ShownRight, Expelled, PageShowsCurrent
  <1> QED
    BY <1>1, PatientHolds, PTL

\* No late end of an earlier connection takes its session out of its room (onClosed).
THEOREM RoomKept == PageSpec => StaysInRoomInTurn
  <1>1. ASSUME Known, TurnInv, Next, NEW s \in Session, room[s] # None, room[s] = cur[s],
               cur'[s] = cur[s]
        PROVE  room'[s] = room[s]
    <2>1. \A c \in Conn : /\ Owner[c] \in Session
                          /\ Owner[c] = s /\ (~Quiet(c) \/ (~tsClosed[c] /\ pc[c] # "idle"))
                               => c = cur[s]
      BY <1>1, Alone, ConnAssumption
    <2>2. cur \in [Session -> Conn \cup {None}] /\ room \in [Session -> Conn \cup {None}]
      BY <1>1 DEF Known, Inv, TypeOK
    <2>3. CASE \E c \in Conn : Connect(c) \/ NextAttempt(c) \/ Dial(c) \/ HandshakeDone(c)
                               \/ HandshakeTimeout(c) \/ Kicked(c) \/ SelfBanned(c)
                               \/ Vetted(c) \/ Acquired(c)
      BY <2>3 DEF Connect, NextAttempt, Dial, HandshakeDone, HandshakeTimeout, Kicked,
                  SelfBanned, Vetted, Acquired, sessionVars
    <2>4. ASSUME NEW c \in Conn, ConnectFails(c)
          PROVE  room'[s] = room[s]
      BY <1>1, <2>1, <2>2, <2>4 DEF ConnectFails
    <2>5. ASSUME NEW c \in Conn, Subscribed(c)
          PROVE  room'[s] = room[s]
      BY <1>1, <2>1, <2>2, <2>5 DEF Subscribed, Quiet
    <2>6. ASSUME NEW c \in Conn, SelfMoved(c)
          PROVE  room'[s] = room[s]
      BY <1>1, <2>1, <2>2, <2>6 DEF SelfMoved
    <2>7. ASSUME NEW c \in Conn, NEW by \in Closers, ClientGone(c) \/ GoodbyeDone(c, by)
          PROVE  room'[s] = room[s]
      <3>1. pc[c] # "idle"
        BY <1>1, <2>7 DEF ClientGone, GoodbyeDone, Known, Inv, IdleIsUnused
      <3>2. Finish(c)
        BY <2>7 DEF ClientGone, GoodbyeDone
      <3> QED
        BY <1>1, <2>1, <2>2, <3>1, <3>2 DEF Finish
    <2>8. ASSUME NEW t \in Session, UserDisconnect(t) \/ Dispose(t)
          PROVE  room'[s] = room[s]
      <3>1. cur' = [cur EXCEPT ![t] = None]
        BY <2>8 DEF UserDisconnect, Dispose, DropTs
      <3>2. t # s
        BY <1>1, <2>2, <3>1
      <3> QED
        BY <2>2, <2>8, <3>2 DEF UserDisconnect, Dispose
    <2> QED
      BY <1>1, <2>3, <2>4, <2>5, <2>6, <2>7, <2>8, "user" \in Closers DEF Next, ConnectStep, Closers
  <1>2. Known /\ PatientInv /\ [PageNext]_<<vars, patient>>
          => [patient => \A s \in Session : Stays(s)]_vars
    BY <1>1 DEF PatientInv, PageNext, Stays, vars
  <1> QED
    BY <1>2, PageKnown, PatientHolds, PTL DEF PageSpec, StaysInRoomInTurn
=============================================================================
