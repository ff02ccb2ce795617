------------------------------ MODULE PageLink ------------------------------
(***************************************************************************)
(* The page's link to the hub and the connection it keeps wanting over it. *)
(*                                                                         *)
(* ts/connection.ts dials a websocket and redials it when it drops;        *)
(* stores/ts.ts replays the connect request on a fresh link, retries a     *)
(* few times when TeamSpeak drops the connection, and follows what the hub *)
(* says; ts/commands.ts promises an answer to each command.  The user      *)
(* submits the form, clicks Reconnect and Disconnect as the page offers    *)
(* them (ConnectDialog.vue, App.vue, StatusBar.vue).                       *)
(*                                                                         *)
(* Each websocket carries two FIFO channels, and meets a hub session of    *)
(* its own (session/Session.ts): what was in flight goes with it.  Of the  *)
(* session the model keeps what it answers; how it unwinds connections     *)
(* that overlap is HubSession's matter.                                    *)
(***************************************************************************)
EXTENDS Naturals, Sequences, FiniteSets

CONSTANTS
  Req,         \* connect requests (servers) the user submits
  Cmd,         \* commands of the page, each asked for once
  None,        \* null
  Retries,     \* RETRY_ATTEMPTS
  MaxOutstanding \* bound: a hasty user acts while less than this is outstanding

ASSUME LinkAssumption ==
  /\ None \notin Req \cup Cmd
  /\ Retries \in Nat
  /\ MaxOutstanding \in Nat \ {0}

VARIABLES
  hasty,     \* the environment's: does the user act on what may no longer be true?
  link,      \* HubConnection.state
  wanted,    \* HubConnection.wanted
  redial,    \* HubConnection.retryTimer is set
  twice,     \* history: did the link open with both a replay and a submit?
  conn,      \* connState
  want,      \* wantConnected
  last,      \* lastRequest
  timer,     \* RetryScheduler.timer is set
  used,      \* RetryScheduler.used
  err,       \* lastError # null: the banner shows what went wrong
  asked,     \* the request whose submit awaits hub.open()
  call,      \* TsCommandClient: what became of each command
  up, down,  \* messages to the hub, and to the page
  ts,        \* Session.ts: none, or how far it is
  target,    \* the request it was made for
  leaving,   \* connections of the session that say goodbye for the user
  jobs       \* commands the hub works on

pageVars == <<conn, want, last, timer, used, err>>
linkVars == <<link, wanted, redial, twice>>
hubVars == <<ts, target, leaving, jobs>>
vars == <<hasty, link, wanted, redial, twice, conn, want, last, timer, used, err, asked,
          call, up, down, ts, target, leaving, jobs>>

Msg(kind, x) == [kind |-> kind, of |-> x]
UpMsgs == {Msg("connect", r) : r \in Req} \cup {Msg("disconnect", None)}
            \cup {Msg("cmd", c) : c \in Cmd}
DownMsgs == {Msg(k, None) : k \in {"connecting", "connected", "snapshot", "refused",
                                   "fatal", "dropped", "bye"}}
              \cup {Msg("result", c) : c \in Cmd}

LinkTypeOK ==
  /\ hasty \in BOOLEAN
  /\ link \in {"closed", "connecting", "open"}
  /\ wanted \in BOOLEAN /\ redial \in BOOLEAN /\ twice \in BOOLEAN
  /\ conn \in {"idle", "connecting", "connected"}
  /\ want \in BOOLEAN
  /\ last \in Req \cup {None} /\ asked \in Req \cup {None}
  /\ timer \in BOOLEAN /\ used \in 0..Retries /\ err \in BOOLEAN
  /\ call \in [Cmd -> {"idle", "pending", "ok", "failed"}]
  /\ up \in Seq(UpMsgs) /\ down \in Seq(DownMsgs)
  /\ ts \in {"none", "resolving", "dialling", "up", "ending"}
  /\ target \in Req \cup {None}
  /\ leaving \in Nat
  /\ jobs \subseteq Cmd

Init ==
  /\ hasty \in BOOLEAN
  /\ link = "closed" /\ wanted = FALSE /\ redial = FALSE /\ twice = FALSE
  /\ conn = "idle" /\ want = FALSE /\ last = None
  /\ timer = FALSE /\ used = 0 /\ err = FALSE /\ asked = None
  /\ call = [c \in Cmd |-> "idle"]
  /\ up = <<>> /\ down = <<>>
  /\ ts = "none" /\ target = None /\ leaving = 0 /\ jobs = {}

-----------------------------------------------------------------------------
(* The pieces the handlers share.                                          *)

\* HubConnection.send: into the socket if it is open, else nowhere.
Send(m) == up' = IF link = "open" THEN Append(up, m) ELSE up

\* HubConnection.open up to its await.
OpenHub ==
  /\ wanted' = TRUE
  /\ link' = IF link = "closed" THEN "connecting" ELSE link

\* clearRetry
ClearRetry == timer' = FALSE /\ used' = 0

\* scheduleRetry: a timer that runs is left alone, a spent budget stays spent.
ScheduleRetry ==
  /\ timer' = (timer \/ used < Retries)
  /\ used' = IF ~timer /\ used < Retries THEN used + 1 ELSE used

\* TsCommandClient.failAll
FailAll == call' = [c \in Cmd |-> IF call[c] = "pending" THEN "failed" ELSE call[c]]

\* The session answers while its socket lives.
Tell(m) == down' = Append(down, m)

\* What one side has said, or is about to say, and the other does not know yet.
Outstanding == Len(up) + Len(down) + leaving + IF ts = "ending" THEN 1 ELSE 0

\* A user who is not hasty acts on what is still true.
UserMay == IF hasty THEN Outstanding < MaxOutstanding ELSE Outstanding = 0

-----------------------------------------------------------------------------
(* The link.                                                               *)

\* App start, or the hub's password was typed: hub.open().
OpenPage ==
  /\ ~wanted
  /\ OpenHub
  /\ UNCHANGED <<hasty, redial, twice, pageVars, asked, call, up, down, hubVars>>

\* The websocket opens, to a fresh hub session.  The store's listener replays
\* the last request; then a submit that awaited the link goes on with its own.
LinkOpens ==
  LET replay == want /\ last # None
      replayed == IF replay THEN <<Msg("connect", last)>> ELSE <<>>
  IN
  /\ link = "connecting"
  /\ link' = "open"
  /\ IF asked # None
     THEN /\ up' = Append(replayed, Msg("connect", asked))
          /\ last' = asked /\ want' = TRUE /\ conn' = "connecting"
          /\ ClearRetry
     ELSE /\ up' = replayed
          /\ conn' = IF replay THEN "connecting" ELSE conn
          /\ UNCHANGED <<want, last, timer, used>>
  /\ err' = (err /\ ~replay)
  /\ twice' = (replay /\ asked # None)
  /\ asked' = None
  /\ down' = <<>>
  /\ ts' = "none" /\ target' = None /\ leaving' = 0 /\ jobs' = {}
  /\ UNCHANGED <<hasty, wanted, redial, call>>

\* (Mutant: a link that closes leaves the page's view as it was.)
LinkClosesQuietly(unauthorized) ==
  /\ link \in {"connecting", "open"}
  /\ unauthorized => link = "open"
  /\ link' = "closed"
  /\ wanted' = (wanted /\ ~unauthorized)
  /\ redial' = (redial \/ ~unauthorized)
  /\ twice' = FALSE
  /\ want' = (want /\ ~unauthorized)
  /\ ClearRetry
  /\ FailAll
  /\ asked' = None
  /\ up' = <<>> /\ down' = <<>>
  /\ ts' = "none" /\ target' = None /\ leaving' = 0 /\ jobs' = {}
  /\ UNCHANGED <<hasty, conn, last, err>>

\* (Mutant: the commands in flight are left to their timers.)
LinkClosesKeepingCalls(unauthorized) ==
  /\ link \in {"connecting", "open"}
  /\ unauthorized => link = "open"
  /\ link' = "closed"
  /\ wanted' = (wanted /\ ~unauthorized)
  /\ redial' = (redial \/ ~unauthorized)
  /\ twice' = FALSE
  /\ want' = (want /\ ~unauthorized)
  /\ conn' = "idle"
  /\ ClearRetry
  /\ asked' = None
  /\ up' = <<>> /\ down' = <<>>
  /\ ts' = "none" /\ target' = None /\ leaving' = 0 /\ jobs' = {}
  /\ UNCHANGED <<hasty, last, call, err>>

\* The socket closes, or could not be opened: the store forgets the server, the
\* link redials after a while; not when the hub asks for its password, which it
\* does after the handshake.  The hub disposes the session.
LinkCloses(unauthorized) ==
  /\ link \in {"connecting", "open"}
  /\ unauthorized => link = "open"
  /\ link' = "closed"
  /\ wanted' = (wanted /\ ~unauthorized)
  /\ redial' = (redial \/ ~unauthorized)
  /\ twice' = FALSE
  /\ want' = (want /\ ~unauthorized)
  /\ conn' = "idle"
  /\ err' = (err \/ (~unauthorized /\ conn # "idle"))
  /\ ClearRetry
  /\ FailAll
  /\ asked' = None
  /\ up' = <<>> /\ down' = <<>>
  /\ ts' = "none" /\ target' = None /\ leaving' = 0 /\ jobs' = {}
  /\ UNCHANGED <<hasty, last>>

\* The backoff is over; an open() may have dialled meanwhile.
Redial ==
  /\ redial
  /\ redial' = FALSE
  /\ link' = IF wanted /\ link = "closed" THEN "connecting" ELSE link
  /\ UNCHANGED <<hasty, wanted, twice, pageVars, asked, call, up, down, hubVars>>

-----------------------------------------------------------------------------
(* The user, and the page's own retry.                                     *)

\* (Mutant: the retry's timer survives the form.)
SubmitKeepingRetry(r) ==
  /\ conn = "idle" /\ asked = None
  /\ UserMay
  /\ IF link = "open"
     THEN /\ Send(Msg("connect", r))
          /\ conn' = "connecting" /\ want' = TRUE /\ last' = r
          /\ UNCHANGED <<timer, used, asked, link, wanted>>
     ELSE /\ asked' = r
          /\ OpenHub
          /\ UNCHANGED <<up, conn, want, last, timer, used>>
  /\ err' = FALSE
  /\ UNCHANGED <<hasty, redial, twice, call, down, hubVars>>

\* The form is submitted: connect(), up to hub.open() when the link is down.
Submit(r) ==
  /\ conn = "idle" /\ asked = None
  /\ UserMay
  /\ IF link = "open"
     THEN /\ Send(Msg("connect", r))
          /\ conn' = "connecting" /\ want' = TRUE /\ last' = r
          /\ ClearRetry
          /\ UNCHANGED <<asked, link, wanted>>
     ELSE /\ asked' = r
          /\ OpenHub
          /\ UNCHANGED <<up, conn, want, last, timer, used>>
  /\ err' = FALSE
  /\ UNCHANGED <<hasty, redial, twice, call, down, hubVars>>

\* attemptReconnect
AttemptReconnect ==
  /\ conn' = "connecting" /\ err' = FALSE
  /\ Send(Msg("connect", last))
  /\ IF link = "open" THEN UNCHANGED <<link, wanted>> ELSE OpenHub

\* The banner's button, offered on an open link with something to tell:
\* reconnect().
Reconnect ==
  /\ want /\ conn # "connected" /\ link = "open" /\ last # None
  /\ err \/ timer
  /\ UserMay
  /\ ClearRetry
  /\ AttemptReconnect
  /\ UNCHANGED <<hasty, want, last, redial, twice, asked, call, down, hubVars>>

\* The retry's timer.
Retry ==
  /\ timer
  /\ timer' = FALSE
  /\ IF last # None /\ want
     THEN AttemptReconnect
     ELSE UNCHANGED <<conn, err, up, link, wanted>>
  /\ UNCHANGED <<hasty, want, last, used, redial, twice, asked, call, down, hubVars>>

\* disconnect(): the page stays as it is until the hub answers.
Disconnect ==
  /\ conn = "connected"
  /\ UserMay
  /\ want' = FALSE
  /\ ClearRetry
  /\ Send(Msg("disconnect", None))
  /\ UNCHANGED <<hasty, linkVars, conn, last, err, asked, call, down, hubVars>>

\* TsCommandClient.run: refused at once without a link.
Call(c) ==
  /\ call[c] = "idle"
  /\ UserMay
  /\ call' = [call EXCEPT ![c] = IF link = "open" THEN "pending" ELSE "failed"]
  /\ Send(Msg("cmd", c))
  /\ UNCHANGED <<hasty, linkVars, pageVars, asked, down, hubVars>>

\* The command's own timer.
CallTimeout(c) ==
  /\ call[c] = "pending"
  /\ call' = [call EXCEPT ![c] = "failed"]
  /\ UNCHANGED <<hasty, linkVars, pageVars, asked, up, down, hubVars>>

-----------------------------------------------------------------------------
(* What the hub says: apply().                                             *)

Takes(kind) ==
  /\ down # <<>>
  /\ Head(down).kind = kind
  /\ down' = Tail(down)

TakeConnecting ==
  /\ Takes("connecting")
  /\ conn' = "connecting"
  /\ UNCHANGED <<hasty, linkVars, want, last, timer, used, err, asked, call, up, hubVars>>

\* The server's host message may ask its guests to leave (stores/hostMessage.ts).
TakeConnected ==
  /\ Takes("connected")
  /\ \/ UNCHANGED <<want, timer, used, up>>
     \/ want' = FALSE /\ ClearRetry /\ Send(Msg("disconnect", None))
  /\ UNCHANGED <<hasty, linkVars, conn, last, err, asked, call, hubVars>>

TakeSnapshot ==
  /\ Takes("snapshot")
  /\ conn' = "connected"
  /\ ClearRetry
  /\ UNCHANGED <<hasty, linkVars, want, last, err, asked, call, up, hubVars>>

\* An error that is not fatal is only shown: already connected, rate limited.
TakeRefused ==
  /\ Takes("refused")
  /\ err' = TRUE
  /\ UNCHANGED <<hasty, linkVars, conn, want, last, timer, used, asked, call, up, hubVars>>

TakeFatal ==
  /\ Takes("fatal")
  /\ conn' = "idle" /\ want' = FALSE /\ err' = TRUE
  /\ ClearRetry
  /\ UNCHANGED <<hasty, linkVars, last, asked, call, up, hubVars>>

\* The connection ended by itself.
TakeDropped ==
  /\ Takes("dropped")
  /\ conn' = "idle"
  /\ IF want THEN ScheduleRetry /\ err' = TRUE ELSE UNCHANGED <<timer, used, err>>
  /\ FailAll
  /\ UNCHANGED <<hasty, linkVars, want, last, asked, up, hubVars>>

\* The connection ended as the user asked.
TakeBye ==
  /\ Takes("bye")
  /\ conn' = "idle" /\ want' = FALSE
  /\ ClearRetry
  /\ FailAll
  /\ UNCHANGED <<hasty, linkVars, last, err, asked, up, hubVars>>

\* A late answer has nobody left to tell.
TakeResult(c) ==
  /\ Takes("result")
  /\ Head(down).of = c
  /\ \E ok \in {"ok", "failed"} :
       call' = [call EXCEPT ![c] = IF @ = "pending" THEN ok ELSE @]
  /\ UNCHANGED <<hasty, linkVars, pageVars, asked, up, hubVars>>

-----------------------------------------------------------------------------
(* The hub session behind the socket.                                      *)

Hears(kind) ==
  /\ up # <<>>
  /\ Head(up).kind = kind
  /\ up' = Tail(up)

\* (Mutant: a connect that comes too often is dropped without a word.)
HubDropsConnect ==
  /\ Hears("connect")
  /\ \/ ts # "none" /\ Tell(Msg("refused", None)) /\ UNCHANGED <<ts, target>>
     \/ UNCHANGED <<down, ts, target>>
     \/ ts = "none" /\ Tell(Msg("fatal", None)) /\ UNCHANGED <<ts, target>>
     \/ /\ ts = "none"
        /\ ts' = "resolving" /\ target' = Head(up).of
        /\ UNCHANGED down
  /\ UNCHANGED <<hasty, linkVars, pageVars, asked, call, leaving, jobs>>

\* A connect message: refused while the session owns a connection or when it
\* comes too often; fatal when the hub may not serve that server.
HubConnects ==
  /\ Hears("connect")
  /\ \/ Tell(Msg("refused", None)) /\ UNCHANGED <<ts, target>>
     \/ ts = "none" /\ Tell(Msg("fatal", None)) /\ UNCHANGED <<ts, target>>
     \/ /\ ts = "none"
        /\ ts' = "resolving" /\ target' = Head(up).of
        /\ UNCHANGED down
  /\ UNCHANGED <<hasty, linkVars, pageVars, asked, call, leaving, jobs>>

\* A disconnect message: the connection is let go of, and says goodbye.
HubDisconnects ==
  /\ Hears("disconnect")
  /\ IF ts = "none"
     THEN UNCHANGED <<ts, target, leaving>>
     ELSE ts' = "none" /\ target' = None /\ leaving' = leaving + 1
  /\ UNCHANGED <<hasty, linkVars, pageVars, asked, call, down, jobs>>

HubGoodbye ==
  /\ leaving > 0
  /\ leaving' = leaving - 1
  /\ Tell(Msg("bye", None))
  /\ UNCHANGED <<hasty, linkVars, pageVars, asked, call, up, ts, target, jobs>>

HubDials ==
  /\ ts = "resolving"
  /\ ts' = "dialling"
  /\ Tell(Msg("connecting", None))
  /\ UNCHANGED <<hasty, linkVars, pageVars, asked, call, up, target, leaving, jobs>>

HubUp ==
  /\ ts = "dialling"
  /\ ts' = "up"
  /\ down' = down \o <<Msg("connected", None), Msg("snapshot", None)>>
  /\ UNCHANGED <<hasty, linkVars, pageVars, asked, call, up, target, leaving, jobs>>

HubFails ==
  /\ ts \in {"resolving", "dialling"}
  /\ ts' = "none" /\ target' = None
  /\ Tell(Msg("fatal", None))
  /\ UNCHANGED <<hasty, linkVars, pageVars, asked, call, up, leaving, jobs>>

\* Kicked or banned: the page is told why, then that the connection is gone.
HubKicked ==
  /\ ts = "up"
  /\ ts' = "ending"
  /\ Tell(Msg("fatal", None))
  /\ UNCHANGED <<hasty, linkVars, pageVars, asked, call, up, target, leaving, jobs>>

HubDropped ==
  /\ ts \in {"up", "ending"}
  /\ ts' = "none" /\ target' = None
  /\ Tell(Msg("dropped", None))
  /\ UNCHANGED <<hasty, linkVars, pageVars, asked, call, up, leaving, jobs>>

HubTakesCmd ==
  /\ Hears("cmd")
  /\ jobs' = jobs \cup {Head(up).of}
  /\ UNCHANGED <<hasty, linkVars, pageVars, asked, call, down, ts, target, leaving>>

HubAnswers(c) ==
  /\ c \in jobs
  /\ jobs' = jobs \ {c}
  /\ Tell(Msg("result", c))
  /\ UNCHANGED <<hasty, linkVars, pageVars, asked, call, up, ts, target, leaving>>

-----------------------------------------------------------------------------
PageTakes ==
  \/ TakeConnecting \/ TakeConnected \/ TakeSnapshot \/ TakeRefused
  \/ TakeFatal \/ TakeDropped \/ TakeBye
  \/ \E c \in Cmd : TakeResult(c)
HubStep ==
  \/ HubConnects \/ HubDisconnects \/ HubGoodbye \/ HubDials \/ HubUp
  \/ HubFails \/ HubKicked \/ HubDropped \/ HubTakesCmd
  \/ \E c \in Cmd : HubAnswers(c)

Next ==
  \/ OpenPage \/ LinkOpens \/ Redial \/ Reconnect \/ Retry \/ Disconnect
  \/ \E unauthorized \in BOOLEAN : LinkCloses(unauthorized)
  \/ \E r \in Req : Submit(r)
  \/ \E c \in Cmd : Call(c) \/ CallTimeout(c)
  \/ PageTakes
  \/ HubStep

Spec == Init /\ [][Next]_vars

\* A socket being opened opens or fails and is dialled again when its timer is up;
\* what arrived is handled; the hub's handlers come to an end, its dials by their
\* own timeouts.  What users do, and when links or connections drop, is not fair.
LinkFair ==
  /\ WF_vars(LinkOpens)
  /\ WF_vars(Redial)
  /\ WF_vars(PageTakes)
  /\ WF_vars(HubConnects \/ HubDisconnects \/ HubTakesCmd)
  /\ WF_vars(HubDials \/ HubUp \/ HubFails)
  /\ WF_vars(HubGoodbye)
FairSpec == Spec /\ LinkFair

-----------------------------------------------------------------------------
(* Properties.                                                             *)

Settled ==
  /\ link = "open" /\ up = <<>> /\ down = <<>>
  /\ leaving = 0 /\ ts \in {"none", "up"}

\* Once nothing is in flight between them, the page shows no connection the hub
\* session has not, and, unless the user acted on what was no longer true, misses
\* none it has; whatever was dropped, refused, kicked, retried, redialled or
\* clicked before (apply, the link's listener).
PageAgrees ==
  Settled => /\ conn = "connected" => ts = "up"
             /\ ~hasty /\ ts = "up" => conn = "connected"

\* The connection a page shows is the one its user asked for last: a replay or a
\* retry of an earlier request never comes in between (connect, attemptReconnect).
ConnectedAsAsked == Settled /\ ~hasty /\ conn = "connected" => target = last

\* A user who is not hasty has one connect request under way, whichever of the form,
\* the banner, the retry's timer and the replay on a fresh link made it; two at most,
\* and only over a link that the form waited for while it was to be replayed on.
OneConnectUnderWay ==
  ~hasty => Cardinality({i \in 1..Len(up) : up[i].kind = "connect"})
              <= IF twice THEN 2 ELSE 1

\* A command whose caller still waits is with the hub or on its way there or back:
\* nobody waits for an answer that was lost with its link (TsCommandClient.failAll).
PendingOnItsWay ==
  \A c \in Cmd : call[c] = "pending" =>
    \/ c \in jobs
    \/ \E i \in 1..Len(up) : up[i] = Msg("cmd", c)
    \/ \E i \in 1..Len(down) : down[i] = Msg("result", c)

\* A page that says it is connecting comes to an end of it, or says what is wrong
\* and so offers to try again, whatever the hub refused and whichever link broke.
ConnectEnds == conn = "connecting" ~> (conn # "connecting" \/ err)
=============================================================================
