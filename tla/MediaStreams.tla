---------------------------- MODULE MediaStreams ----------------------------
(***************************************************************************)
(* Media links and the streams that play them (files/media-routes.ts and   *)
(* files/media-tickets.ts).                                                *)
(*                                                                         *)
(* A POST asks the TeamSpeak server for a transfer and mints a link bound  *)
(* to the connection it was made on; a GET of the link streams the file,   *)
(* every seek of the player is a new GET that takes over from the last.    *)
(* A stream starts through two awaits (the transfer, the file port), and   *)
(* at each the connection may end, the link may be replaced, the player    *)
(* may close or seek again.  A stream owns one slot of its session.        *)
(*                                                                         *)
(* The connections themselves are HubSession's; here they come and go, and *)
(* the registry announces each end in the step it happens.                 *)
(***************************************************************************)
EXTENDS Integers, FiniteSets

CONSTANTS
  Browser,   \* browser sessions
  Conn,      \* TeamSpeak connections
  Link,      \* media links, each asked for by one POST
  Req,       \* GETs of links
  None,      \* null
  Owner,     \* the session of each connection
  LinkConn,  \* the connection each POST comes in on
  LinkFile,  \* the file each POST names
  Empty,     \* the links whose file has no bytes
  Slots,     \* download slots of a session
  MaxLinks   \* MAX_MEDIA_TICKETS_PER_SESSION

ASSUME NoneAssumption == None \notin Conn /\ None \notin Link /\ None \notin Req
ASSUME LinkAssumption ==
  /\ IsFiniteSet(Link)
  /\ Owner \in [Conn -> Browser]
  /\ LinkConn \in [Link -> Conn]
  /\ Empty \subseteq Link
ASSUME StreamBoundAssumption == Slots \in Nat /\ MaxLinks \in Nat \ {0}

VARIABLES
  cur,        \* Session.tsSession, when it is connected
  ended,      \* connections that were let go of
  post,       \* where the POST of each link stands
  links,      \* MediaTickets.entries
  bornLink,   \* the order of links in MediaTickets.entries
  primed,     \* links whose POST's own transfer is still kept
  live,       \* the request that streams each link
  phase,      \* where each GET stands
  of,         \* the link each GET claimed
  cancelled,  \* Stream.cancelled
  taken       \* download slots in use, per session

connVars == <<cur, ended>>
postVars == <<post, bornLink>>
mediaVars == <<cur, ended, post, links, bornLink, primed, live, phase, of, cancelled,
               taken>>

PostPhases == {"idle", "starting", "minted", "failed"}
Phases == {"idle", "starting", "dialling", "streaming", "ending", "done", "refused"}

SessionOf(l) == Owner[LinkConn[l]]
Earlier(l, m) == bornLink[l] < bornLink[m]

MediaTypeOK ==
  /\ cur \in [Browser -> Conn \cup {None}]
  /\ ended \subseteq Conn
  /\ post \in [Link -> PostPhases]
  /\ links \subseteq Link
  /\ bornLink \in [Link -> Nat]
  /\ primed \subseteq Link
  /\ live \in [Link -> Req \cup {None}]
  /\ phase \in [Req -> Phases]
  /\ of \in [Req -> Link \cup {None}]
  /\ cancelled \subseteq Req
  /\ taken \in [Browser -> 0..Slots]

MediaInit ==
  /\ cur = [s \in Browser |-> None]
  /\ ended = {}
  /\ post = [l \in Link |-> "idle"]
  /\ links = {}
  /\ bornLink = [l \in Link |-> 0]
  /\ primed = {}
  /\ live = [l \in Link |-> None]
  /\ phase = [r \in Req |-> "idle"]
  /\ of = [r \in Req |-> None]
  /\ cancelled = {}
  /\ taken = [s \in Browser |-> 0]

-----------------------------------------------------------------------------
(* The pieces the handlers share.                                          *)

\* holds: the link's connection is still its session's.
Holds(l) == cur[SessionOf(l)] = LinkConn[l]

\* cut: a starting stream learns of it after its await, a running one stops.
Cut(R) ==
  /\ cancelled' = cancelled \cup R
  /\ phase' = [r \in Req |->
       IF r \in R /\ phase[r] = "streaming" THEN "ending" ELSE phase[r]]

StreamsOf(L) == {live[l] : l \in L} \ {None}

\* MediaTickets.drop with onRevoke.
Drop(L) ==
  /\ links' = links \ L
  /\ primed' = primed \ L
  /\ Cut(StreamsOf(L))

\* (Mutant: every way a request ends gives a slot back.)
FinishEach(r) ==
  LET l == of[r] IN
  /\ live' = [live EXCEPT ![l] = IF @ = r THEN None ELSE @]
  /\ taken' = [taken EXCEPT ![SessionOf(l)] = @ - 1]

\* finish: only the request that is live gives the slot back.
Finish(r) ==
  LET l == of[r] IN
  IF live[l] = r
  THEN /\ live' = [live EXCEPT ![l] = None]
       /\ taken' = [taken EXCEPT ![SessionOf(l)] = @ - 1]
  ELSE UNCHANGED <<live, taken>>

-----------------------------------------------------------------------------
(* The session's connections.                                              *)

\* The session's next connection is up.
ConnectionUp(c) ==
  /\ cur[Owner[c]] = None
  /\ c \notin ended
  /\ cur' = [cur EXCEPT ![Owner[c]] = c]
  /\ UNCHANGED <<ended, post, links, bornLink, primed, live, phase, of, cancelled, taken>>

\* connectionClosed reaches revokeEnded: this connection's links go.
ConnectionEnds(c) ==
  /\ cur[Owner[c]] = c
  /\ cur' = [cur EXCEPT ![Owner[c]] = None]
  /\ ended' = ended \cup {c}
  /\ Drop({l \in links : LinkConn[l] = c})
  /\ UNCHANGED <<post, bornLink, live, of, taken>>

\* The session leaves the registry: whatever links it has go.
SessionEnds(s) ==
  /\ cur' = [cur EXCEPT ![s] = None]
  /\ ended' = ended \cup {c \in Conn : Owner[c] = s}
  /\ Drop({l \in links : SessionOf(l) = s})
  /\ UNCHANGED <<post, bornLink, live, of, taken>>

-----------------------------------------------------------------------------
(* POST /api/files/media-ticket.                                           *)

\* The caller is connected and has an open to spend.
AskMedia(l) ==
  /\ post[l] = "idle"
  /\ Holds(l)
  /\ post' = [post EXCEPT ![l] = "starting"]
  /\ UNCHANGED <<connVars, links, bornLink, primed, live, phase, of, cancelled, taken>>

AskFails(l) ==
  /\ post[l] = "starting"
  /\ post' = [post EXCEPT ![l] = "failed"]
  /\ UNCHANGED <<connVars, links, bornLink, primed, live, phase, of, cancelled, taken>>

Owned(L, s) == {l \in L : SessionOf(l) = s}

\* The session's link to the same file.
SameFile(l) ==
  {m \in links : SessionOf(m) = SessionOf(l) /\ LinkFile[m] = LinkFile[l]}

\* The oldest links of the session beyond the ones there is room to keep.
Excess(l) ==
  LET owned == Owned(links \ SameFile(l), SessionOf(l)) IN
  {m \in owned : Cardinality({n \in owned : Earlier(m, n)}) >= MaxLinks - 1}

\* The transfer started: a link replaces the session's link to the same file
\* and its oldest ones, though the connection may have ended meanwhile.
MintMedia(l) ==
  /\ post[l] = "starting"
  /\ LET gone == SameFile(l) \cup Excess(l) IN
     /\ links' = (links \ gone) \cup {l}
     /\ primed' = (primed \ gone) \cup {l}
     /\ Cut(StreamsOf(gone))
  /\ bornLink' = [bornLink EXCEPT ![l] = 1 + Cardinality({m \in Link : bornLink[m] > 0})]
  /\ post' = [post EXCEPT ![l] = "minted"]
  /\ UNCHANGED <<connVars, live, of, taken>>

-----------------------------------------------------------------------------
(* Links that end by themselves.                                           *)

\* The sweep: links past their lifetime, links whose connection is gone.
SweepMedia(expired) ==
  /\ Drop(expired \cup {l \in links : ~Holds(l)})
  /\ UNCHANGED <<connVars, postVars, live, of, taken>>

\* The sweep drops transfers the server no longer keeps.
SweepPrimed(old) ==
  /\ primed' = primed \ old
  /\ UNCHANGED <<connVars, postVars, links, live, phase, of, cancelled, taken>>

\* A GET finds the link past its lifetime, or its connection gone.
GetGone(l) ==
  /\ l \in links
  /\ Drop({l})
  /\ UNCHANGED <<connVars, postVars, live, of, taken>>

-----------------------------------------------------------------------------
(* GET of a link.                                                          *)

Asked(r, l) == phase[r] = "idle" /\ l \in links /\ Holds(l)

\* A file without bytes is answered from the link; the POST's transfer goes.
GetEmpty(r, l) ==
  /\ Asked(r, l)
  /\ l \in Empty
  /\ primed' = primed \ {l}
  /\ phase' = [phase EXCEPT ![r] = "done"]
  /\ UNCHANGED <<connVars, postVars, links, live, of, cancelled, taken>>

SlotFor(l) == live[l] # None \/ taken[SessionOf(l)] < Slots

\* claim finds no slot.
Busy(r, l) ==
  /\ Asked(r, l)
  /\ l \notin Empty
  /\ ~SlotFor(l)
  /\ phase' = [phase EXCEPT ![r] = "refused"]
  /\ UNCHANGED <<connVars, postVars, links, primed, live, of, cancelled, taken>>

\* (Mutant: the running stream is cut before the open is spent.)
RateLimitedAfterCut(r, l) ==
  /\ Asked(r, l)
  /\ l \notin Empty
  /\ SlotFor(l)
  /\ primed' = primed \ {l}
  /\ cancelled' = cancelled \cup StreamsOf({l})
  /\ phase' = [q \in Req |->
       IF q = r THEN "refused"
       ELSE IF q = live[l] /\ phase[q] = "streaming" THEN "ending" ELSE phase[q]]
  /\ UNCHANGED <<connVars, postVars, links, live, of, taken>>

\* claim has a slot but no open to spend; the slot is given back.  The POST's
\* transfer is gone all the same.
RateLimited(r, l) ==
  /\ Asked(r, l)
  /\ l \notin Empty
  /\ SlotFor(l)
  /\ primed' = primed \ {l}
  /\ phase' = [phase EXCEPT ![r] = "refused"]
  /\ UNCHANGED <<connVars, postVars, links, live, of, cancelled, taken>>

\* claim: the request takes over the slot of the stream it replaces, or a
\* free one, and the POST's transfer (kept) or an open.
Claim(r, l, kept) ==
  /\ Asked(r, l)
  /\ l \notin Empty
  /\ SlotFor(l)
  /\ kept => l \in primed
  /\ primed' = primed \ {l}
  /\ live' = [live EXCEPT ![l] = r]
  /\ taken' = [taken EXCEPT ![SessionOf(l)] = IF live[l] = None THEN @ + 1 ELSE @]
  /\ cancelled' = cancelled \cup StreamsOf({l})
  /\ phase' = [q \in Req |->
       IF q = r THEN IF kept THEN "dialling" ELSE "starting"
       ELSE IF q = live[l] /\ phase[q] = "streaming" THEN "ending" ELSE phase[q]]
  /\ of' = [of EXCEPT ![r] = l]
  /\ UNCHANGED <<connVars, postVars, links>>

\* The start or the dial fails, or the file has changed.
StreamFails(r) ==
  /\ phase[r] \in {"starting", "dialling"}
  /\ Finish(r)
  /\ phase' = [phase EXCEPT ![r] = "done"]
  /\ UNCHANGED <<connVars, postVars, links, primed, of, cancelled>>

Started(r) ==
  /\ phase[r] = "starting"
  /\ r \notin cancelled
  /\ phase' = [phase EXCEPT ![r] = "dialling"]
  /\ UNCHANGED <<connVars, postVars, links, primed, live, of, cancelled, taken>>

\* (Mutant: a stream cut while it dialled is not stopped.)
DialledBlindly(r) ==
  /\ phase[r] = "dialling"
  /\ phase' = [phase EXCEPT ![r] = "streaming"]
  /\ UNCHANGED <<connVars, postVars, links, primed, live, of, cancelled, taken>>

MediaDialled(r) ==
  /\ phase[r] = "dialling"
  /\ r \notin cancelled
  /\ phase' = [phase EXCEPT ![r] = "streaming"]
  /\ UNCHANGED <<connVars, postVars, links, primed, live, of, cancelled, taken>>

\* (Mutant: a stream that was cut does not give its slot back.)
SettledIfWhole(r) ==
  /\ phase[r] \in {"streaming", "ending"}
  /\ IF phase[r] = "streaming" THEN Finish(r) ELSE UNCHANGED <<live, taken>>
  /\ phase' = [phase EXCEPT ![r] = "done"]
  /\ UNCHANGED <<connVars, postVars, links, primed, of, cancelled>>

\* The pipeline settles: the file is sent, or stalled, failed or was cut.
Settled(r) ==
  /\ phase[r] \in {"streaming", "ending"}
  /\ Finish(r)
  /\ phase' = [phase EXCEPT ![r] = "done"]
  /\ UNCHANGED <<connVars, postVars, links, primed, of, cancelled>>

\* onGone: the player closes the request.
PlayerGone(r) ==
  /\ phase[r] \in {"starting", "dialling", "streaming", "ending"}
  /\ Cut({r})
  /\ Finish(r)
  /\ UNCHANGED <<connVars, postVars, links, primed, of>>

-----------------------------------------------------------------------------
ConnStep ==
  \/ \E c \in Conn : ConnectionUp(c) \/ ConnectionEnds(c)
  \/ \E s \in Browser : SessionEnds(s)

MediaLinkStep ==
  \/ \E l \in Link : AskMedia(l) \/ AskFails(l) \/ MintMedia(l) \/ GetGone(l)
  \/ \E L \in SUBSET links : SweepMedia(L)
  \/ \E L \in SUBSET primed : SweepPrimed(L)

MediaGetStep(r) ==
  \E l \in Link :
    \/ GetEmpty(r, l)
    \/ Busy(r, l)
    \/ RateLimited(r, l)
    \/ \E kept \in BOOLEAN : Claim(r, l, kept)

StreamStep(r) == StreamFails(r) \/ Started(r) \/ MediaDialled(r) \/ Settled(r)

MediaNext ==
  \/ ConnStep
  \/ MediaLinkStep
  \/ \E r \in Req : MediaGetStep(r) \/ StreamStep(r) \/ PlayerGone(r)

MediaSpec == MediaInit /\ [][MediaNext]_mediaVars

\* Inits and dials end (answered, refused or timed out); a stream settles:
\* its file is finite and the stall guard ends one nobody reads.
MediaFair == \A r \in Req : WF_mediaVars(StreamStep(r))
MediaFairSpec == MediaSpec /\ MediaFair

-----------------------------------------------------------------------------
(* Properties.                                                             *)

Held(s) == {l \in Link : SessionOf(l) = s /\ live[l] # None}

\* A session's slots in use are exactly the links that have a request
\* streaming: none leaks and none is given back twice, however a stream ends
\* (failed start, closed player, cut, takeover, end of file).
StreamSlotsExact == \A s \in Browser : taken[s] = Cardinality(Held(s))

\* Bytes flow only for a link that still exists, whose connection is still its
\* session's, and only for the last request that claimed it: a kicked, banned
\* or disconnected user, a replaced link and a seek all stop the stream, even
\* when they come between the awaits that start it.
BytesOnlyWhileHeld ==
  \A r \in Req :
    phase[r] = "streaming" =>
      /\ of[r] \in links
      /\ Holds(of[r])
      /\ live[of[r]] = r

RefusalKeepsStreams ==
  \A r, q \in Req :
    /\ phase[r] # "refused" /\ phase'[r] = "refused"
    /\ phase[q] = "streaming"
    => phase'[q] = "streaming"

\* A refused seek leaves the player playing where it was (claim).
RefusedSeekKeepsPlaying == [][RefusalKeepsStreams]_mediaVars

\* Every request that got a slot ends, so every slot comes back.
SlotComesBack == \A l \in Link, r \in Req : live[l] = r ~> live[l] # r
=============================================================================
