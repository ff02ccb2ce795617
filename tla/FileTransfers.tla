---------------------------- MODULE FileTransfers ----------------------------
(***************************************************************************)
(* Downloads and uploads of a browser (files/routes.ts), the one-time      *)
(* links of files/tickets.ts and the slots of files/transfer-slots.ts.     *)
(*                                                                         *)
(* A POST takes a download's slots, asks the TeamSpeak server for the      *)
(* transfer and hands out a link that holds them; the GET of the link      *)
(* takes them over, and a timer gives back the slots of a link nobody      *)
(* used.  An upload takes its slot once its icon is read.  At each await   *)
(* the browser may go away, the session disconnect, a timer fire.          *)
(***************************************************************************)
EXTENDS Integers, FiniteSets

CONSTANTS
  Session,
  Download,      \* downloads, each with its link
  Upload,        \* uploads
  Icon,          \* the uploads that are icons, read whole first
  OwnerOf,       \* the session of each transfer
  MaxTransfers,  \* HUB_FT_MAX_TRANSFERS_PER_SESSION
  MaxHub,        \* HUB_FT_MAX_TRANSFERS
  MaxTickets     \* MAX_TICKETS_PER_SESSION

ASSUME TransferAssumption ==
  /\ IsFiniteSet(Download) /\ IsFiniteSet(Upload)
  /\ Download \cap Upload = {}
  /\ Icon \subseteq Upload
  /\ OwnerOf \in [Download \cup Upload -> Session]
ASSUME BoundAssumption ==
  /\ MaxTransfers \in Nat \ {0}
  /\ MaxHub \in Nat \ {0}
  /\ MaxTickets \in Nat \ {0}

VARIABLES
  connected,   \* sessions connected to a server (SessionRegistry.getConnected)
  perSession,  \* TransferSlots.perSession: slots in use
  inUse,       \* TransferSlots.live: slots in use hub-wide
  downloads,   \* routes.ts downloads: slots downloads use
  dl,          \* where each download stands
  released,    \* downloads whose GET gave its slots back
  tickets,     \* DownloadTickets.entries
  born,        \* the order of entries
  lapsed,      \* links past their lifetime
  reserved,    \* routes.ts reserved: links that hold slots
  up           \* where each upload stands

slotVars == <<perSession, inUse, downloads>>
linkVars == <<tickets, born, lapsed, reserved>>
vars == <<connected, perSession, inUse, downloads, dl, released, tickets, born,
          lapsed, reserved, up>>

DownloadPhases == {"idle", "starting", "link", "dialling", "streaming", "done",
                   "busy", "limited"}
UploadPhases == {"idle", "reading", "starting", "dialling", "sending", "done",
                 "busy", "limited"}

TypeOK ==
  /\ connected \subseteq Session
  /\ perSession \in [Session -> 0..MaxTransfers]
  /\ inUse \in 0..MaxHub
  /\ downloads \in [Session -> 0..MaxTransfers]
  /\ dl \in [Download -> DownloadPhases]
  /\ released \subseteq Download
  /\ tickets \subseteq Download
  /\ born \in [Download -> Nat]
  /\ lapsed \subseteq Download
  /\ reserved \subseteq Download
  /\ up \in [Upload -> UploadPhases]

Init ==
  /\ connected = {}
  /\ perSession = [s \in Session |-> 0]
  /\ inUse = 0
  /\ downloads = [s \in Session |-> 0]
  /\ dl = [d \in Download |-> "idle"]
  /\ released = {}
  /\ tickets = {}
  /\ born = [d \in Download |-> 0]
  /\ lapsed = {}
  /\ reserved = {}
  /\ up = [u \in Upload |-> "idle"]

-----------------------------------------------------------------------------
(* The slots.                                                              *)

\* (Mutant: downloads may use every slot of the session.)
AllSlots == MaxTransfers

\* All but one, so an upload always finds one (a single slot is shared).
downloadSlots == IF MaxTransfers > 1 THEN MaxTransfers - 1 ELSE MaxTransfers

SlotFree(s) == inUse < MaxHub /\ perSession[s] < MaxTransfers
DownloadFree(s) == downloads[s] < downloadSlots /\ SlotFree(s)

\* TransferSlots.acquire
Acquire(s) ==
  /\ perSession' = [perSession EXCEPT ![s] = @ + 1]
  /\ inUse' = inUse + 1

\* TransferSlots.release
Release(s) ==
  IF perSession[s] = 0 THEN UNCHANGED <<perSession, inUse>>
  ELSE /\ perSession' = [perSession EXCEPT ![s] = @ - 1]
       /\ inUse' = inUse - 1

ReserveDownload(s) ==
  /\ downloads' = [downloads EXCEPT ![s] = @ + 1]
  /\ Acquire(s)

ReleaseDownload(s) ==
  /\ downloads' = [downloads EXCEPT ![s] = IF @ = 0 THEN 0 ELSE @ - 1]
  /\ Release(s)

\* The GET's release: only the first call gives the slots back.
GiveBack(d) ==
  /\ released' = released \cup {d}
  /\ IF d \in released THEN UNCHANGED slotVars ELSE ReleaseDownload(OwnerOf[d])

-----------------------------------------------------------------------------
(* Sessions come and go (HubSession).                                      *)

Connects(s) ==
  /\ connected' = connected \cup {s}
  /\ UNCHANGED <<slotVars, linkVars, dl, released, up>>

Disconnects(s) ==
  /\ connected' = connected \ {s}
  /\ UNCHANGED <<slotVars, linkVars, dl, released, up>>

-----------------------------------------------------------------------------
(* POST /api/files/download-ticket.                                        *)

Caller(t) == OwnerOf[t] \in connected

Ask(d) ==
  /\ dl[d] = "idle"
  /\ Caller(d)
  /\ DownloadFree(OwnerOf[d])
  /\ ReserveDownload(OwnerOf[d])
  /\ dl' = [dl EXCEPT ![d] = "starting"]
  /\ UNCHANGED <<connected, linkVars, released, up>>

\* No slot, or no init to spend: the slots are given back at once.
AskRefused(d) ==
  /\ dl[d] = "idle"
  /\ Caller(d)
  /\ dl' = [dl EXCEPT ![d] = IF DownloadFree(OwnerOf[d]) THEN "limited" ELSE "busy"]
  /\ UNCHANGED <<connected, slotVars, linkVars, released, up>>

InitFails(d) ==
  /\ dl[d] = "starting"
  /\ ReleaseDownload(OwnerOf[d])
  /\ dl' = [dl EXCEPT ![d] = "done"]
  /\ UNCHANGED <<connected, linkVars, released, up>>

\* The oldest links of the session beyond the ones there is room to keep.
Evicted(d) ==
  LET owned == {e \in tickets \ lapsed : OwnerOf[e] = OwnerOf[d]} IN
  {e \in owned : Cardinality({f \in owned : born[e] < born[f]}) >= MaxTickets - 1}

\* The transfer started.  The link's slots stay reserved until a GET takes
\* them over or its timer fires, though later links may evict it.
Mint(d) ==
  /\ dl[d] = "starting"
  /\ dl' = [dl EXCEPT ![d] = "link"]
  /\ tickets' = (tickets \ (lapsed \cup Evicted(d))) \cup {d}
  /\ born' = [born EXCEPT ![d] = 1 + Cardinality({e \in Download : born[e] > 0})]
  /\ reserved' = reserved \cup {d}
  /\ UNCHANGED <<connected, slotVars, lapsed, released, up>>

\* A link's time is up.
Lapse(d) ==
  /\ born[d] > 0
  /\ lapsed' = lapsed \cup {d}
  /\ UNCHANGED <<connected, slotVars, tickets, born, reserved, dl, released, up>>

\* (Mutant: the timer minds only links that still have their ticket.)
TimerOfKept(d) ==
  /\ d \in lapsed
  /\ d \in reserved
  /\ d \in tickets
  /\ reserved' = reserved \ {d}
  /\ ReleaseDownload(OwnerOf[d])
  /\ dl' = [dl EXCEPT ![d] = "done"]
  /\ UNCHANGED <<connected, tickets, born, lapsed, released, up>>

\* (Mutant: the timer gives the slots back whether or not the GET has them.)
TimerBlind(d) ==
  /\ d \in lapsed
  /\ dl[d] \in {"link", "dialling", "streaming"}
  /\ reserved' = reserved \ {d}
  /\ ReleaseDownload(OwnerOf[d])
  /\ dl' = IF d \in reserved THEN [dl EXCEPT ![d] = "done"] ELSE dl
  /\ UNCHANGED <<connected, tickets, born, lapsed, released, up>>

\* expireLater: the slots of a link nobody used.
Timer(d) ==
  /\ d \in lapsed
  /\ d \in reserved
  /\ reserved' = reserved \ {d}
  /\ ReleaseDownload(OwnerOf[d])
  /\ dl' = [dl EXCEPT ![d] = "done"]
  /\ UNCHANGED <<connected, tickets, born, lapsed, released, up>>

-----------------------------------------------------------------------------
(* GET of a link.                                                          *)

\* The link is used up: past its lifetime the timer still has its slots.
GetLate(d) ==
  /\ d \in tickets \cap lapsed
  /\ tickets' = tickets \ {d}
  /\ UNCHANGED <<connected, slotVars, born, lapsed, reserved, dl, released, up>>

\* The GET takes the link's slots over and dials the file port.
Get(d) ==
  /\ d \in tickets \ lapsed
  /\ tickets' = tickets \ {d}
  /\ d \in reserved
  /\ reserved' = reserved \ {d}
  /\ Caller(d)
  /\ dl' = [dl EXCEPT ![d] = "dialling"]
  /\ UNCHANGED <<connected, slotVars, born, lapsed, released, up>>

\* The session has disconnected, or the browser has closed before the handler
\* ran: nothing is dialled and the slots come back.
GetForNobody(d) ==
  /\ d \in tickets \ lapsed
  /\ tickets' = tickets \ {d}
  /\ d \in reserved
  /\ reserved' = reserved \ {d}
  /\ GiveBack(d)
  /\ dl' = [dl EXCEPT ![d] = "done"]
  /\ UNCHANGED <<connected, born, lapsed, up>>

DialFails(d) ==
  /\ dl[d] = "dialling"
  /\ GiveBack(d)
  /\ dl' = [dl EXCEPT ![d] = "done"]
  /\ UNCHANGED <<connected, linkVars, up>>

\* The port answers; the browser may have gone meanwhile.
Dialled(d) ==
  /\ dl[d] = "dialling"
  /\ dl' = [dl EXCEPT ![d] = IF d \in released THEN "done" ELSE "streaming"]
  /\ UNCHANGED <<connected, slotVars, linkVars, released, up>>

\* onGone: the response closes, at its end, when it stalls or when the browser
\* goes away.  A dial that is under way notices when it returns.
Closed(d) ==
  /\ dl[d] \in {"dialling", "streaming"}
  /\ GiveBack(d)
  /\ dl' = [dl EXCEPT ![d] = IF @ = "streaming" THEN "done" ELSE @]
  /\ UNCHANGED <<connected, linkVars, up>>

-----------------------------------------------------------------------------
(* PUT /api/files/upload.                                                  *)

\* runUpload's own acquire, which the count before it does not guarantee.
Run(u) ==
  LET s == OwnerOf[u] IN
  /\ IF SlotFree(s) THEN Acquire(s) ELSE UNCHANGED <<perSession, inUse>>
  /\ up' = [up EXCEPT ![u] = IF SlotFree(s) THEN "starting" ELSE "busy"]
  /\ UNCHANGED <<connected, downloads, linkVars, dl, released>>

Put(u) ==
  /\ up[u] = "idle"
  /\ Caller(u)
  /\ perSession[OwnerOf[u]] < MaxTransfers
  /\ IF u \in Icon
     THEN /\ up' = [up EXCEPT ![u] = "reading"]
          /\ UNCHANGED <<connected, slotVars, linkVars, dl, released>>
     ELSE Run(u)

PutRefused(u) ==
  /\ up[u] = "idle"
  /\ Caller(u)
  /\ up' = [up EXCEPT ![u] = IF perSession[OwnerOf[u]] < MaxTransfers THEN "limited" ELSE "busy"]
  /\ UNCHANGED <<connected, slotVars, linkVars, dl, released>>

IconRead(u) ==
  /\ up[u] = "reading"
  /\ Run(u)

IconBad(u) ==
  /\ up[u] = "reading"
  /\ up' = [up EXCEPT ![u] = "done"]
  /\ UNCHANGED <<connected, slotVars, linkVars, dl, released>>

UploadStarted(u) ==
  /\ up[u] \in {"starting", "dialling"}
  /\ up' = [up EXCEPT ![u] = IF @ = "starting" THEN "dialling" ELSE "sending"]
  /\ UNCHANGED <<connected, slotVars, linkVars, dl, released>>

\* The upload is whole, or broke off at any of its awaits.
UploadEnds(u) ==
  /\ up[u] \in {"starting", "dialling", "sending"}
  /\ Release(OwnerOf[u])
  /\ up' = [up EXCEPT ![u] = "done"]
  /\ UNCHANGED <<connected, downloads, linkVars, dl, released>>

-----------------------------------------------------------------------------
LinkStep(d) == Ask(d) \/ AskRefused(d) \/ InitFails(d) \/ Mint(d) \/ Lapse(d) \/ Timer(d)
GetStep(d) == \/ GetLate(d) \/ Get(d) \/ GetForNobody(d)
              \/ DialFails(d) \/ Dialled(d) \/ Closed(d)
UploadStep(u) == \/ Put(u) \/ PutRefused(u) \/ IconRead(u) \/ IconBad(u)
                 \/ UploadStarted(u) \/ UploadEnds(u)

Next ==
  \/ \E s \in Session : Connects(s) \/ Disconnects(s)
  \/ \E d \in Download : LinkStep(d) \/ GetStep(d)
  \/ \E u \in Upload : UploadStep(u)

Spec == Init /\ [][Next]_vars

\* What is awaited ends: an init is answered or times out, a dial ends, a link
\* lapses and its timer fires, a response closes and an upload settles (both
\* are finite and the stall guard ends one that does not move).
TransfersFair ==
  /\ \A d \in Download :
       /\ WF_vars(InitFails(d) \/ Mint(d))
       /\ WF_vars(Lapse(d))
       /\ WF_vars(Timer(d))
       /\ WF_vars(DialFails(d) \/ Dialled(d))
       /\ WF_vars(Closed(d))
  /\ \A u \in Upload : WF_vars(UploadEnds(u))
FairSpec == Spec /\ TransfersFair

-----------------------------------------------------------------------------
(* Properties.                                                             *)

Running(d) ==
  \/ dl[d] \in {"starting", "link"}
  \/ dl[d] \in {"dialling", "streaming"} /\ d \notin released

\* The transfers that hold a slot.
Holding == {d \in Download : Running(d)}
           \cup {u \in Upload : up[u] \in {"starting", "dialling", "sending"}}
HeldBy(s) == {t \in Holding : OwnerOf[t] = s}

\* The three counters agree with the transfers that run: none leaks, none is
\* given back twice, by whatever mix of timers, closes, failures and disconnects.
SlotsExact ==
  /\ \A s \in Session :
       /\ perSession[s] = Cardinality(HeldBy(s))
       /\ downloads[s] = Cardinality(HeldBy(s) \cap Download)
  /\ inUse = Cardinality(Holding)

\* A link handed out and not past its lifetime still has its slots, so its
\* download is never refused for want of one.
LinksHonoured == \A d \in tickets \ lapsed : d \in reserved /\ Running(d)

\* Downloads leave an upload of the session its slot (downloadSlots).
UploadFindsSlot ==
  MaxTransfers > 1 =>
    \A s \in Session : HeldBy(s) \subseteq Download => perSession[s] < MaxTransfers

\* The transfers that run are the pool SlotPool promises (no more than a
\* session's and the hub's slots, one left for an upload), and every slot taken
\* is given back.
Pool == INSTANCE SlotPool
  WITH PerSession <- MaxTransfers, HubWide <- MaxHub, holding <- Holding
ImplementsPool == Pool!Spec
GivesBack == Pool!FairSpec
=============================================================================
