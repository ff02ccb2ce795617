----------------------------- MODULE ClientView -----------------------------
(***************************************************************************)
(* The clients a connection sees (the client and subscription cases of     *)
(* TsSession.onCommand, gateway/subscriptions.ts) and the page's copy      *)
(* (stores/ts.ts).                                                         *)
(*                                                                         *)
(* A server reports the clients of subscribed channels only.  It subscribes *)
(* a client to what it joins without saying so, says nothing of those who  *)
(* drop out of view with an unsubscribe, and keeps reporting the client's  *)
(* own channel whatever it was told; the hub makes up for all three.       *)
(*                                                                         *)
(* External: the server, as subscriptions.ts describes it.  Steps of the   *)
(* server and the handlers that read them, in order, are one action.       *)
(***************************************************************************)
EXTENDS Naturals, SequencesExt, FiniteSets

CONSTANTS
  Mate,           \* other clients of the server
  Chan,           \* channels
  Unseen,         \* where a client is that the server does not report, or is not there
  MaxViewChanges  \* bound: moves and subscriptions

ASSUME ViewAssumption ==
  /\ Unseen \notin Chan /\ IsFiniteSet(Mate)
  /\ MaxViewChanges \in Nat

VARIABLES
  where,        \* the server's: each one's channel
  mine,         \* the channel of the hub's own client, as both know it
  reports,      \* the channels the server reports to it
  viewChanges,  \* how much happened
  clients,      \* TsSession.clients: the channel of each
  subscribed,   \* the channels whose subscribed flag is set
  viewSent,     \* TsSession.snapshotSent
  viewFeed,     \* messages the page has not read
  pageClients,  \* the store's clients
  pageFlags     \* its channels with the flag

viewVars == <<where, mine, reports, viewChanges, clients, subscribed, viewSent, viewFeed,
              pageClients, pageFlags>>

\* Who is where, as far as the channels C are reported.
Seen(w, C) == [m \in Mate |-> IF w[m] \in C THEN w[m] ELSE Unseen]

ViewInit ==
  /\ where \in [Mate -> Chan \cup {Unseen}]
  /\ mine \in Chan /\ reports = {mine}
  /\ viewChanges = 0
  /\ clients = Seen(where, reports)
  /\ subscribed = {}
  /\ viewSent = FALSE /\ viewFeed = <<>>
  /\ pageClients = [m \in Mate |-> Unseen] /\ pageFlags = {}

-----------------------------------------------------------------------------
(* The hub.                                                                *)

ClientMsg(m, c) == [kind |-> "client", who |-> m, at |-> c]
ChannelMsg(c, on) == [kind |-> "channel", at |-> c, on |-> on]

\* One client.entered, client.left or client.moved for each that changed.
ClientMessages(new) ==
  LET changed == SetToSeq({m \in Mate : new[m] # clients[m]})
  IN [i \in DOMAIN changed |-> ClientMsg(changed[i], new[changed[i]])]

\* Nothing is told before the snapshot.
TellsPage(messages) ==
  /\ viewChanges < MaxViewChanges
  /\ viewChanges' = viewChanges + 1
  /\ viewFeed' = IF viewSent THEN viewFeed \o messages ELSE viewFeed
  /\ UNCHANGED <<viewSent, pageClients, pageFlags>>

\* notifycliententerview, notifyclientleftview or notifyclientmoved, by which of the
\* two channels are reported.
MateMoves(m, c) ==
  /\ c # where[m]
  /\ where' = [where EXCEPT ![m] = c]
  /\ clients' = [clients EXCEPT ![m] = IF c \in reports THEN c ELSE Unseen]
  /\ TellsPage(ClientMessages(clients'))
  /\ UNCHANGED <<mine, reports, subscribed>>

\* notifyclientmoved of our own client: joining subscribes, and those who are there
\* come into view.
SelfMoves(c) ==
  /\ c # mine
  /\ mine' = c
  /\ reports' = reports \cup {c}
  /\ subscribed' = subscribed \cup {c}
  /\ clients' = [m \in Mate |-> IF where[m] = c THEN c ELSE clients[m]]
  /\ TellsPage((IF c \in subscribed THEN <<>> ELSE <<ChannelMsg(c, TRUE)>>)
                 \o ClientMessages(clients'))
  /\ UNCHANGED where

\* notifychannelsubscribed, and an enter-view for each it brings.
Subscribe(c) ==
  /\ reports' = reports \cup {c}
  /\ subscribed' = subscribed \cup {c}
  /\ clients' = [m \in Mate |-> IF where[m] = c THEN c ELSE clients[m]]
  /\ TellsPage(<<ChannelMsg(c, TRUE)>> \o ClientMessages(clients'))
  /\ UNCHANGED <<where, mine>>

\* (Mutant: the clients of the channel are left in the model.)
UnsubscribeOnly(c) ==
  /\ reports' = IF c = mine THEN reports ELSE reports \ {c}
  /\ subscribed' = subscribed \ {c}
  /\ TellsPage(<<ChannelMsg(c, FALSE)>>)
  /\ UNCHANGED <<where, mine, clients>>

\* notifychannelunsubscribed: the clients of the channel are forgotten, but for our own
\* channel's, which the server keeps reporting (clientsHiddenByUnsubscribe).
Unsubscribe(c) ==
  /\ reports' = IF c = mine THEN reports ELSE reports \ {c}
  /\ subscribed' = subscribed \ {c}
  /\ clients' = [m \in Mate |-> IF c # mine /\ clients[m] = c THEN Unseen ELSE clients[m]]
  /\ TellsPage(ClientMessages(clients') \o <<ChannelMsg(c, FALSE)>>)
  /\ UNCHANGED <<where, mine>>

\* attempt(): our own channel counts as subscribed; then the snapshot goes out.
ViewSnapshot ==
  /\ ~viewSent
  /\ viewSent' = TRUE
  /\ subscribed' = subscribed \cup {mine}
  /\ viewFeed' = <<[kind |-> "snapshot", clients |-> clients, flags |-> subscribed']>>
  /\ UNCHANGED <<where, mine, reports, viewChanges, clients, pageClients, pageFlags>>

\* The page applies the next message.
PageReadsView ==
  LET m == Head(viewFeed) IN
  /\ viewFeed # <<>>
  /\ viewFeed' = Tail(viewFeed)
  /\ CASE m.kind = "snapshot" -> pageClients' = m.clients /\ pageFlags' = m.flags
       [] m.kind = "client"   -> /\ pageClients' = [pageClients EXCEPT ![m.who] = m.at]
                                 /\ UNCHANGED pageFlags
       [] m.kind = "channel"  -> /\ pageFlags' = IF m.on THEN pageFlags \cup {m.at}
                                                 ELSE pageFlags \ {m.at}
                                 /\ UNCHANGED pageClients
  /\ UNCHANGED <<where, mine, reports, viewChanges, clients, subscribed, viewSent>>

ViewNext ==
  \/ \E m \in Mate, c \in Chan \cup {Unseen} : MateMoves(m, c)
  \/ \E c \in Chan : SelfMoves(c) \/ Subscribe(c) \/ Unsubscribe(c)
  \/ ViewSnapshot \/ PageReadsView

ViewSpec == ViewInit /\ [][ViewNext]_viewVars

-----------------------------------------------------------------------------
(* Properties.                                                             *)

\* However people move and channels are subscribed, before the snapshot or after: once
\* its messages are read the page shows exactly the clients the server reports, where
\* they are (no ghost whose moves it would never hear of), and marks no channel
\* subscribed that is not reported (subscriptions.ts:5-13).
PageShowsWhoIsReported ==
  viewSent /\ viewFeed = <<>> =>
    /\ pageClients = Seen(where, reports)
    /\ pageFlags \subseteq reports
=============================================================================
