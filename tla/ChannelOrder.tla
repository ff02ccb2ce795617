---------------------------- MODULE ChannelOrder ----------------------------
(***************************************************************************)
(* The channels of a connection and their order (gateway/channel-order.ts, *)
(* the channel cases of TsSession.onCommand) and the page's copy           *)
(* (stores/ts.ts, ts/tree.ts).                                             *)
(*                                                                         *)
(* A channel names the sibling above it.  The server announces the channel *)
(* that was created, moved or deleted and not the neighbours whose link    *)
(* changed with it; the hub recomputes those, and passes every change on   *)
(* as patches that the page applies one by one.                            *)
(*                                                                         *)
(* External: the server's tree, and that its list is consistent.           *)
(***************************************************************************)
EXTENDS Naturals, SequencesExt, FiniteSets

CONSTANTS
  Channel,         \* ids
  Root,            \* "0": the parent of the topmost, the order of the first
  Nowhere,         \* the place of a channel that does not exist
  MaxTreeChanges   \* bound: what people do to the channels

ASSUME TreeAssumption ==
  /\ Root \notin Channel /\ Nowhere \notin Channel \cup {Root} /\ IsFiniteSet(Channel)
  /\ MaxTreeChanges \in Nat

VARIABLES
  tree,         \* the server's: the channels under each, in order
  treeChanges,  \* how often it changed
  channels,     \* TsSession.channels: each one's place
  snapshotSent, \* TsSession.snapshotSent
  treeFeed,     \* messages the page has not read
  pageChannels  \* the store's channels

treeVars == <<tree, treeChanges, channels, snapshotSent, treeFeed, pageChannels>>

Parents == Channel \cup {Root}
Place(parent, order) == [parent |-> parent, order |-> order]

\* No such channel.
Gone == Place(Nowhere, Nowhere)

-----------------------------------------------------------------------------
(* The server, as far as the hub has read its notifications.               *)

\* Where a channel stands in tree t: what its list and its notifications say.
PlaceIn(t, c) ==
  IF \E p \in Parents : c \in Range(t[p])
  THEN LET p == CHOOSE p \in Parents : c \in Range(t[p])
           i == CHOOSE i \in DOMAIN t[p] : t[p][i] = c
       IN Place(p, IF i = 1 THEN Root ELSE t[p][i - 1])
  ELSE Gone

Exists(c) == \E p \in Parents : c \in Range(tree[p])

\* A channel with all that is under it: what every set has that holds it and, with a
\* channel, those under it.
Under(c) ==
  {d \in Channel : \A D \in SUBSET Channel :
     c \in D /\ (\A e \in Channel : channels[e].parent \in D => e \in D) => d \in D}

\* The tree with c taken out of its place.
Without(c) ==
  [p \in Parents |-> IF c \in Range(tree[p])
                     THEN RemoveAt(tree[p], CHOOSE i \in DOMAIN tree[p] : tree[p][i] = c)
                     ELSE tree[p]]

-----------------------------------------------------------------------------
(* channel-order.ts: the links that change, as a model with the fixes in.  *)

RelinkOnLeave(m, c, at) ==
  [d \in Channel |-> IF d # c /\ m[d].parent = at.parent /\ m[d].order = c
                     THEN Place(at.parent, at.order) ELSE m[d]]

\* (Mutant: the channels of every parent are looked through.)
RelinkOnEnterAnywhere(m, c, at) ==
  [d \in Channel |-> IF d # c /\ m[d].order = at.order
                     THEN Place(m[d].parent, c) ELSE m[d]]

RelinkOnEnter(m, c, at) ==
  [d \in Channel |-> IF d # c /\ m[d].parent = at.parent /\ m[d].order = at.order
                     THEN Place(at.parent, c) ELSE m[d]]

\* First the gap is closed, then the new place is opened.
RelinkOnMove(m, c, at) ==
  IF m[c] = at THEN m ELSE RelinkOnEnter(RelinkOnLeave(m, c, m[c]), c, at)

-----------------------------------------------------------------------------
(* The hub's handlers.                                                     *)

\* applyOrderFixes: one patch for each channel of m that was fixed.
Patches(m, fixed) ==
  LET ids == SetToSeq({d \in Channel : fixed[d] # m[d]})
  IN [i \in DOMAIN ids |-> [kind |-> "ordered", id |-> ids[i], at |-> fixed[ids[i]]]]

\* The change is announced; the page hears nothing before the snapshot.
Changes(t, m, messages) ==
  /\ treeChanges < MaxTreeChanges
  /\ treeChanges' = treeChanges + 1
  /\ tree' = t
  /\ channels' = m
  /\ treeFeed' = IF snapshotSent THEN treeFeed \o messages ELSE treeFeed
  /\ UNCHANGED <<snapshotSent, pageChannels>>

\* notifychannelcreated
CreateChannel(c, p, i) ==
  /\ ~Exists(c) /\ (p = Root \/ Exists(p))
  /\ i <= Len(tree[p]) + 1
  /\ LET t == [tree EXCEPT ![p] = InsertAt(@, i, c)]
         at == PlaceIn(t, c)
         fixed == RelinkOnEnter(channels, c, at)
     IN Changes(t, [fixed EXCEPT ![c] = at],
          <<[kind |-> "added", id |-> c, at |-> at]>> \o Patches(channels, fixed))

\* notifychannelmoved, or notifychanneledited with the order.
MoveChannel(c, p, i) ==
  /\ Exists(c) /\ (p = Root \/ Exists(p)) /\ p \notin Under(c)
  /\ i <= Len(Without(c)[p]) + 1
  /\ LET t == [Without(c) EXCEPT ![p] = InsertAt(@, i, c)]
         at == PlaceIn(t, c)
         fixed == RelinkOnMove(channels, c, at)
     IN Changes(t, [fixed EXCEPT ![c] = at],
          <<[kind |-> "placed", id |-> c, at |-> at]>> \o Patches(channels, fixed))

\* notifychanneldeleted, for a channel and all under it.
DeleteChannel(c) ==
  /\ Exists(c)
  /\ LET gone == Under(c)
         removed == SetToSeq(gone)
         rest == [d \in Channel |-> IF d \in gone THEN Gone ELSE channels[d]]
         fixed == RelinkOnLeave(rest, c, channels[c])
     IN Changes([p \in Parents |-> IF p \in gone THEN <<>> ELSE Without(c)[p]], fixed,
          [i \in DOMAIN removed |-> [kind |-> "removed", id |-> removed[i], at |-> Gone]]
            \o Patches(rest, fixed))

SendSnapshot ==
  /\ ~snapshotSent
  /\ snapshotSent' = TRUE
  /\ treeFeed' = <<[kind |-> "snapshot", all |-> channels]>>
  /\ UNCHANGED <<tree, treeChanges, channels, pageChannels>>

-----------------------------------------------------------------------------
(* The page.                                                               *)

\* The store's handlers: a patch of a channel it does not have is dropped.
PageChannels ==
  LET m == Head(treeFeed)
      dropped == m.kind \in {"placed", "ordered"} /\ pageChannels[m.id] = Gone IN
  /\ treeFeed # <<>>
  /\ treeFeed' = Tail(treeFeed)
  /\ pageChannels' =
       IF dropped THEN pageChannels
       ELSE CASE m.kind = "snapshot" -> m.all
              [] m.kind = "ordered"  -> [pageChannels EXCEPT ![m.id].order = m.at.order]
              [] OTHER               -> [pageChannels EXCEPT ![m.id] = m.at]
  /\ UNCHANGED <<tree, treeChanges, channels, snapshotSent>>

\* sortSiblings: the chain from the first on; what it does not reach comes last.
SortSiblings(m, p) ==
  LET Siblings == {c \in Channel : m[c] # Gone /\ m[c].parent = p}
      Chain[n \in Nat] ==
        IF n = 0 THEN <<>>
        ELSE LET before == Chain[n - 1]
                 cursor == IF before = <<>> THEN Root ELSE Last(before)
                 next == {c \in Siblings \ Range(before) : m[c].order = cursor}
             IN IF next = {} THEN before ELSE Append(before, CHOOSE c \in next : TRUE)
      found == Chain[Cardinality(Siblings)]
  IN found \o SetToSeq(Siblings \ Range(found))

-----------------------------------------------------------------------------
\* At first some channels stand under the root; the list of them has been read.
TreeInit ==
  /\ \E all \in {<<>>, SetToSeq(Channel)} :
       tree = [p \in Parents |-> IF p = Root THEN all ELSE <<>>]
  /\ channels = [c \in Channel |-> PlaceIn(tree, c)]
  /\ treeChanges = 0 /\ treeFeed = <<>>
  /\ snapshotSent = FALSE
  /\ pageChannels = [c \in Channel |-> Gone]

TreeNext ==
  \/ \E c \in Channel, p \in Parents, i \in 1..Cardinality(Channel) :
       CreateChannel(c, p, i) \/ MoveChannel(c, p, i)
  \/ \E c \in Channel : DeleteChannel(c)
  \/ SendSnapshot \/ PageChannels

TreeSpec == TreeInit /\ [][TreeNext]_treeVars

-----------------------------------------------------------------------------
(* Properties.                                                             *)

\* However channels come, go and move, before the snapshot or after: once everything
\* is read, the page lists the channels under each parent as the server orders them,
\* though the server said nothing of the neighbours (channel-order.ts:2).
PageListsAsServer ==
  snapshotSent /\ treeFeed = <<>> =>
    \A p \in Parents : SortSiblings(pageChannels, p) = tree[p]
=============================================================================
