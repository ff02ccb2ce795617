------------------------- MODULE MediaStreams_proofs -------------------------
(***************************************************************************)
(* Proofs about MediaStreams for any sessions, connections, links and      *)
(* requests, any number of slots and any cap on links.                     *)
(***************************************************************************)
EXTENDS MediaStreams, FiniteSetTheorems, TLAPS

-----------------------------------------------------------------------------
(* Types, but for the bounds of the slot counts.                           *)

Underway == {"starting", "dialling", "streaming", "ending"}

\* A request that got through claim knows the link it claimed.
Typed ==
  /\ cur \in [Browser -> Conn \cup {None}]
  /\ ended \subseteq Conn
  /\ post \in [Link -> PostPhases]
  /\ links \subseteq Link
  /\ bornLink \in [Link -> Nat]
  /\ primed \subseteq Link
  /\ live \in [Link -> Req \cup {None}]
  /\ phase \in [Req -> Phases]
  /\ of \in [Req -> Link \cup {None}]
  /\ cancelled \subseteq Req
  /\ taken \in [Browser -> Int]
  /\ \A r \in Req : phase[r] \in Underway => of[r] \in Link

LEMMA SessionOfType == \A l \in Link : SessionOf(l) \in Browser
BY LinkAssumption DEF SessionOf

LEMMA CutType ==
  ASSUME Typed, NEW R \in SUBSET Req, Cut(R)
  PROVE  /\ cancelled' \subseteq Req
         /\ phase' \in [Req -> Phases]
         /\ \A r \in Req : phase'[r] \in Underway => of[r] \in Link
BY DEF Typed, Cut, Phases, Underway

LEMMA StreamsOfType ==
  ASSUME Typed, NEW L \in SUBSET Link
  PROVE  StreamsOf(L) \subseteq Req
BY DEF Typed, StreamsOf

LEMMA DropType ==
  ASSUME Typed, NEW L \in SUBSET Link, Drop(L),
         UNCHANGED <<post, bornLink, live, of, taken>>,
         cur' \in [Browser -> Conn \cup {None}], ended' \subseteq Conn
  PROVE  Typed'
<1>1. StreamsOf(L) \subseteq Req
  BY StreamsOfType
<1>2. /\ cancelled' \subseteq Req
      /\ phase' \in [Req -> Phases]
      /\ \A r \in Req : phase'[r] \in Underway => of[r] \in Link
  BY <1>1, CutType DEF Drop
<1> QED
  BY <1>2 DEF Typed, Drop

LEMMA FinishType ==
  ASSUME Typed, NEW r \in Req, phase[r] \in Underway, Finish(r)
  PROVE  /\ live' \in [Link -> Req \cup {None}]
         /\ taken' \in [Browser -> Int]
BY SessionOfType DEF Typed, Finish

LEMMA ConnStepType ==
  ASSUME Typed, ConnStep
  PROVE  Typed'
<1>1. ASSUME NEW c \in Conn, ConnectionUp(c)
      PROVE  Typed'
  BY <1>1 DEF Typed, ConnectionUp
<1>2. ASSUME NEW c \in Conn, ConnectionEnds(c)
      PROVE  Typed'
  <2>1. /\ cur' \in [Browser -> Conn \cup {None}]
        /\ ended' \subseteq Conn
    BY <1>2 DEF Typed, ConnectionEnds
  <2>2. {l \in links : LinkConn[l] = c} \subseteq Link
    BY DEF Typed
  <2> QED
    BY <1>2, <2>1, <2>2, DropType DEF ConnectionEnds
<1>3. ASSUME NEW s \in Browser, SessionEnds(s)
      PROVE  Typed'
  <2>1. /\ cur' \in [Browser -> Conn \cup {None}]
        /\ ended' \subseteq Conn
    BY <1>3 DEF Typed, SessionEnds
  <2>2. {l \in links : SessionOf(l) = s} \subseteq Link
    BY DEF Typed
  <2> QED
    BY <1>3, <2>1, <2>2, DropType DEF SessionEnds
<1> QED
  BY <1>1, <1>2, <1>3 DEF ConnStep

LEMMA MintType ==
  ASSUME Typed, NEW l \in Link, MintMedia(l)
  PROVE  Typed'
<1> DEFINE gone == SameFile(l) \cup Excess(l)
<1>1. gone \subseteq Link
  BY DEF Typed, SameFile, Excess, Owned
<1>2. StreamsOf(gone) \subseteq Req
  BY <1>1, StreamsOfType
<1>3. /\ links' = (links \ gone) \cup {l}
      /\ primed' = (primed \ gone) \cup {l}
      /\ Cut(StreamsOf(gone))
  BY DEF MintMedia
<1>4. /\ cancelled' \subseteq Req
      /\ phase' \in [Req -> Phases]
      /\ \A r \in Req : phase'[r] \in Underway => of[r] \in Link
  BY <1>2, <1>3, CutType
<1>5. bornLink' \in [Link -> Nat]
  <2>1. IsFiniteSet({m \in Link : bornLink[m] > 0})
    BY LinkAssumption, FS_Subset
  <2>2. Cardinality({m \in Link : bornLink[m] > 0}) \in Nat
    BY <2>1, FS_CardinalityType
  <2> QED
    BY <2>2 DEF Typed, MintMedia
<1> HIDE DEF gone
<1> QED
  BY <1>1, <1>3, <1>4, <1>5 DEF Typed, MintMedia, PostPhases, connVars

LEMMA LinkStepType ==
  ASSUME Typed, MediaLinkStep
  PROVE  Typed'
<1>1. ASSUME NEW l \in Link, AskMedia(l) \/ AskFails(l)
      PROVE  Typed'
  BY <1>1 DEF Typed, AskMedia, AskFails, PostPhases, connVars
<1>2. ASSUME NEW l \in Link, GetGone(l)
      PROVE  Typed'
  BY <1>2, DropType DEF Typed, GetGone, connVars, postVars
<1>3. ASSUME NEW L \in SUBSET links, SweepMedia(L)
      PROVE  Typed'
  <2>1. L \cup {l \in links : ~Holds(l)} \subseteq Link
    BY DEF Typed
  <2> QED
    BY <1>3, <2>1, DropType DEF Typed, SweepMedia, connVars, postVars
<1>4. ASSUME NEW L \in SUBSET primed, SweepPrimed(L)
      PROVE  Typed'
  BY <1>4 DEF Typed, SweepPrimed, connVars, postVars
<1> QED
  BY <1>1, <1>2, <1>3, <1>4, MintType DEF MediaLinkStep

LEMMA GetStepType ==
  ASSUME Typed, NEW r \in Req, MediaGetStep(r)
  PROVE  Typed'
<1> USE DEF Typed, Phases, Underway, connVars, postVars
<1>1. ASSUME NEW l \in Link, GetEmpty(r, l) \/ Busy(r, l)
      PROVE  Typed'
  BY <1>1 DEF GetEmpty, Busy, Asked
<1>2. ASSUME NEW l \in Link, RateLimited(r, l)
      PROVE  Typed'
  BY <1>2 DEF RateLimited, Asked
<1>3. ASSUME NEW l \in Link, NEW b \in BOOLEAN, Claim(r, l, b)
      PROVE  Typed'
  <2>1. StreamsOf({l}) \subseteq Req
    BY StreamsOfType
  <2>2. taken' \in [Browser -> Int]
    BY <1>3, SessionOfType DEF Claim
  <2>3. phase' \in [Req -> Phases]
    BY <1>3 DEF Claim
  <2>4. \A q \in Req : phase'[q] \in Underway => q = r \/ phase[q] \in Underway
    BY <1>3 DEF Claim
  <2>5. of' \in [Req -> Link \cup {None}] /\ of'[r] \in Link
        /\ \A q \in Req \ {r} : of'[q] = of[q]
    BY <1>3 DEF Claim
  <2>6. live' \in [Link -> Req \cup {None}] /\ cancelled' \subseteq Req
    BY <1>3, <2>1 DEF Claim
  <2> QED
    BY <1>3, <2>2, <2>3, <2>4, <2>5, <2>6 DEF Claim
<1> QED
  BY <1>1, <1>2, <1>3 DEF MediaGetStep

LEMMA StreamStepType ==
  ASSUME Typed, NEW r \in Req, StreamStep(r) \/ PlayerGone(r)
  PROVE  Typed'
<1> USE DEF connVars, postVars
<1>1. CASE StreamFails(r) \/ Settled(r)
  <2>1. phase[r] \in Underway /\ Finish(r)
    BY <1>1 DEF StreamFails, Settled, Underway
  <2> QED
    BY <1>1, <2>1, FinishType DEF Typed, StreamFails, Settled, Phases, Underway
<1>2. CASE Started(r) \/ MediaDialled(r)
  BY <1>2 DEF Typed, Started, MediaDialled, Phases, Underway
<1>3. CASE PlayerGone(r)
  <2>1. phase[r] \in Underway /\ Finish(r) /\ Cut({r})
    BY <1>3 DEF PlayerGone, Underway
  <2> QED
    BY <1>3, <2>1, FinishType, CutType DEF Typed, PlayerGone
<1> QED
  BY <1>1, <1>2, <1>3 DEF StreamStep

LEMMA InitTyped == MediaInit => Typed
BY DEF MediaInit, Typed, Phases, PostPhases, Underway

LEMMA NextTyped == Typed /\ [MediaNext]_mediaVars => Typed'
<1> SUFFICES ASSUME Typed, [MediaNext]_mediaVars PROVE Typed'
  OBVIOUS
<1>1. CASE UNCHANGED mediaVars
  BY <1>1 DEF mediaVars, Typed
<1>2. CASE MediaNext
  BY <1>2, ConnStepType, LinkStepType, GetStepType, StreamStepType DEF MediaNext
<1> QED
  BY <1>1, <1>2

-----------------------------------------------------------------------------
(* The slots.                                                              *)

SlotsInv ==
  /\ Typed
  /\ StreamSlotsExact
  /\ \A s \in Browser : taken[s] <= Slots

LEMMA HeldFinite == \A s \in Browser : IsFiniteSet(Held(s)) /\ Cardinality(Held(s)) \in Nat
BY LinkAssumption, FS_Subset, FS_CardinalityType DEF Held

\* A step that starts and ends no stream.
LEMMA SameSlots ==
  ASSUME SlotsInv, Typed', UNCHANGED <<live, taken>>
  PROVE  SlotsInv'
<1>1. \A s \in Browser : Held(s)' = Held(s)
  BY DEF Held
<1> QED
  BY <1>1 DEF SlotsInv, StreamSlotsExact

\* A request that was live is not any more, and gives one slot back.
LEMMA FinishSlots ==
  ASSUME SlotsInv, Typed', NEW r \in Req, phase[r] \in Underway, Finish(r)
  PROVE  SlotsInv'
<1>0. PICK l \in Link : l = of[r]
  BY DEF SlotsInv, Typed
<1>1. SessionOf(l) \in Browser
  BY SessionOfType
<1>2. CASE live[l] # r
  BY <1>0, <1>2, SameSlots DEF Finish
<1>3. CASE live[l] = r
  <2>1. /\ live' = [live EXCEPT ![l] = None]
        /\ taken' = [taken EXCEPT ![SessionOf(l)] = @ - 1]
    BY <1>0, <1>3 DEF Finish
  <2>2. r # None
    BY NoneAssumption
  <2>3. l \in Held(SessionOf(l)) /\ Held(SessionOf(l))' = Held(SessionOf(l)) \ {l}
    BY <1>1, <1>3, <2>1, <2>2 DEF Held, SlotsInv, Typed
  <2>4. \A s \in Browser \ {SessionOf(l)} : Held(s)' = Held(s)
    BY <1>1, <2>1 DEF Held, SlotsInv, Typed
  <2>5. Cardinality(Held(SessionOf(l)) \ {l}) = Cardinality(Held(SessionOf(l))) - 1
    BY <1>1, <2>3, HeldFinite, FS_RemoveElement
  <2>6. /\ taken'[SessionOf(l)] = taken[SessionOf(l)] - 1
        /\ \A s \in Browser \ {SessionOf(l)} : taken'[s] = taken[s]
    BY <1>1, <2>1 DEF SlotsInv, Typed
  <2>7. StreamSlotsExact'
    BY <1>1, <2>3, <2>4, <2>5, <2>6 DEF SlotsInv, StreamSlotsExact
  <2>8. \A s \in Browser : taken'[s] <= Slots
    BY <1>1, <2>6, StreamBoundAssumption DEF SlotsInv, Typed
  <2> QED
    BY <2>7, <2>8 DEF SlotsInv
<1> QED
  BY <1>2, <1>3

\* A request takes over the slot of the one it replaces, or a free one.
LEMMA ClaimSlots ==
  ASSUME SlotsInv, Typed', NEW r \in Req, NEW l \in Link, NEW kept, Claim(r, l, kept)
  PROVE  SlotsInv'
<1>1. SessionOf(l) \in Browser /\ r # None
  BY SessionOfType, NoneAssumption
<1>2. /\ live' = [live EXCEPT ![l] = r]
      /\ taken' = [taken EXCEPT ![SessionOf(l)] = IF live[l] = None THEN @ + 1 ELSE @]
      /\ live[l] # None \/ taken[SessionOf(l)] < Slots
  BY DEF Claim, SlotFor
<1>3. Held(SessionOf(l))' = Held(SessionOf(l)) \cup {l}
  BY <1>1, <1>2 DEF Held, SlotsInv, Typed
<1>4. \A s \in Browser \ {SessionOf(l)} : Held(s)' = Held(s)
  BY <1>1, <1>2 DEF Held, SlotsInv, Typed
<1>5. l \in Held(SessionOf(l)) <=> live[l] # None
  BY DEF Held
<1>6. Cardinality(Held(SessionOf(l)) \cup {l}) =
        IF live[l] = None THEN Cardinality(Held(SessionOf(l))) + 1
                          ELSE Cardinality(Held(SessionOf(l)))
  BY <1>1, <1>5, HeldFinite, FS_AddElement
<1>7. /\ taken'[SessionOf(l)] = IF live[l] = None THEN taken[SessionOf(l)] + 1
                                                  ELSE taken[SessionOf(l)]
      /\ \A s \in Browser \ {SessionOf(l)} : taken'[s] = taken[s]
  BY <1>1, <1>2 DEF SlotsInv, Typed
<1>8. StreamSlotsExact'
  BY <1>1, <1>3, <1>4, <1>6, <1>7 DEF SlotsInv, StreamSlotsExact
<1>9. \A s \in Browser : taken'[s] <= Slots
  BY <1>1, <1>2, <1>7, StreamBoundAssumption DEF SlotsInv, Typed
<1> QED
  BY <1>8, <1>9 DEF SlotsInv

LEMMA InitSlots == MediaInit => SlotsInv
<1> SUFFICES ASSUME MediaInit PROVE SlotsInv
  OBVIOUS
<1>1. \A s \in Browser : Held(s) = {}
  BY DEF MediaInit, Held
<1>2. StreamSlotsExact /\ \A s \in Browser : taken[s] <= Slots
  BY <1>1, FS_EmptySet, StreamBoundAssumption DEF MediaInit, StreamSlotsExact
<1> QED
  BY <1>2, InitTyped DEF SlotsInv

LEMMA NextSlots == SlotsInv /\ [MediaNext]_mediaVars => SlotsInv'
<1> SUFFICES ASSUME SlotsInv, [MediaNext]_mediaVars PROVE SlotsInv'
  OBVIOUS
<1>0. Typed'
  BY NextTyped DEF SlotsInv
<1>1. CASE UNCHANGED mediaVars \/ ConnStep \/ MediaLinkStep
  <2>1. UNCHANGED <<live, taken>>
    BY <1>1 DEF mediaVars, ConnStep, ConnectionUp, ConnectionEnds, SessionEnds, MediaLinkStep, AskMedia,
                AskFails, MintMedia, GetGone, SweepMedia, SweepPrimed
  <2> QED
    BY <1>0, <2>1, SameSlots
<1>2. ASSUME NEW r \in Req, MediaGetStep(r)
      PROVE  SlotsInv'
  <2>1. CASE UNCHANGED <<live, taken>>
    BY <1>0, <2>1, SameSlots
  <2>2. CASE \E l \in Link, b \in BOOLEAN : Claim(r, l, b)
    BY <1>0, <2>2, ClaimSlots
  <2> QED
    BY <1>2, <2>1, <2>2 DEF MediaGetStep, GetEmpty, Busy, RateLimited
<1>3. ASSUME NEW r \in Req, StreamStep(r) \/ PlayerGone(r)
      PROVE  SlotsInv'
  <2>1. CASE Started(r) \/ MediaDialled(r)
    BY <1>0, <2>1, SameSlots DEF Started, MediaDialled
  <2>2. CASE phase[r] \in Underway /\ Finish(r)
    BY <1>0, <2>2, FinishSlots
  <2> QED
    BY <1>3, <2>1, <2>2 DEF StreamStep, StreamFails, Settled, PlayerGone, Underway
<1> QED
  BY <1>1, <1>2, <1>3 DEF MediaNext

LEMMA SlotsAlways == MediaSpec => []SlotsInv
BY InitSlots, NextSlots, PTL DEF MediaSpec

\* No slot leaks and none is given back twice: a session's count is the number
\* of its links with a request streaming, however the streams end.
THEOREM SlotsCounted == MediaSpec => []StreamSlotsExact
<1>1. SlotsInv => StreamSlotsExact
  BY DEF SlotsInv
<1> QED
  BY <1>1, SlotsAlways, PTL

\* Every reachable state is well typed, and no session uses more slots than
\* it has.
THEOREM TypeCorrect == MediaSpec => []MediaTypeOK
<1>1. SlotsInv => MediaTypeOK
  <2> SUFFICES ASSUME SlotsInv, NEW s \in Browser PROVE taken[s] \in 0..Slots
    BY DEF SlotsInv, Typed, MediaTypeOK
  <2>1. taken[s] = Cardinality(Held(s)) /\ taken[s] <= Slots /\ Cardinality(Held(s)) \in Nat
    BY HeldFinite DEF SlotsInv, StreamSlotsExact
  <2> QED
    BY <2>1, StreamBoundAssumption
<1> QED
  BY <1>1, SlotsAlways, PTL

-----------------------------------------------------------------------------
(* The streams.                                                            *)

\* A request that was not cut is its link's live one, and the link holds: what
\* BytesOnlyWhileHeld says of sending requests holds at every await before.
Uncut(r) == phase[r] \in {"starting", "dialling", "streaming"} /\ r \notin cancelled
OnHeldLink(r) == of[r] \in links /\ Holds(of[r]) /\ live[of[r]] = r

StreamInv ==
  /\ Typed
  /\ \A r \in Req : Uncut(r) => OnHeldLink(r)
  /\ \A r \in Req : phase[r] = "streaming" => r \notin cancelled

\* Cutting leaves uncut only requests that were uncut and are not cut now.
LEMMA CutStreams ==
  ASSUME StreamInv, NEW R \in SUBSET Req, Cut(R)
  PROVE  /\ \A r \in Req : Uncut(r)' => Uncut(r) /\ r \notin R
         /\ \A r \in Req : phase'[r] = "streaming" => r \notin cancelled'
BY DEF StreamInv, Typed, Cut, Uncut

\* A dropped link takes its uncut request with it.
LEMMA DropStreams ==
  ASSUME StreamInv, Typed', NEW L \in SUBSET Link, Drop(L),
         UNCHANGED <<live, of>>,
         \A l \in links \ L : Holds(l) => Holds(l)'
  PROVE  StreamInv'
<1>1. StreamsOf(L) \subseteq Req
  BY StreamsOfType DEF StreamInv
<1>2. /\ \A r \in Req : Uncut(r)' => Uncut(r) /\ r \notin StreamsOf(L)
      /\ \A r \in Req : phase'[r] = "streaming" => r \notin cancelled'
  BY <1>1, CutStreams DEF Drop
<1>3. ASSUME NEW r \in Req, Uncut(r)'
      PROVE  OnHeldLink(r)'
  <2>1. PICK l \in Link : l = of[r] /\ l \in links /\ Holds(l) /\ live[l] = r
    BY <1>2, <1>3 DEF StreamInv, OnHeldLink, Typed
  <2>2. l \notin L
    BY <1>2, <1>3, <2>1, NoneAssumption DEF StreamsOf
  <2>3. Holds(l)'
    BY <2>1, <2>2
  <2> QED
    BY <2>1, <2>2, <2>3 DEF Drop, OnHeldLink
<1> QED
  BY <1>2, <1>3 DEF StreamInv

LEMMA ConnStepStreams ==
  ASSUME StreamInv, Typed', ConnStep
  PROVE  StreamInv'
<1>1. ASSUME NEW c \in Conn, ConnectionUp(c)
      PROVE  StreamInv'
  <2>1. ASSUME NEW r \in Req, Uncut(r)
        PROVE  OnHeldLink(r)'
    <3>1. PICK l \in Link : l = of[r] /\ l \in links /\ Holds(l) /\ live[l] = r
      BY <2>1 DEF StreamInv, OnHeldLink, Typed
    <3>2. SessionOf(l) # Owner[c] /\ SessionOf(l) \in Browser
      BY <1>1, <3>1, SessionOfType, LinkAssumption, NoneAssumption DEF ConnectionUp, Holds
    <3>3. Holds(l)'
      BY <1>1, <3>1, <3>2 DEF ConnectionUp, Holds, StreamInv, Typed
    <3> QED
      BY <1>1, <3>1, <3>3 DEF ConnectionUp, OnHeldLink
  <2> QED
    BY <1>1, <2>1 DEF ConnectionUp, StreamInv, Uncut
<1>2. ASSUME NEW c \in Conn, ConnectionEnds(c)
      PROVE  StreamInv'
  <2> DEFINE L == {l \in links : LinkConn[l] = c}
  <2>1. L \subseteq Link
    BY DEF StreamInv, Typed
  <2>2. \A l \in links \ L : Holds(l) => Holds(l)'
    BY <1>2, LinkAssumption, SessionOfType DEF ConnectionEnds, Holds, StreamInv, Typed
  <2> QED
    BY <1>2, <2>1, <2>2, DropStreams DEF ConnectionEnds
<1>3. ASSUME NEW s \in Browser, SessionEnds(s)
      PROVE  StreamInv'
  <2> DEFINE L == {l \in links : SessionOf(l) = s}
  <2>1. L \subseteq Link
    BY DEF StreamInv, Typed
  <2>2. \A l \in links \ L : Holds(l) => Holds(l)'
    BY <1>3, SessionOfType DEF SessionEnds, Holds, StreamInv, Typed
  <2> QED
    BY <1>3, <2>1, <2>2, DropStreams DEF SessionEnds
<1> QED
  BY <1>1, <1>2, <1>3 DEF ConnStep

LEMMA MintStreams ==
  ASSUME StreamInv, Typed', NEW l \in Link, MintMedia(l)
  PROVE  StreamInv'
<1> DEFINE gone == SameFile(l) \cup Excess(l)
<1>1. gone \subseteq Link
  BY DEF StreamInv, Typed, SameFile, Excess, Owned
<1>2. StreamsOf(gone) \subseteq Req
  BY <1>1, StreamsOfType DEF StreamInv
<1>3. /\ links' = (links \ gone) \cup {l}
      /\ Cut(StreamsOf(gone))
      /\ UNCHANGED <<cur, live, of>>
  BY DEF MintMedia, connVars
<1> HIDE DEF gone
<1>4. /\ \A r \in Req : Uncut(r)' => Uncut(r) /\ r \notin StreamsOf(gone)
      /\ \A r \in Req : phase'[r] = "streaming" => r \notin cancelled'
  BY <1>2, <1>3, CutStreams
<1>5. ASSUME NEW r \in Req, Uncut(r)'
      PROVE  OnHeldLink(r)'
  <2>1. OnHeldLink(r) /\ r \notin StreamsOf(gone)
    BY <1>4, <1>5 DEF StreamInv
  <2>2. of[r] \notin gone
    BY <2>1, NoneAssumption DEF StreamsOf, OnHeldLink
  <2> QED
    BY <1>3, <2>1, <2>2 DEF OnHeldLink, Holds
<1> QED
  BY <1>4, <1>5 DEF StreamInv

LEMMA LinkStepStreams ==
  ASSUME StreamInv, Typed', MediaLinkStep
  PROVE  StreamInv'
<1>1. ASSUME NEW l \in Link, AskMedia(l) \/ AskFails(l)
      PROVE  StreamInv'
  BY <1>1 DEF StreamInv, AskMedia, AskFails, Uncut, OnHeldLink, Holds, connVars
<1>2. ASSUME NEW l \in Link, GetGone(l)
      PROVE  StreamInv'
  BY <1>2, DropStreams DEF GetGone, Holds, connVars
<1>3. ASSUME NEW L \in SUBSET links, SweepMedia(L)
      PROVE  StreamInv'
  <2>1. L \cup {l \in links : ~Holds(l)} \subseteq Link
    BY DEF StreamInv, Typed
  <2> QED
    BY <1>3, <2>1, DropStreams DEF SweepMedia, Holds, connVars
<1>4. ASSUME NEW L \in SUBSET primed, SweepPrimed(L)
      PROVE  StreamInv'
  BY <1>4 DEF StreamInv, SweepPrimed, Uncut, OnHeldLink, Holds, connVars
<1> QED
  BY <1>1, <1>2, <1>3, <1>4, MintStreams DEF MediaLinkStep

LEMMA GetStepStreams ==
  ASSUME StreamInv, Typed', NEW r \in Req, MediaGetStep(r)
  PROVE  StreamInv'
<1> USE DEF StreamInv, Typed, Uncut, OnHeldLink, Holds, connVars, Asked
<1>1. ASSUME NEW l \in Link, GetEmpty(r, l) \/ Busy(r, l)
      PROVE  StreamInv'
  BY <1>1 DEF GetEmpty, Busy
<1>2. ASSUME NEW l \in Link, RateLimited(r, l)
      PROVE  StreamInv'
  BY <1>2 DEF RateLimited
<1>3. ASSUME NEW l \in Link, NEW b \in BOOLEAN, Claim(r, l, b)
      PROVE  StreamInv'
  <2>1. \A q \in Req \ {r} :
          Uncut(q)' => Uncut(q) /\ q \notin StreamsOf({l})
    BY <1>3 DEF Claim
  <2>2. \A q \in Req \ {r} : Uncut(q)' => OnHeldLink(q)'
    BY <1>3, <2>1, NoneAssumption DEF Claim, StreamsOf
  <2>3. OnHeldLink(r)'
    BY <1>3 DEF Claim
  <2>4. \A q \in Req : phase'[q] = "streaming" => q \notin cancelled'
    BY <1>3 DEF Claim, StreamsOf
  <2> QED
    BY <2>2, <2>3, <2>4
<1> QED
  BY <1>1, <1>2, <1>3 DEF MediaGetStep

LEMMA StreamStepStreams ==
  ASSUME StreamInv, Typed', NEW r \in Req, StreamStep(r) \/ PlayerGone(r)
  PROVE  StreamInv'
<1>1. CASE Started(r) \/ MediaDialled(r)
  BY <1>1 DEF StreamInv, Typed, Uncut, OnHeldLink, Holds, Started, MediaDialled, connVars
<1>2. CASE StreamFails(r) \/ Settled(r) \/ PlayerGone(r)
  <2>1. Finish(r) /\ UNCHANGED <<cur, links, of>>
    BY <1>2 DEF StreamFails, Settled, PlayerGone, connVars
  <2>2. ~Uncut(r)' /\ \A q \in Req \ {r} : Uncut(q)' => Uncut(q)
    BY <1>2 DEF StreamInv, Typed, StreamFails, Settled, PlayerGone, Cut, Uncut
  <2>3. \A q \in Req \ {r} : OnHeldLink(q) => OnHeldLink(q)'
    BY <2>1 DEF StreamInv, Typed, Finish, OnHeldLink, Holds
  <2>4. \A q \in Req : phase'[q] = "streaming" => q \notin cancelled'
    BY <1>2 DEF StreamInv, Typed, StreamFails, Settled, PlayerGone, Cut
  <2> QED
    BY <2>2, <2>3, <2>4 DEF StreamInv
<1> QED
  BY <1>1, <1>2 DEF StreamStep

LEMMA NextStreams == StreamInv /\ Typed' /\ [MediaNext]_mediaVars => StreamInv'
<1> SUFFICES ASSUME StreamInv, Typed', [MediaNext]_mediaVars PROVE StreamInv'
  OBVIOUS
<1>1. CASE UNCHANGED mediaVars
  BY <1>1 DEF mediaVars, StreamInv, Uncut, OnHeldLink, Holds
<1>2. CASE MediaNext
  BY <1>2, ConnStepStreams, LinkStepStreams, GetStepStreams, StreamStepStreams DEF MediaNext
<1> QED
  BY <1>1, <1>2

\* Bytes flow only for a link that exists, whose connection is its session's,
\* and only for the request that claimed it last, whatever races the awaits.
THEOREM NoBytesAfterEnd == MediaSpec => []BytesOnlyWhileHeld
<1>1. MediaInit => StreamInv
  BY InitTyped DEF MediaInit, StreamInv, Uncut
<1>2. MediaSpec => []Typed
  BY InitTyped, NextTyped, PTL DEF MediaSpec
<1>3. StreamInv => BytesOnlyWhileHeld
  BY DEF StreamInv, Uncut, OnHeldLink, BytesOnlyWhileHeld
<1> QED
  BY <1>1, <1>2, <1>3, NextStreams, PTL DEF MediaSpec

\* A request refused an open or a slot stops no other request's stream.
THEOREM RefusalCutsNothing == MediaSpec => RefusedSeekKeepsPlaying
<1>1. ASSUME Typed, [MediaNext]_mediaVars
      PROVE  RefusalKeepsStreams
  <2> SUFFICES ASSUME NEW r \in Req, NEW q \in Req,
                      phase[r] # "refused", phase'[r] = "refused", phase[q] = "streaming"
               PROVE  phase'[q] = "streaming"
    BY DEF RefusalKeepsStreams
  <2>1. CASE UNCHANGED mediaVars \/ ConnStep \/ MediaLinkStep
    BY <1>1, <2>1 DEF mediaVars, ConnStep, ConnectionUp, ConnectionEnds, SessionEnds, MediaLinkStep, AskMedia,
                AskFails, MintMedia, GetGone, SweepMedia, SweepPrimed, Drop, Cut, Typed
  <2>2. CASE \E p \in Req : StreamStep(p) \/ PlayerGone(p)
    BY <1>1, <2>2 DEF StreamStep, StreamFails, Started, MediaDialled, Settled, PlayerGone, Cut, Typed
  <2>3. CASE \E p \in Req : MediaGetStep(p)
    <3>1. PICK p \in Req : MediaGetStep(p)
      BY <2>3
    <3>2. PICK l \in Link : \/ GetEmpty(p, l) \/ Busy(p, l)
                            \/ RateLimited(p, l)
                            \/ \E kept \in BOOLEAN : Claim(p, l, kept)
      BY <3>1 DEF MediaGetStep
    <3> QED
      BY <1>1, <3>2 DEF GetEmpty, Busy, RateLimited, Claim, Asked, Typed
  <2> QED
    BY <1>1, <2>1, <2>2, <2>3 DEF MediaNext
<1>2. MediaSpec => []Typed
  BY InitTyped, NextTyped, PTL DEF MediaSpec
<1>3. Typed /\ [MediaNext]_mediaVars => [RefusalKeepsStreams]_mediaVars
  BY <1>1
<1> QED
  BY <1>2, <1>3, PTL DEF MediaSpec, RefusedSeekKeepsPlaying
=============================================================================
