------------------------ MODULE FileTransfers_proofs ------------------------
(***************************************************************************)
(* Proofs about FileTransfers for any sessions, downloads and uploads and  *)
(* any limits: the counters are exact and the transfers are the abstract   *)
(* SlotPool.  Then about StickerStore, whatever people store and whenever  *)
(* the hub dies.                                                           *)
(***************************************************************************)
EXTENDS FileTransfers, StickerStore, FiniteSetTheorems, TLAPS

-----------------------------------------------------------------------------
(* Types, but for the bounds of the counters, and where a link's slots are. *)

Transfer == Download \cup Upload

Typed ==
  /\ connected \subseteq Session
  /\ perSession \in [Session -> Nat]
  /\ inUse \in Int
  /\ downloads \in [Session -> Nat]
  /\ dl \in [Download -> DownloadPhases]
  /\ released \subseteq Download
  /\ tickets \subseteq Download
  /\ born \in [Download -> Nat]
  /\ lapsed \subseteq Download
  /\ reserved \subseteq Download
  /\ up \in [Upload -> UploadPhases]

\* The slots of a download are held by the POST, then by the link (reserved),
\* then by the GET, one after another and never by two.
LinkInv ==
  /\ \A d \in Download : d \in reserved <=> dl[d] = "link"
  /\ released \subseteq {d \in Download : dl[d] \in {"dialling", "done"}}
  /\ \A d \in Download : born[d] > 0 => dl[d] \notin {"idle", "starting"}
  /\ \A d \in tickets \cup lapsed : born[d] > 0
  /\ tickets \ lapsed \subseteq reserved

Counted ==
  /\ SlotsExact
  /\ inUse <= MaxHub
  /\ \A s \in Session : perSession[s] <= MaxTransfers /\ downloads[s] <= downloadSlots

Inv == Typed /\ LinkInv /\ Counted

LEMMA OwnerType == \A t \in Transfer : OwnerOf[t] \in Session
BY TransferAssumption DEF Transfer

LEMMA HoldingFinite ==
  /\ IsFiniteSet(Holding) /\ Cardinality(Holding) \in Nat /\ Holding \subseteq Transfer
  /\ \A s \in Session :
       /\ IsFiniteSet(HeldBy(s)) /\ Cardinality(HeldBy(s)) \in Nat
       /\ IsFiniteSet(HeldBy(s) \cap Download) /\ Cardinality(HeldBy(s) \cap Download) \in Nat
<1>1. IsFiniteSet(Transfer)
  BY TransferAssumption, FS_Union DEF Transfer
<1>2. Holding \subseteq Transfer
  BY DEF Holding, Transfer
<1>3. \A s \in Session : HeldBy(s) \subseteq Transfer /\ HeldBy(s) \cap Download \subseteq Transfer
  BY <1>2 DEF HeldBy
<1> QED
  BY <1>1, <1>2, <1>3, FS_Subset, FS_CardinalityType

-----------------------------------------------------------------------------
(* The three ways a step can change who holds a slot.                      *)

LEMMA SameHolders ==
  ASSUME Counted, Holding' = Holding, UNCHANGED slotVars
  PROVE  Counted'
<1>1. \A s \in Session : HeldBy(s)' = HeldBy(s)
  BY DEF HeldBy
<1> QED
  BY <1>1 DEF Counted, SlotsExact, slotVars

\* The pool counts the way this module does.
LEMMA PoolCounts == \A S : Pool!Cardinality(S) = Cardinality(S)
BY DEF Pool!Cardinality, Cardinality

LEMMA OneMore ==
  ASSUME Typed, Counted, NEW t \in Transfer, t \notin Holding,
         Holding' = Holding \cup {t},
         SlotFree(OwnerOf[t]), Acquire(OwnerOf[t]),
         IF t \in Download
         THEN /\ downloads[OwnerOf[t]] < downloadSlots
              /\ downloads' = [downloads EXCEPT ![OwnerOf[t]] = @ + 1]
         ELSE UNCHANGED downloads
  PROVE  Counted' /\ Pool!Take(t)
<1>0. PICK o \in Session : o = OwnerOf[t]
  BY OwnerType
<1>1. /\ HeldBy(o)' = HeldBy(o) \cup {t}
      /\ \A s \in Session \ {o} : HeldBy(s)' = HeldBy(s)
  BY <1>0 DEF HeldBy
<1>2. t \notin HeldBy(o)
  BY <1>0 DEF HeldBy
<1>3. /\ Cardinality(HeldBy(o) \cup {t}) = Cardinality(HeldBy(o)) + 1
      /\ Cardinality(Holding \cup {t}) = Cardinality(Holding) + 1
  BY <1>0, <1>2, HoldingFinite, FS_AddElement
<1>4. /\ perSession'[o] = perSession[o] + 1
      /\ \A s \in Session \ {o} : perSession'[s] = perSession[s]
      /\ inUse' = inUse + 1
  BY <1>0 DEF Acquire, Typed
<1>5. inUse < MaxHub /\ perSession[o] < MaxTransfers
  BY <1>0 DEF SlotFree
<1>6. /\ \A s \in Session : downloads'[s] = Cardinality(HeldBy(s)' \cap Download)
      /\ \A s \in Session : downloads'[s] <= downloadSlots
  <2>1. CASE t \in Download
    <3>1. HeldBy(o)' \cap Download = (HeldBy(o) \cap Download) \cup {t}
      BY <1>1, <2>1
    <3>2. Cardinality((HeldBy(o) \cap Download) \cup {t}) = Cardinality(HeldBy(o) \cap Download) + 1
      BY <1>0, <1>2, HoldingFinite, FS_AddElement
    <3>3. /\ downloads'[o] = downloads[o] + 1 /\ downloads[o] < downloadSlots
          /\ \A s \in Session \ {o} : downloads'[s] = downloads[s]
      BY <1>0, <2>1 DEF Typed
    <3>4. downloadSlots \in Int
      BY BoundAssumption DEF downloadSlots
    <3>5. downloads'[o] = Cardinality(HeldBy(o)' \cap Download) /\ downloads'[o] <= downloadSlots
      <4>1. /\ downloads[o] = Cardinality(HeldBy(o) \cap Download)
            /\ downloads[o] \in Nat
        BY <1>0 DEF Counted, SlotsExact, Typed
      <4> QED
        BY <3>1, <3>2, <3>3, <3>4, <4>1
    <3>6. \A s \in Session \ {o} :
            /\ downloads'[s] = Cardinality(HeldBy(s)' \cap Download)
            /\ downloads'[s] <= downloadSlots
      BY <1>1, <3>3 DEF Counted, SlotsExact
    <3> QED
      BY <3>5, <3>6
  <2>2. CASE t \notin Download
    <3>1. \A s \in Session : HeldBy(s)' \cap Download = HeldBy(s) \cap Download
      BY <1>1, <2>2
    <3> QED
      BY <2>2, <3>1 DEF Counted, SlotsExact
  <2> QED
    BY <2>1, <2>2
<1>7. Pool!Take(t)
  <2>1. Pool!Of(o) = HeldBy(o)
    BY DEF Pool!Of, HeldBy
  <2>2. Pool!DownloadSlots = downloadSlots
    BY DEF Pool!DownloadSlots, downloadSlots
  <2>3. t \in Download => Cardinality(HeldBy(o) \cap Download) < downloadSlots
    BY <1>0 DEF Counted, SlotsExact
  <2>4. Cardinality(Holding) < MaxHub /\ Cardinality(HeldBy(o)) < MaxTransfers
    BY <1>0, <1>5 DEF Counted, SlotsExact
  <2>5. Holding' = Holding \cup {t} /\ t \notin Holding
    OBVIOUS
  <2> QED
    BY <1>0, <2>1, <2>2, <2>3, <2>4, <2>5, PoolCounts DEF Pool!Take
<1>8. Counted'
  <2>1. \A s \in Session : perSession'[s] = Cardinality(HeldBy(s)')
    BY <1>0, <1>1, <1>3, <1>4 DEF Counted, SlotsExact
  <2>2. \A s \in Session : perSession'[s] <= MaxTransfers
    BY <1>0, <1>4, <1>5, BoundAssumption DEF Counted, Typed
  <2>3. inUse' = Cardinality(Holding') /\ inUse' <= MaxHub
    BY <1>3, <1>4, <1>5, BoundAssumption DEF Counted, SlotsExact, Typed
  <2> QED
    BY <1>6, <2>1, <2>2, <2>3 DEF Counted, SlotsExact, downloadSlots
<1> QED
  BY <1>7, <1>8

LEMMA OneLess ==
  ASSUME Typed, Counted, NEW t \in Transfer, t \in Holding,
         Holding' = Holding \ {t},
         Release(OwnerOf[t]),
         IF t \in Download
         THEN downloads' = [downloads EXCEPT ![OwnerOf[t]] = IF @ = 0 THEN 0 ELSE @ - 1]
         ELSE UNCHANGED downloads
  PROVE  Counted' /\ Pool!Give(t)
<1>0. PICK o \in Session : o = OwnerOf[t]
  BY OwnerType
<1>1. /\ HeldBy(o)' = HeldBy(o) \ {t}
      /\ \A s \in Session \ {o} : HeldBy(s)' = HeldBy(s)
  BY <1>0 DEF HeldBy
<1>2. t \in HeldBy(o)
  BY <1>0 DEF HeldBy
<1>3. /\ Cardinality(HeldBy(o) \ {t}) = Cardinality(HeldBy(o)) - 1
      /\ Cardinality(Holding \ {t}) = Cardinality(Holding) - 1
  BY <1>0, <1>2, HoldingFinite, FS_RemoveElement
<1>4. perSession[o] # 0
  <2>1. Cardinality(HeldBy(o)) # 0
    BY <1>0, <1>2, HoldingFinite, FS_EmptySet
  <2> QED
    BY <1>0, <2>1 DEF Counted, SlotsExact
<1>5. /\ perSession'[o] = perSession[o] - 1
      /\ \A s \in Session \ {o} : perSession'[s] = perSession[s]
      /\ inUse' = inUse - 1
  BY <1>0, <1>4 DEF Release, Typed
<1>6. /\ \A s \in Session : downloads'[s] = Cardinality(HeldBy(s)' \cap Download)
      /\ \A s \in Session : downloads'[s] <= downloadSlots
  <2>1. CASE t \in Download
    <3>1. HeldBy(o)' \cap Download = (HeldBy(o) \cap Download) \ {t}
      BY <1>1
    <3>2. t \in HeldBy(o) \cap Download
      BY <1>2, <2>1
    <3>3. /\ Cardinality((HeldBy(o) \cap Download) \ {t}) = Cardinality(HeldBy(o) \cap Download) - 1
          /\ Cardinality(HeldBy(o) \cap Download) # 0
      BY <1>0, <3>2, HoldingFinite, FS_RemoveElement, FS_EmptySet
    <3>4. /\ downloads'[o] = downloads[o] - 1
          /\ \A s \in Session \ {o} : downloads'[s] = downloads[s]
      BY <1>0, <2>1, <3>3 DEF Counted, SlotsExact, Typed
    <3>5. downloadSlots \in Int
      BY BoundAssumption DEF downloadSlots
    <3>6. downloads'[o] = Cardinality(HeldBy(o)' \cap Download) /\ downloads'[o] <= downloadSlots
      <4>1. /\ downloads[o] = Cardinality(HeldBy(o) \cap Download)
            /\ downloads[o] \in Nat /\ downloads[o] <= downloadSlots
        BY <1>0 DEF Counted, SlotsExact, Typed
      <4> QED
        BY <3>1, <3>3, <3>4, <3>5, <4>1
    <3>7. \A s \in Session \ {o} :
            /\ downloads'[s] = Cardinality(HeldBy(s)' \cap Download)
            /\ downloads'[s] <= downloadSlots
      BY <1>1, <3>4 DEF Counted, SlotsExact
    <3> QED
      BY <3>6, <3>7
  <2>2. CASE t \notin Download
    <3>1. \A s \in Session : HeldBy(s)' \cap Download = HeldBy(s) \cap Download
      BY <1>1, <2>2
    <3> QED
      BY <2>2, <3>1 DEF Counted, SlotsExact
  <2> QED
    BY <2>1, <2>2
<1>7. Counted'
  <2>1. \A s \in Session : perSession'[s] = Cardinality(HeldBy(s)')
    BY <1>0, <1>1, <1>3, <1>5 DEF Counted, SlotsExact
  <2>2. \A s \in Session : perSession'[s] <= MaxTransfers
    BY <1>0, <1>5, BoundAssumption DEF Counted, Typed
  <2>3. inUse' = Cardinality(Holding') /\ inUse' <= MaxHub
    BY <1>3, <1>5, BoundAssumption DEF Counted, SlotsExact, Typed
  <2> QED
    BY <1>6, <2>1, <2>2, <2>3 DEF Counted, SlotsExact, downloadSlots
<1> QED
  BY <1>7 DEF Pool!Give

-----------------------------------------------------------------------------
(* Types and links.                                                        *)

LEMMA ReleaseType ==
  ASSUME Typed, NEW s \in Session, Release(s)
  PROVE  perSession' \in [Session -> Nat] /\ inUse' \in Int
BY DEF Typed, Release

LEMMA GiveBackType ==
  ASSUME Typed, NEW d \in Download, GiveBack(d)
  PROVE  /\ perSession' \in [Session -> Nat] /\ inUse' \in Int
         /\ downloads' \in [Session -> Nat]
         /\ released' = released \cup {d}
<1>1. OwnerOf[d] \in Session
  BY OwnerType DEF Transfer
<1> QED
  BY <1>1, ReleaseType DEF Typed, GiveBack, ReleaseDownload, slotVars

LEMMA BornType ==
  ASSUME Typed, NEW d \in Download, Mint(d)
  PROVE  born' \in [Download -> Nat] /\ born'[d] > 0
         /\ \A e \in Download \ {d} : born'[e] = born[e]
<1>1. IsFiniteSet({e \in Download : born[e] > 0})
  BY TransferAssumption, FS_Subset
<1>2. Cardinality({e \in Download : born[e] > 0}) \in Nat
  BY <1>1, FS_CardinalityType
<1>3. born' = [born EXCEPT ![d] = 1 + Cardinality({e \in Download : born[e] > 0})]
  BY DEF Mint
<1> QED
  BY <1>2, <1>3 DEF Typed

LEMMA LinkStepLinks ==
  ASSUME Inv, NEW d \in Download, LinkStep(d)
  PROVE  Typed' /\ LinkInv'
<1> USE DEF Inv, DownloadPhases, linkVars, slotVars
<1>0. OwnerOf[d] \in Session
  BY OwnerType DEF Transfer
<1>1. CASE Ask(d)
  BY <1>0, <1>1 DEF Typed, LinkInv, Ask, ReserveDownload, Acquire
<1>2. CASE AskRefused(d)
  BY <1>2 DEF Typed, LinkInv, AskRefused
<1>3. CASE InitFails(d)
  <2>1. Release(OwnerOf[d])
    BY <1>3 DEF InitFails, ReleaseDownload
  <2> QED
    BY <1>0, <1>3, <2>1, ReleaseType DEF Typed, LinkInv, InitFails, ReleaseDownload
<1>4. CASE Mint(d)
  <2>1. born' \in [Download -> Nat] /\ born'[d] > 0
        /\ \A e \in Download \ {d} : born'[e] = born[e]
    BY <1>4, BornType
  <2>2. /\ dl[d] = "starting" /\ dl' = [dl EXCEPT ![d] = "link"]
        /\ tickets' \subseteq tickets \cup {d}
        /\ reserved' = reserved \cup {d}
        /\ UNCHANGED <<connected, slotVars, lapsed, released, up>>
    BY <1>4 DEF Mint
  <2>3. Typed'
    BY <2>1, <2>2 DEF Typed
  <2> QED
    BY <2>1, <2>2, <2>3 DEF Typed, LinkInv
<1>5. CASE Lapse(d)
  BY <1>5 DEF Typed, LinkInv, Lapse
<1>6. CASE Timer(d)
  <2>1. Release(OwnerOf[d])
    BY <1>6 DEF Timer, ReleaseDownload
  <2> QED
    BY <1>0, <1>6, <2>1, ReleaseType DEF Typed, LinkInv, Timer, ReleaseDownload
<1> QED
  BY <1>1, <1>2, <1>3, <1>4, <1>5, <1>6 DEF LinkStep

LEMMA GetStepLinks ==
  ASSUME Inv, NEW d \in Download, GetStep(d)
  PROVE  Typed' /\ LinkInv'
<1> USE DEF Inv, DownloadPhases, linkVars, slotVars
<1>1. CASE GetLate(d) \/ Get(d)
  BY <1>1 DEF Typed, LinkInv, GetLate, Get
<1>2. CASE GetForNobody(d)
  <2>1. GiveBack(d)
    BY <1>2 DEF GetForNobody
  <2> QED
    BY <1>2, <2>1, GiveBackType DEF Typed, LinkInv, GetForNobody
<1>3. CASE DialFails(d) \/ Closed(d)
  <2>1. GiveBack(d)
    BY <1>3 DEF DialFails, Closed
  <2> QED
    BY <1>3, <2>1, GiveBackType DEF Typed, LinkInv, DialFails, Closed
<1>4. CASE Dialled(d)
  BY <1>4 DEF Typed, LinkInv, Dialled
<1> QED
  BY <1>1, <1>2, <1>3, <1>4 DEF GetStep

LEMMA UploadStepLinks ==
  ASSUME Inv, NEW u \in Upload, UploadStep(u)
  PROVE  Typed' /\ LinkInv'
<1>0. OwnerOf[u] \in Session
  BY OwnerType DEF Transfer
<1>1. UNCHANGED <<connected, downloads, linkVars, dl, released>>
  BY DEF UploadStep, Put, PutRefused, IconRead, IconBad, UploadStarted, UploadEnds, Run, slotVars
<1>2. up' \in [Upload -> UploadPhases]
  BY DEF Inv, Typed, UploadPhases, UploadStep, Put, PutRefused, IconRead, IconBad,
         UploadStarted, UploadEnds, Run
<1>3. perSession' \in [Session -> Nat] /\ inUse' \in Int
  <2>1. CASE UNCHANGED <<perSession, inUse>>
    BY <2>1 DEF Inv, Typed
  <2>2. CASE Acquire(OwnerOf[u])
    BY <1>0, <2>2 DEF Inv, Typed, Acquire
  <2>3. CASE Release(OwnerOf[u])
    BY <1>0, <2>3, ReleaseType DEF Inv
  <2> QED
    BY <2>1, <2>2, <2>3 DEF UploadStep, Put, PutRefused, IconRead, IconBad, UploadStarted,
                             UploadEnds, Run, slotVars
<1> QED
  BY <1>1, <1>2, <1>3 DEF Inv, Typed, LinkInv, linkVars

-----------------------------------------------------------------------------
(* Each step takes one slot, gives one back, or changes nobody's.          *)

PoolStep == Counted' /\ (Pool!Next \/ UNCHANGED Holding)

LEMMA StepTakes ==
  ASSUME Inv, NEW d \in Download, Ask(d)
  PROVE  PoolStep
<1>1. d \in Transfer /\ d \notin Holding /\ Holding' = Holding \cup {d}
  BY TransferAssumption DEF Inv, Typed, Ask, Transfer, Holding, Running
<1> QED
  BY <1>1, OneMore
  DEF Inv, Ask, DownloadFree, ReserveDownload, PoolStep, Pool!Next, Pool!Transfer, Transfer

LEMMA StepGives ==
  ASSUME Inv, NEW d \in Download, Running(d), ReleaseDownload(OwnerOf[d]), UNCHANGED up,
         ~Running(d)', \A e \in Download \ {d} : Running(e)' <=> Running(e)
  PROVE  PoolStep
<1>1. d \in Transfer /\ d \in Holding /\ Holding' = Holding \ {d}
  BY TransferAssumption DEF Transfer, Holding
<1> QED
  BY <1>1, OneLess DEF Inv, ReleaseDownload, PoolStep, Pool!Next, Pool!Transfer, Transfer

LEMMA StepKeeps ==
  ASSUME Inv, UNCHANGED <<slotVars, up>>, \A d \in Download : Running(d)' <=> Running(d)
  PROVE  PoolStep
<1>1. Holding' = Holding
  BY DEF Holding
<1> QED
  BY <1>1, SameHolders DEF Inv, PoolStep

LEMMA LinkStepPool ==
  ASSUME Inv, NEW d \in Download, LinkStep(d)
  PROVE  PoolStep
<1>1. CASE Ask(d)
  BY <1>1, StepTakes
<1>2. CASE AskRefused(d) \/ Mint(d) \/ Lapse(d)
  BY <1>2, StepKeeps DEF Inv, Typed, AskRefused, Mint, Lapse, Running
<1>3. CASE InitFails(d) \/ Timer(d)
  <2>1. Running(d) /\ ReleaseDownload(OwnerOf[d]) /\ UNCHANGED up
    BY <1>3 DEF Inv, LinkInv, InitFails, Timer, Running
  <2>2. ~Running(d)' /\ \A e \in Download \ {d} : Running(e)' <=> Running(e)
    BY <1>3 DEF Inv, Typed, InitFails, Timer, Running
  <2> QED
    BY <2>1, <2>2, StepGives
<1> QED
  BY <1>1, <1>2, <1>3 DEF LinkStep

LEMMA GetStepPool ==
  ASSUME Inv, NEW d \in Download, GetStep(d)
  PROVE  PoolStep
<1>1. CASE GetLate(d) \/ Get(d) \/ Dialled(d)
  BY <1>1, StepKeeps DEF Inv, Typed, LinkInv, GetLate, Get, Dialled, Running
<1>2. CASE GetForNobody(d) \/ DialFails(d) \/ Closed(d)
  <2>1. GiveBack(d) /\ UNCHANGED up
    BY <1>2 DEF GetForNobody, DialFails, Closed
  <2>2. ~Running(d)' /\ \A e \in Download \ {d} : Running(e)' <=> Running(e)
    BY <1>2, <2>1 DEF Inv, Typed, LinkInv, GetForNobody, DialFails, Closed, GiveBack, Running
  <2>3. CASE d \in released
    <3>1. ~Running(d) /\ UNCHANGED slotVars
      BY <1>2, <2>1, <2>3
      DEF Inv, LinkInv, GetForNobody, DialFails, Closed, GiveBack, Running
    <3> QED
      BY <2>1, <2>2, <3>1, StepKeeps
  <2>4. CASE d \notin released
    <3>1. Running(d) /\ ReleaseDownload(OwnerOf[d])
      BY <1>2, <2>1, <2>4
      DEF Inv, LinkInv, GetForNobody, DialFails, Closed, GiveBack, Running
    <3> QED
      BY <2>1, <2>2, <3>1, StepGives
  <2> QED
    BY <2>3, <2>4
<1> QED
  BY <1>1, <1>2 DEF GetStep

LEMMA UploadStepPool ==
  ASSUME Inv, NEW u \in Upload, UploadStep(u)
  PROVE  PoolStep
<1>0. u \in Transfer /\ u \notin Download
  BY TransferAssumption DEF Transfer
<1>1. ASSUME up[u] \in {"idle", "reading"}, Run(u)
      PROVE  PoolStep
  <2>1. CASE SlotFree(OwnerOf[u])
    <3>1. u \notin Holding /\ Holding' = Holding \cup {u}
      BY <1>0, <1>1, <2>1 DEF Inv, Typed, Run, Holding, Running
    <3> QED
      BY <1>0, <1>1, <2>1, <3>1, OneMore
      DEF Inv, Run, PoolStep, Pool!Next, Pool!Transfer, Transfer
  <2>2. CASE ~SlotFree(OwnerOf[u])
    <3>1. Holding' = Holding /\ UNCHANGED slotVars
      BY <1>1, <2>2 DEF Inv, Typed, Run, Holding, Running, slotVars
    <3> QED
      BY <3>1, SameHolders DEF Inv, PoolStep
  <2> QED
    BY <2>1, <2>2
<1>2. CASE (Put(u) /\ u \notin Icon) \/ IconRead(u)
  BY <1>1, <1>2 DEF Put, IconRead
<1>3. CASE (Put(u) /\ u \in Icon) \/ PutRefused(u) \/ IconBad(u) \/ UploadStarted(u)
  <2>1. Holding' = Holding /\ UNCHANGED slotVars
    BY <1>3 DEF Inv, Typed, Put, PutRefused, IconBad, UploadStarted, Holding, Running
  <2> QED
    BY <2>1, SameHolders DEF Inv, PoolStep
<1>4. CASE UploadEnds(u)
  <2>1. u \in Holding /\ Holding' = Holding \ {u}
    BY <1>0, <1>4 DEF Inv, Typed, UploadEnds, Holding, Running
  <2> QED
    BY <1>0, <1>4, <2>1, OneLess DEF Inv, UploadEnds, PoolStep, Pool!Next, Pool!Transfer, Transfer
<1> QED
  BY <1>2, <1>3, <1>4 DEF UploadStep

-----------------------------------------------------------------------------
LEMMA InitInv == Init => Inv /\ Holding = {}
<1> SUFFICES ASSUME Init PROVE Inv /\ Holding = {}
  OBVIOUS
<1>1. Typed /\ LinkInv
  BY DEF Init, Typed, LinkInv, DownloadPhases, UploadPhases
<1>2. Holding = {} /\ \A s \in Session : HeldBy(s) = {} /\ HeldBy(s) \cap Download = {}
  BY DEF Init, Holding, HeldBy, Running
<1>3. Counted
  <2>1. Cardinality({}) = 0
    BY FS_EmptySet
  <2>2. SlotsExact
    BY <1>2, <2>1 DEF Init, SlotsExact
  <2>3. inUse <= MaxHub /\ \A s \in Session : perSession[s] <= MaxTransfers
                                            /\ downloads[s] <= downloadSlots
    BY BoundAssumption DEF Init, downloadSlots
  <2> QED
    BY <2>2, <2>3 DEF Counted
<1> QED
  BY <1>1, <1>2, <1>3 DEF Inv

LEMMA NextInv == Inv /\ [Next]_vars => Inv' /\ (Pool!Next \/ UNCHANGED Holding)
<1> SUFFICES ASSUME Inv, [Next]_vars PROVE Inv' /\ (Pool!Next \/ UNCHANGED Holding)
  OBVIOUS
<1>1. CASE UNCHANGED vars \/ \E s \in Session : Connects(s) \/ Disconnects(s)
  <2>1. UNCHANGED <<slotVars, linkVars, dl, released, up>> /\ connected' \subseteq Session
    BY <1>1 DEF vars, Connects, Disconnects, Inv, Typed, slotVars, linkVars
  <2>2. PoolStep
    BY <2>1, StepKeeps DEF Running
  <2> QED
    BY <2>1, <2>2 DEF Inv, Typed, LinkInv, PoolStep, slotVars, linkVars
<1>2. ASSUME NEW d \in Download, LinkStep(d) \/ GetStep(d)
      PROVE  Inv' /\ PoolStep
  BY <1>2, LinkStepLinks, GetStepLinks, LinkStepPool, GetStepPool DEF Inv, PoolStep
<1>3. ASSUME NEW u \in Upload, UploadStep(u)
      PROVE  Inv' /\ PoolStep
  BY <1>3, UploadStepLinks, UploadStepPool DEF Inv, PoolStep
<1> QED
  BY <1>1, <1>2, <1>3 DEF Next, PoolStep

LEMMA InvAlways == Spec => []Inv
BY InitInv, NextInv, PTL DEF Spec

\* The session's, the downloads' and the hub's counters are the transfers that
\* run, so no slot leaks and none is given back twice.
THEOREM SlotsCounted == Spec => []SlotsExact
<1>1. Inv => SlotsExact
  BY DEF Inv, Counted
<1> QED
  BY <1>1, InvAlways, PTL

\* A live link still holds the slots its POST took.
THEOREM LinksKeepSlots == Spec => []LinksHonoured
<1>1. Inv => LinksHonoured
  BY DEF Inv, Typed, LinkInv, LinksHonoured, Running
<1> QED
  BY <1>1, InvAlways, PTL

\* Downloads never take the slot kept for an upload.
THEOREM UploadHasSlot == Spec => []UploadFindsSlot
<1>1. Inv => UploadFindsSlot
  <2> SUFFICES ASSUME Inv, MaxTransfers > 1, NEW s \in Session, HeldBy(s) \subseteq Download
               PROVE  perSession[s] < MaxTransfers
    BY DEF UploadFindsSlot
  <2>1. HeldBy(s) \cap Download = HeldBy(s)
    OBVIOUS
  <2>2. perSession[s] = downloads[s] /\ downloads[s] <= MaxTransfers - 1
    BY <2>1 DEF Inv, Counted, SlotsExact, downloadSlots
  <2> QED
    BY <2>2, BoundAssumption DEF Inv, Typed
<1> QED
  BY <1>1, InvAlways, PTL

\* The transfers that run behave as the abstract pool: every step takes one
\* free slot, gives one back, or leaves the pool alone.
THEOREM Implements == Spec => ImplementsPool
<1>1. Init => Pool!Init
  BY InitInv DEF Pool!Init
<1>2. Inv /\ [Next]_vars => [Pool!Next]_Holding
  BY NextInv
<1> QED
  BY <1>1, <1>2, InvAlways, PTL DEF Spec, ImplementsPool, Pool!Spec


-----------------------------------------------------------------------------
(* The stickers people stored.                                             *)

Places == {"down", "sweeping", "ready", "writing", "saving", "collecting"}

StickerTypes ==
  /\ trouble \in {"none", "index", "disk"}
  /\ indexFile \in [Sticker -> Picture \cup {NoPicture}]
  /\ scopes \in [Sticker -> Picture \cup {NoPicture}]
  /\ promised \in [Sticker -> Picture \cup {NoPicture}]
  /\ pictures \in [Picture -> {"none", "half", "whole"}]
  /\ indexState \in {"loaded", "unreadable"}
  /\ doing \in [at : Places, new : SUBSET Sticker, left : SUBSET Picture]

\* A store that could read its index has everything promised in memory; so writing
\* the index loses nothing.
MemoryHolds ==
  /\ doing.at # "down" /\ indexState = "loaded" =>
       \A s \in Sticker : promised[s] # NoPicture => scopes[s] = promised[s]
  /\ \A s \in Sticker : promised[s] # NoPicture => indexFile[s] = promised[s]
  /\ doing.at = "writing" => \A s \in doing.new : promised[s] = NoPicture

\* While nothing fails, a swept store has no half picture but the one it writes, and
\* the memory names only whole ones; outside of a change it is what the index says.
PicturesHold ==
  trouble = "none" =>
    /\ indexState = "loaded"
    /\ \A s \in Sticker : indexFile[s] # NoPicture => pictures[indexFile[s]] = "whole"
    /\ \A s \in Sticker : scopes[s] # NoPicture => pictures[scopes[s]] = "whole"
    /\ doing.at \in {"sweeping", "ready", "writing", "collecting"} => scopes = indexFile
    /\ doing.at \in {"ready", "writing", "saving", "collecting"} =>
         \A p \in Picture : pictures[p] # "half"
    /\ doing.at = "writing" => \A p \in doing.left : pictures[p] = "none"

StickerInv == StickerTypes /\ MemoryHolds /\ PicturesHold

-----------------------------------------------------------------------------
\* The pictures a set of entries names.
LEMMA NamedBy ==
  ASSUME NEW e \in [Sticker -> Picture \cup {NoPicture}]
  PROVE  /\ Named(e) \subseteq Picture
         /\ \A p : p \in Named(e) <=> p # NoPicture /\ \E s \in Sticker : e[s] = p
  BY DEF Named, Range

LEMMA StickerInvSurvive == StickerInv => StickersSurvive
  <1> SUFFICES ASSUME StickerInv
               PROVE  StickersSurvive
    OBVIOUS
  <1>1. trouble = "none" => NamedPicturesWhole
    BY NamedBy DEF StickerInv, StickerTypes, PicturesHold, NamedPicturesWhole
  <1> QED
    BY <1>1 DEF StickerInv, MemoryHolds, StickersSurvive

LEMMA StickerInvInit == StickerInit => StickerInv
  BY StickerAssumption
  DEF StickerInit, StickerInv, StickerTypes, MemoryHolds, PicturesHold, NoStickers, Doing, Places

LEMMA StickerInvStep == StickerInv /\ [StickerNext]_stickerVars => StickerInv'
  <1> SUFFICES ASSUME StickerInv, [StickerNext]_stickerVars
               PROVE  StickerInv'
    OBVIOUS
  <1> USE StickerAssumption DEF StickerInv, StickerTypes, MemoryHolds, PicturesHold, Places
  <1>1. CASE Load
    BY <1>1 DEF Load, NoStickers, Doing
  <1>2. ASSUME NEW p \in Picture, Sweep(p)
        PROVE  StickerInv'
    <2>1. \A s \in Sticker : scopes[s] # p \/ p = NoPicture
      BY <1>2, NamedBy DEF Sweep
    <2> QED
      BY <1>2, <2>1 DEF Sweep
  <1>3. CASE Swept
    <2>1. indexState = "loaded" /\ trouble = "none" => \A p \in Picture : pictures[p] # "half"
      <3>1. ASSUME indexState = "loaded", trouble = "none", NEW p \in Picture
            PROVE  pictures[p] # "half"
        <4>1. CASE p \in Named(scopes)
          BY <3>1, <4>1, NamedBy
        <4>2. CASE p \notin Named(scopes)
          BY <1>3, <3>1, <4>2 DEF Swept
        <4> QED
          BY <4>1, <4>2
      <3> QED
        BY <3>1
    <2> QED
      BY <1>3, <2>1 DEF Swept, Ready, Doing
  <1>4. ASSUME NEW s \in Sticker, NEW p \in Picture, Add(s, p)
        PROVE  StickerInv'
    <2>1. CASE pictures[p] = "none"
      BY <1>4, <2>1 DEF Add, Ready, Doing
    <2>2. CASE pictures[p] # "none"
      <3>1. /\ scopes' = [scopes EXCEPT ![s] = p]
            /\ doing = Doing("ready", {}, {}) /\ doing' = Doing("saving", {s}, {})
            /\ promised[s] = NoPicture
            /\ UNCHANGED <<trouble, indexFile, pictures, indexState, promised>>
        BY <1>4, <2>2 DEF Add, Puts, Ready
      <3>2. trouble = "none" => pictures[p] = "whole"
        BY <3>1, <2>2 DEF Doing
      <3> QED
        BY <3>1, <3>2 DEF Doing
    <2> QED
      BY <2>1, <2>2
  <1>5. CASE Written
    <2>1. PICK s \in doing.new, p \in doing.left :
            /\ pictures' = [pictures EXCEPT ![p] = "whole"]
            /\ scopes' = [scopes EXCEPT ![s] = p]
            /\ doing' = Doing("saving", {s}, {})
      BY <1>5 DEF Written, Puts
    <2>2. doing.at = "writing" /\ UNCHANGED <<trouble, indexFile, indexState, promised>>
      BY <1>5 DEF Written
    <2>3. s \in Sticker /\ p \in Picture
      OBVIOUS
    <2>4. promised[s] = NoPicture
      BY <2>2
    <2> QED
      BY <2>1, <2>2, <2>3, <2>4 DEF Doing
  <1>6. CASE NotWritten
    BY <1>6 DEF NotWritten, Ready, Doing
  <1>7. ASSUME NEW S \in SUBSET Sticker, Remove(S)
        PROVE  StickerInv'
    <2>1. {scopes[s] : s \in S} \subseteq Picture
      BY <1>7 DEF Remove
    <2>2. /\ scopes' = [s \in Sticker |-> IF s \in S THEN NoPicture ELSE scopes[s]]
          /\ promised' = [s \in Sticker |-> IF s \in S THEN NoPicture ELSE promised[s]]
          /\ doing' = Doing("saving", {}, {scopes[s] : s \in S})
          /\ doing = Doing("ready", {}, {})
          /\ UNCHANGED <<trouble, indexFile, pictures, indexState>>
      BY <1>7 DEF Remove, Puts, Ready
    <2> QED
      BY <2>1, <2>2 DEF Doing
  <1>8. CASE Saved
    BY <1>8 DEF Saved, Ready, Doing
  <1>9. CASE NotSaved
    BY <1>9 DEF NotSaved, Ready, Doing
  <1>10. CASE Collect
    <2>1. PICK p \in doing.left :
            /\ pictures' = [pictures EXCEPT ![p] = IF p \in Named(scopes) THEN @ ELSE "none"]
            /\ doing' = IF doing.left = {p} THEN Ready ELSE [doing EXCEPT !.left = @ \ {p}]
      BY <1>10 DEF Collect
    <2>2. p \in Picture /\ (p \notin Named(scopes) => \A s \in Sticker : scopes[s] # p)
      BY NamedBy
    <2> QED
      BY <1>10, <2>1, <2>2 DEF Collect, Ready, Doing
  <1>11. CASE Crash
    <2>1. /\ doing' = Doing("down", {}, {})
          /\ scopes' = NoStickers /\ indexState' = "loaded"
          /\ UNCHANGED <<trouble, indexFile, promised>>
      BY <1>11 DEF Crash
    <2>2. CASE UNCHANGED pictures
      BY <2>1, <2>2 DEF NoStickers, Doing
    <2>3. CASE doing.at = "writing" /\ \E p \in doing.left, how \in {"half", "whole"} :
                 pictures' = [pictures EXCEPT ![p] = how]
      BY <2>1, <2>3 DEF NoStickers, Doing
    <2> QED
      BY <1>11, <2>2, <2>3 DEF Crash
  <1>12. CASE UNCHANGED stickerVars
    BY <1>12 DEF stickerVars
  <1> QED
    BY <1>1, <1>2, <1>3, <1>4, <1>5, <1>6, <1>7, <1>8, <1>9, <1>10, <1>11, <1>12
    DEF StickerNext

\* Whenever the hub dies, whatever it cannot read or write, for any stickers and
\* pictures: what people were told is stored stays in the index, and its picture too
\* while nothing fails.
THEOREM StoredStays == StickerSpec => []StickersSurvive
  BY StickerInvInit, StickerInvStep, StickerInvSurvive, PTL DEF StickerSpec
=============================================================================
