---------------------------- MODULE Gateway_proofs ----------------------------
(* The small parts of a TeamSpeak connection in the hub, for every value of   *)
(* their constants: the budget of its server (ServerGuard), the commands it   *)
(* sends on its own (PacedRequests), the icons the hub remembers (AssetCache), *)
(* its line to a bot (BotBridge) and the permissions it tells the page of     *)
(* (OwnPerms).  They share no state; each has an inductive invariant of its   *)
(* own.                                                                       *)
EXTENDS ServerGuard, PacedRequests, AssetCache, BotBridge, OwnPerms, TLAPS

-----------------------------------------------------------------------------
(* The bot's bridge.                                                       *)

\* In use, the socket it owns is the one there is; and a line but none other.
BridgeInv ==
  /\ stopped \in BOOLEAN /\ owned \in BOOLEAN /\ retryTimer \in BOOLEAN
  /\ cookie \in BOOLEAN /\ available \in BOOLEAN
  /\ task \in {"start", "retry", "none"}
  /\ dialling \in {"none", "asked", "open", "closing"}
  /\ ~stopped =>
       /\ owned <=> dialling # "none"
       /\ \/ task # "none" /\ dialling = "none" /\ ~retryTimer
          \/ task = "none" /\ dialling # "none" /\ ~retryTimer
          \/ task = "none" /\ dialling = "none" /\ retryTimer
       /\ available => cookie \/ dialling = "closing"
  /\ stopped => ~retryTimer /\ dialling \in {"none", "closing"} /\ ~owned

LEMMA BridgeInvStep == BridgeInv /\ [BridgeNext]_bridgeVars => BridgeInv'
  <1> SUFFICES ASSUME BridgeInv, [BridgeNext]_bridgeVars
               PROVE  BridgeInv'
    OBVIOUS
  <1> USE DEF BridgeInv
  <1>1. CASE Login
    BY <1>1 DEF Login
  <1>2. CASE Retry
    BY <1>2 DEF Retry
  <1>3. CASE Retried
    BY <1>3 DEF Retried, ConnectWs
  <1>4. CASE Opened
    BY <1>4 DEF Opened
  <1>5. CASE WsClosed
    BY <1>5 DEF WsClosed, ScheduleReconnect
  <1>6. CASE StopBridge
    BY <1>6 DEF StopBridge
  <1>7. ASSUME NEW b \in BOOLEAN, Started(b)
        PROVE  BridgeInv'
    BY <1>7 DEF Started, ConnectWs
  <1>8. ASSUME NEW b \in BOOLEAN, Rejected(b)
        PROVE  BridgeInv'
    BY <1>8 DEF Rejected
  <1>9. CASE UNCHANGED bridgeVars
    BY <1>9 DEF bridgeVars
  <1> QED
    BY <1>1, <1>2, <1>3, <1>4, <1>5, <1>6, <1>7, <1>8, <1>9 DEF BridgeNext

LEMMA BridgeInvOneWay == BridgeInv => OneWayBack
  <1> SUFFICES ASSUME BridgeInv
               PROVE  OneWayBack
    OBVIOUS
  <1>1. ASSUME ~stopped
        PROVE  \E x \in Lines : Lines = {x}
    <2>1. CASE task # "none"
      <3>1. Lines = {"task"}
        BY <1>1, <2>1 DEF BridgeInv, Lines
      <3> QED
        BY <3>1
    <2>2. CASE dialling # "none"
      <3>1. Lines = {"socket"}
        BY <1>1, <2>2 DEF BridgeInv, Lines
      <3> QED
        BY <3>1
    <2>3. CASE retryTimer
      <3>1. Lines = {"timer"}
        BY <1>1, <2>3 DEF BridgeInv, Lines
      <3> QED
        BY <3>1
    <2> QED
      BY <1>1, <2>1, <2>2, <2>3 DEF BridgeInv
  <1> QED
    BY <1>1 DEF BridgeInv, OneWayBack

\* However a bridge starts, loses its socket, logs in and is stopped: in use it always
\* has exactly one way back to its bot, and once stopped it dials no more.
THEOREM BridgeComesBackOnce == BridgeSpec => []OneWayBack
  <1>1. BridgeInit => BridgeInv
    BY DEF BridgeInit, BridgeInv
  <1> QED
    BY <1>1, BridgeInvStep, BridgeInvOneWay, PTL DEF BridgeSpec

-----------------------------------------------------------------------------
(* Icons.                                                                  *)

\* While a download runs nothing is remembered of its file, and what the server said
\* in it is true unless a change is to blame.
AssetInv ==
  /\ stored \subseteq Asset
  /\ cache \in [Asset -> {"hit", "miss", "none"}]
  /\ asking \in [Asset -> {"no", "queued", "denied", "sent"}]
  /\ telling \subseteq Asset /\ excused \subseteq Asset
  /\ \A a \in Asset :
       /\ asking[a] # "no" => cache[a] = "none"
       /\ asking[a] = "denied" /\ a \notin excused => a \notin stored
       /\ asking[a] = "sent" /\ a \notin excused => a \in stored
  /\ BehindForAReason

LEMMA AssetInvStep == AssetInv /\ [AssetNext]_assetVars => AssetInv'
  <1> SUFFICES ASSUME AssetInv, [AssetNext]_assetVars
               PROVE  AssetInv'
    OBVIOUS
  <1> USE DEF AssetInv, BehindForAReason
  <1>1. CASE UNCHANGED assetVars
    BY <1>1 DEF assetVars
  <1>2. ASSUME NEW a \in Asset, FetchIcon(a)
        PROVE  AssetInv'
    BY <1>2 DEF FetchIcon
  <1>3. ASSUME NEW a \in Asset, ServerReads(a)
        PROVE  AssetInv'
    BY <1>3 DEF ServerReads
  <1>4. ASSUME NEW a \in Asset, Downloaded(a)
        PROVE  AssetInv'
    BY <1>4 DEF Downloaded, Remember
  <1>5. ASSUME NEW a \in Asset, DownloadFails(a)
        PROVE  AssetInv'
    BY <1>5 DEF DownloadFails, Remember
  <1>6. ASSUME NEW a \in Asset, Skip(a) \/ Drop(a)
        PROVE  AssetInv'
    BY <1>6 DEF Skip, Drop
  <1>7. ASSUME NEW a \in Asset, HubChanges(a)
        PROVE  AssetInv'
    BY <1>7 DEF HubChanges, Overtaken
  <1>8. ASSUME NEW a \in Asset, OthersChange(a)
        PROVE  AssetInv'
    BY <1>8 DEF OthersChange
  <1>9. ASSUME NEW a \in Asset, ForgetAsset(a)
        PROVE  AssetInv'
    BY <1>9 DEF ForgetAsset
  <1> QED
    BY <1>1, <1>2, <1>3, <1>4, <1>5, <1>6, <1>7, <1>8, <1>9 DEF AssetNext

\* However downloads, changes through the hub and their answers, changes of others and
\* failures interleave: what is remembered of an icon is behind only for one of the
\* reasons BehindForAReason names.
THEOREM IconsForgotten == AssetSpec => []BehindForAReason
  <1>1. AssetInit => AssetInv
    BY DEF AssetInit, AssetInv, BehindForAReason
  <1>2. AssetInv => BehindForAReason
    BY DEF AssetInv
  <1> QED
    BY <1>1, <1>2, AssetInvStep, PTL DEF AssetSpec

-----------------------------------------------------------------------------
(* Commands a connection sends on its own.                                 *)

Entry == [run : Nat, gen : Nat, key : Key \cup {NoKey}]

\* The run at i has not begun and was not cleared.
Live(i) ==
  /\ i \in 1..Len(paceQueue)
  /\ i = 1 => ~paceBusy
  /\ paceQueue[i].run # 0 /\ paceQueue[i].gen = generation

PacedTypes ==
  /\ batch \in BOOLEAN /\ paceBusy \in BOOLEAN
  /\ waiting \in [Key -> Nat]
  /\ batchRun \in Nat /\ generation \in Nat /\ runs \in Nat
  /\ paceQueue \in Seq(Entry)
  /\ paceBusy => paceQueue # <<>>

\* Runs are numbered as they come; a batch's is for no key of its own.
RunsInOrder ==
  /\ \A i \in 1..Len(paceQueue) :
       /\ paceQueue[i].run <= runs /\ paceQueue[i].gen <= generation
       /\ paceQueue[i].run # 0 => (batch <=> paceQueue[i].key = NoKey)
  /\ \A i, j \in 1..Len(paceQueue) :
       i # j /\ paceQueue[i].run # 0 => paceQueue[i].run # paceQueue[j].run

\* A key that waits has its run, and a run that is live its key or its batch.
RunsAndKeys ==
  /\ \A k \in Key : waiting[k] # 0 =>
       \E i \in 1..Len(paceQueue) :
         Live(i) /\ paceQueue[i].run = waiting[k] /\ paceQueue[i].key \in {k, NoKey}
  /\ ~batch => \A i \in 1..Len(paceQueue) : Live(i) =>
                 waiting[paceQueue[i].key] = paceQueue[i].run
  /\ batch =>
       /\ \A i \in 1..Len(paceQueue) : Live(i) => paceQueue[i].run = batchRun
       /\ batchRun # 0 => \E k \in Key : waiting[k] # 0
       /\ \A k \in Key : waiting[k] \in {0, batchRun}

PacedInv == PacedTypes /\ RunsInOrder /\ RunsAndKeys

LEMMA PacedInvOneRun == PacedInv => OneRunPerKey
  <1> SUFFICES ASSUME PacedInv
               PROVE  OneRunPerKey
    OBVIOUS
  <1> USE DEF PacedInv, PacedTypes
  <1>1. \A k \in Key : RunsFor(k) =
          {i \in 1..Len(paceQueue) : Live(i) /\ paceQueue[i].key \in {k, NoKey}}
    BY DEF RunsFor, Live
  <1>2. \A i \in 1..Len(paceQueue) : paceQueue[i] \in Entry
    OBVIOUS
  <1>3. ASSUME NEW k \in Key, waiting[k] # 0
        PROVE  \E i \in RunsFor(k) : RunsFor(k) = {i} /\ paceQueue[i].run = waiting[k]
    <2>1. PICK i \in 1..Len(paceQueue) :
            Live(i) /\ paceQueue[i].run = waiting[k] /\ paceQueue[i].key \in {k, NoKey}
      BY <1>3 DEF RunsAndKeys
    <2>2. ASSUME NEW j \in 1..Len(paceQueue), Live(j), paceQueue[j].key \in {k, NoKey}
          PROVE  j = i
      <3>1. paceQueue[j].run # 0 /\ (batch <=> paceQueue[j].key = NoKey)
        BY <2>2 DEF Live, RunsInOrder
      <3>2. paceQueue[j].run = waiting[k]
        <4>1. CASE batch
          BY <1>3, <2>2, <4>1 DEF RunsAndKeys
        <4>2. CASE ~batch
          BY <2>2, <3>1, <4>2 DEF RunsAndKeys
        <4> QED
          BY <4>1, <4>2
      <3> QED
        BY <2>1, <3>1, <3>2 DEF RunsInOrder
    <2> QED
      BY <1>1, <2>1, <2>2
  <1>4. ASSUME ~batch, NEW k \in Key, waiting[k] = 0
        PROVE  RunsFor(k) = {}
    <2>1. ASSUME NEW j \in 1..Len(paceQueue), Live(j), paceQueue[j].key \in {k, NoKey}
          PROVE  FALSE
      <3>1. paceQueue[j].run # 0 /\ paceQueue[j].key = k
        BY <1>4, <2>1 DEF Live, RunsInOrder
      <3> QED
        BY <1>4, <2>1, <3>1 DEF RunsAndKeys
    <2> QED
      BY <1>1, <2>1
  <1>5. ASSUME batch, \A k \in Key : waiting[k] = 0, NEW k \in Key
        PROVE  RunsFor(k) = {}
    <2>1. batchRun = 0
      BY <1>5 DEF RunsAndKeys
    <2> QED
      BY <1>1, <1>5, <2>1 DEF RunsAndKeys, Live
  <1> QED
    BY <1>3, <1>4, <1>5 DEF OneRunPerKey

\* A new run at the end of the queue disturbs none before it.
LEMMA PacedAppends ==
  ASSUME PacedTypes, NEW e \in Entry, Paced(e)
  PROVE  /\ paceQueue' \in Seq(Entry)
         /\ Len(paceQueue') = Len(paceQueue) + 1
         /\ \A i \in 1..Len(paceQueue) : paceQueue'[i] = paceQueue[i]
         /\ paceQueue'[Len(paceQueue) + 1] = e
         /\ paceQueue' # <<>>
  BY DEF PacedTypes, Paced

LEMMA RequestKeepsPaced ==
  ASSUME PacedInv, NEW k \in Key, Request(k)
  PROVE  PacedInv'
  <1> USE DEF PacedInv, PacedTypes
  <1>0. NoKey \notin Key /\ Len(paceQueue) \in Nat
    BY PacedAssumption
  <1>1. CASE waiting[k] # 0
    <2>1. UNCHANGED <<batch, waiting, batchRun, generation, runs, paceQueue, paceBusy>>
      BY <1>1 DEF Request
    <2>2. \A i \in 1..Len(paceQueue) : Live(i)' <=> Live(i)
      BY <2>1 DEF Live
    <2>3. PacedTypes' /\ RunsInOrder'
      BY <2>1 DEF RunsInOrder
    <2>4. RunsAndKeys'
      BY <2>1, <2>2 DEF RunsAndKeys
    <2> QED
      BY <2>3, <2>4
  <1>2. CASE waiting[k] = 0 /\ batch /\ batchRun # 0
    <2>1. /\ waiting' = [waiting EXCEPT ![k] = batchRun]
          /\ UNCHANGED <<batchRun, runs, paceQueue, batch, generation, paceBusy>>
      BY <1>2 DEF Request
    <2>2. PICK other \in Key : waiting[other] # 0
      BY <1>2 DEF RunsAndKeys
    <2>3. PICK i \in 1..Len(paceQueue) : Live(i) /\ paceQueue[i].run = batchRun
      BY <2>2, <1>2 DEF RunsAndKeys
    <2>4. paceQueue[i].key = NoKey
      BY <2>3, <1>2 DEF RunsInOrder
    <2>5. PacedTypes' /\ RunsInOrder'
      BY <2>1 DEF RunsInOrder
    <2>6. \A j \in 1..Len(paceQueue) : Live(j)' <=> Live(j)
      BY <2>1 DEF Live
    <2>7. RunsAndKeys'
      BY <1>2, <2>1, <2>3, <2>4, <2>6 DEF RunsAndKeys
    <2> QED
      BY <2>5, <2>7
  <1>3. CASE waiting[k] = 0 /\ ~(batch /\ batchRun # 0)
    <2>a. Run(IF batch THEN NoKey ELSE k) \in Entry
      BY runs + 1 \in Nat DEF Run, Entry
    <2> PICK e \in Entry : e = Run(IF batch THEN NoKey ELSE k)
      BY <2>a, Zenon
    <2>1. /\ e.run = runs + 1 /\ e.gen = generation
          /\ e.key = IF batch THEN NoKey ELSE k
      BY DEF Run
    <2>2. /\ runs' = runs + 1
          /\ waiting' = [waiting EXCEPT ![k] = runs + 1]
          /\ batchRun' = IF batch THEN runs + 1 ELSE batchRun
          /\ Paced(e)
          /\ UNCHANGED <<batch, generation, paceBusy>>
      BY <1>3 DEF Request
    <2> PICK n \in Nat : n = Len(paceQueue)
      BY <1>0
    <2>3. /\ paceQueue' \in Seq(Entry) /\ Len(paceQueue') = n + 1
          /\ \A i \in 1..n : paceQueue'[i] = paceQueue[i]
          /\ paceQueue'[n + 1] = e /\ paceQueue' # <<>>
      BY <2>2, PacedAppends
    <2>4. PacedTypes'
      BY <2>2, <2>3
    <2>5. RunsInOrder'
      <3>1. \A i \in 1..n : paceQueue[i] \in Entry /\ paceQueue[i].run \in Nat
        <4>1. \A d \in Entry : d.run \in Nat
          BY DEF Entry
        <4> QED
          BY <4>1
      <3>2. ASSUME NEW i \in 1..(n + 1)
            PROVE  /\ paceQueue'[i].run <= runs' /\ paceQueue'[i].gen <= generation'
                   /\ paceQueue'[i].run # 0 => (batch' <=> paceQueue'[i].key = NoKey)
        <4>1. CASE i = n + 1
          BY <4>1, <1>0, <2>1, <2>2, <2>3
        <4>2. CASE i \in 1..n
          <5>1. paceQueue[i].run \in Nat /\ paceQueue[i].run <= runs /\ paceQueue'[i] = paceQueue[i]
            BY <4>2, <2>3, <3>1 DEF RunsInOrder
          <5>2. paceQueue[i].gen <= generation
            BY <4>2 DEF RunsInOrder
          <5>3. paceQueue[i].run # 0 => (batch <=> paceQueue[i].key = NoKey)
            BY <4>2 DEF RunsInOrder
          <5> QED
            BY <5>1, <5>2, <5>3, <2>2
        <4> QED
          BY <4>1, <4>2
      <3>3. ASSUME NEW i \in 1..(n + 1), NEW j \in 1..(n + 1), i # j, paceQueue'[i].run # 0
            PROVE  paceQueue'[i].run # paceQueue'[j].run
        <4>1. CASE i \in 1..n /\ j \in 1..n
          BY <4>1, <3>3, <2>3 DEF RunsInOrder
        <4>2. CASE i = n + 1 /\ j \in 1..n
          BY <4>2, <2>1, <2>3, <3>1 DEF RunsInOrder, Entry
        <4>3. CASE j = n + 1 /\ i \in 1..n
          BY <4>3, <2>1, <2>3, <3>1 DEF RunsInOrder, Entry
        <4> QED
          BY <3>3, <4>1, <4>2, <4>3
      <3> QED
        BY <2>3, <3>2, <3>3 DEF RunsInOrder
    <2>6. Live(n + 1)' /\ \A i \in 1..n : Live(i)' <=> Live(i)
      <3>1. n + 1 = 1 => ~paceBusy
        OBVIOUS
      <3>2. Live(n + 1)'
        BY <3>1, <2>1, <2>2, <2>3 DEF Live
      <3>3. \A i \in 1..n : Live(i)' <=> Live(i)
        BY <2>2, <2>3 DEF Live
      <3> QED
        BY <3>2, <3>3
    <2>7. RunsAndKeys'
      <3>1. ASSUME NEW h \in Key, waiting'[h] # 0
            PROVE  \E i \in 1..(n + 1) : Live(i)' /\ paceQueue'[i].run = waiting'[h]
                                          /\ paceQueue'[i].key \in {h, NoKey}
        <4>1. CASE h = k
          BY <4>1, <2>1, <2>2, <2>3, <2>6
        <4>2. CASE h # k
          <5>1. waiting[h] # 0 /\ waiting'[h] = waiting[h]
            BY <4>2, <3>1, <2>2
          <5>2. PICK i \in 1..n : Live(i) /\ paceQueue[i].run = waiting[h]
                                   /\ paceQueue[i].key \in {h, NoKey}
            BY <5>1 DEF RunsAndKeys
          <5> QED
            BY <5>1, <5>2, <2>3, <2>6
        <4> QED
          BY <4>1, <4>2
      <3>2. ASSUME ~batch, NEW i \in 1..(n + 1), Live(i)'
            PROVE  waiting'[paceQueue'[i].key] = paceQueue'[i].run
        <4>1. CASE i = n + 1
          BY <4>1, <3>2, <2>1, <2>2, <2>3
        <4>2. CASE i \in 1..n
          <5>1. Live(i) /\ paceQueue'[i] = paceQueue[i] /\ paceQueue[i].run # 0
            BY <4>2, <3>2, <2>3, <2>6 DEF Live
          <5>2. paceQueue[i] \in Entry /\ waiting[paceQueue[i].key] = paceQueue[i].run
            BY <5>1, <4>2, <3>2 DEF RunsAndKeys
          <5>3. paceQueue[i].key \in Key
            BY <5>1, <5>2, <4>2, <3>2 DEF RunsInOrder, Entry
          <5>4. paceQueue[i].key # k
            BY <5>1, <5>2, <1>3
          <5> QED
            BY <5>1, <5>2, <5>3, <5>4, <2>2
        <4> QED
          BY <4>1, <4>2
      <3>3. ASSUME batch
            PROVE  /\ \A i \in 1..(n + 1) : Live(i)' => paceQueue'[i].run = batchRun'
                   /\ \E h \in Key : waiting'[h] # 0
                   /\ \A h \in Key : waiting'[h] \in {0, batchRun'}
        <4>1. batchRun = 0
          BY <3>3, <1>3
        <4>2. \A i \in 1..n : ~Live(i)
          BY <4>1, <3>3 DEF RunsAndKeys, Live
        <4>3. \A h \in Key : waiting[h] = 0
          BY <4>1, <3>3 DEF RunsAndKeys
        <4>4. ASSUME NEW i \in 1..(n + 1), Live(i)'
              PROVE  paceQueue'[i].run = batchRun'
          <5>1. i = n + 1
            BY <4>4, <4>2, <2>6
          <5> QED
            BY <5>1, <3>3, <2>1, <2>2, <2>3
        <4> QED
          BY <4>3, <4>4, <3>3, <2>2
      <3> QED
        BY <3>1, <3>2, <3>3, <2>2, <2>3 DEF RunsAndKeys
    <2> QED
      BY <2>4, <2>5, <2>7
  <1> QED
    BY <1>1, <1>2, <1>3

LEMMA OthersKeepPaced ==
  ASSUME PacedInv, NEW optional \in BOOLEAN, OthersCommand(optional)
  PROVE  PacedInv'
  <1> USE DEF PacedInv, PacedTypes
  <1> PICK e \in Entry : e = Other
    BY DEF Other, Entry
  <1> PICK n \in Nat : n = Len(paceQueue)
    OBVIOUS
  <1>1. e.run = 0 /\ e.gen = 0
    BY DEF Other
  <1>2. /\ runs' = runs + 1 /\ Paced(e)
        /\ UNCHANGED <<batch, waiting, batchRun, generation, paceBusy>>
    BY DEF OthersCommand
  <1>3. /\ paceQueue' \in Seq(Entry) /\ Len(paceQueue') = n + 1
        /\ \A i \in 1..n : paceQueue'[i] = paceQueue[i] /\ paceQueue[i] \in Entry
        /\ paceQueue'[n + 1] = e /\ paceQueue' # <<>>
    BY <1>2, PacedAppends
  <1>4. PacedTypes'
    BY <1>2, <1>3
  <1>5. \A i \in 1..(n + 1) : i \in 1..n \/ (i = n + 1 /\ paceQueue'[i].run = 0)
    BY <1>1, <1>3
  <1>6. RunsInOrder'
    <2>1. \A i \in 1..n : paceQueue'[i].run <= runs' /\ paceQueue'[i].gen <= generation'
      BY <1>2, <1>3, SMTT(30) DEF RunsInOrder, Entry
    <2>2. paceQueue'[n + 1].run <= runs' /\ paceQueue'[n + 1].gen <= generation'
      BY <1>1, <1>2, <1>3
    <2>3. ASSUME NEW i \in 1..(n + 1)
          PROVE  /\ paceQueue'[i].run <= runs' /\ paceQueue'[i].gen <= generation'
                 /\ paceQueue'[i].run # 0 => (batch' <=> paceQueue'[i].key = NoKey)
      BY <2>1, <2>2, <1>2, <1>3, <1>5 DEF RunsInOrder
    <2>4. \A i, j \in 1..(n + 1) :
            i # j /\ paceQueue'[i].run # 0 => paceQueue'[i].run # paceQueue'[j].run
      BY <1>3, <1>5 DEF RunsInOrder
    <2> QED
      BY <1>3, <2>3, <2>4 DEF RunsInOrder
  <1>7. \A i \in 1..(n + 1) : Live(i)' <=> (i \in 1..n /\ Live(i))
    BY <1>2, <1>3, <1>5 DEF Live
  <1>8. RunsAndKeys'
    <2>1. ASSUME NEW k \in Key, waiting[k] # 0
          PROVE  \E i \in 1..(n + 1) : Live(i)' /\ paceQueue'[i].run = waiting[k]
                                        /\ paceQueue'[i].key \in {k, NoKey}
      <3>1. PICK i \in 1..n : Live(i) /\ paceQueue[i].run = waiting[k]
                               /\ paceQueue[i].key \in {k, NoKey}
        BY <2>1 DEF RunsAndKeys
      <3> QED
        BY <3>1, <1>3, <1>7
    <2>2. ASSUME NEW i \in 1..(n + 1), Live(i)'
          PROVE  i \in 1..n /\ Live(i) /\ paceQueue'[i] = paceQueue[i]
      BY <2>2, <1>3, <1>7
    <2> QED
      BY <2>1, <2>2, <1>2, <1>3 DEF RunsAndKeys
  <1> QED
    BY <1>4, <1>6, <1>8

LEMMA TurnKeepsPaced ==
  ASSUME PacedInv, PaceTurn
  PROVE  PacedInv'
  <1> USE DEF PacedInv, PacedTypes
  <1> PICK n \in Nat : n = Len(paceQueue)
    OBVIOUS
  <1> PICK r \in Entry : r = paceQueue[1]
    BY DEF PaceTurn
  <1>1. /\ n >= 1 /\ Head(paceQueue) = r /\ ~paceBusy /\ paceBusy'
        /\ paceQueue # <<>>
        /\ waiting' = [k \in Key |-> IF k \in Taken THEN 0 ELSE waiting[k]]
        /\ batchRun' = IF r.run # 0 /\ r.gen = generation /\ r.key = NoKey THEN 0 ELSE batchRun
        /\ UNCHANGED <<batch, generation, runs, paceQueue>>
    BY DEF PaceTurn
  <1>2. PacedTypes' /\ RunsInOrder'
    BY <1>1 DEF RunsInOrder
  <1>3. /\ ~Live(1)' /\ (Live(1) <=> r.run # 0 /\ r.gen = generation)
        /\ \A i \in 1..n : i # 1 => (Live(i)' <=> Live(i))
    BY <1>1 DEF Live
  <1>4. CASE ~Live(1)
    <2>1. Taken = {} /\ waiting' = waiting /\ batchRun' = batchRun
      BY <1>1, <1>3, <1>4 DEF Taken
    <2>2. \A i \in 1..n : Live(i)' <=> Live(i)
      BY <1>3, <1>4
    <2>3. RunsAndKeys'
      BY <1>1, <2>1, <2>2 DEF RunsAndKeys
    <2> QED
      BY <1>2, <2>3
  <1>5. CASE Live(1) /\ batch
    <2>1. r.key = NoKey
      BY <1>1, <1>3, <1>5 DEF RunsInOrder
    <2>2. Taken = {k \in Key : waiting[k] # 0}
      BY <1>1, <1>3, <1>5, <2>1 DEF Taken
    <2>3. batchRun' = 0 /\ \A k \in Key : waiting'[k] = 0
      BY <1>1, <1>3, <1>5, <2>1, <2>2
    <2>4. \A i \in 1..n : ~Live(i)'
      <3>1. ASSUME NEW i \in 1..n, i # 1, Live(i)
            PROVE  FALSE
        <4>1. paceQueue[i].run = batchRun /\ paceQueue[1].run = batchRun
          BY <3>1, <1>1, <1>5 DEF RunsAndKeys
        <4>2. paceQueue[i].run # 0
          BY <3>1 DEF Live
        <4> QED
          BY <3>1, <4>1, <4>2, <1>1 DEF RunsInOrder
      <3> QED
        BY <3>1, <1>3
    <2>5. RunsAndKeys'
      BY <2>3, <2>4, <1>1, <1>5 DEF RunsAndKeys
    <2> QED
      BY <1>2, <2>5
  <1>6. CASE Live(1) /\ ~batch
    <2>1. r.key \in Key /\ r.key # NoKey
      BY <1>1, <1>3, <1>6 DEF RunsInOrder, Entry
    <2>2. Taken = {r.key}
      BY <1>1, <1>3, <1>6, <2>1 DEF Taken
    <2>3. waiting[r.key] = r.run
      BY <1>1, <1>6 DEF RunsAndKeys
    <2>4. ASSUME NEW k \in Key, waiting'[k] # 0
          PROVE  \E i \in 1..n : Live(i)' /\ paceQueue[i].run = waiting'[k]
                                  /\ paceQueue[i].key \in {k, NoKey}
      <3>1. k # r.key /\ waiting[k] # 0 /\ waiting'[k] = waiting[k]
        BY <2>4, <2>2, <1>1
      <3>2. PICK i \in 1..n : Live(i) /\ paceQueue[i].run = waiting[k]
                               /\ paceQueue[i].key \in {k, NoKey}
        BY <3>1 DEF RunsAndKeys
      <3>3. i # 1
        BY <3>1, <3>2, <2>1
      <3> QED
        BY <3>1, <3>2, <3>3, <1>3
    <2>5. ASSUME NEW i \in 1..n, Live(i)'
          PROVE  waiting'[paceQueue[i].key] = paceQueue[i].run
      <3>1. i # 1 /\ Live(i) /\ paceQueue[i].run # 0 /\ paceQueue[i] \in Entry
        BY <2>5, <1>3 DEF Live
      <3>2. waiting[paceQueue[i].key] = paceQueue[i].run
        BY <3>1, <1>6 DEF RunsAndKeys
      <3>3. paceQueue[i].key \in Key
        BY <3>1, <1>6 DEF RunsInOrder, Entry
      <3>4. paceQueue[i].key # r.key
        BY <3>1, <3>2, <2>3, <1>1 DEF RunsInOrder
      <3> QED
        BY <3>2, <3>3, <3>4, <2>2, <1>1
    <2> QED
      BY <2>4, <2>5, <1>1, <1>2, <1>6 DEF RunsAndKeys
  <1> QED
    BY <1>4, <1>5, <1>6

LEMMA SettleKeepsPaced ==
  ASSUME PacedInv, Settle
  PROVE  PacedInv'
  <1> USE DEF PacedInv, PacedTypes
  <1> PICK n \in Nat : n = Len(paceQueue)
    OBVIOUS
  <1>1. /\ paceBusy /\ paceBusy' = FALSE /\ paceQueue' = Tail(paceQueue) /\ n >= 1
        /\ UNCHANGED <<batch, waiting, batchRun, generation, runs>>
    BY DEF Settle
  <1>2. /\ paceQueue' \in Seq(Entry) /\ Len(paceQueue') = n - 1
        /\ \A i \in 1..(n - 1) : paceQueue'[i] = paceQueue[i + 1] /\ i + 1 \in 1..n
    BY <1>1
  <1>3. PacedTypes'
    BY <1>1, <1>2
  <1>4. RunsInOrder'
    BY <1>1, <1>2 DEF RunsInOrder
  <1>5. /\ ~Live(1)
        /\ \A i \in 1..(n - 1) : Live(i)' <=> Live(i + 1)
    BY <1>1, <1>2 DEF Live
  <1>6. ASSUME NEW k \in Key, waiting[k] # 0
        PROVE  \E i \in 1..(n - 1) : Live(i)' /\ paceQueue'[i].run = waiting[k]
                                      /\ paceQueue'[i].key \in {k, NoKey}
    <2>1. PICK i \in 1..n : Live(i) /\ paceQueue[i].run = waiting[k]
                             /\ paceQueue[i].key \in {k, NoKey}
      BY <1>6 DEF RunsAndKeys
    <2>2. PICK j \in 1..(n - 1) : j + 1 = i
      <3>1. i # 1
        BY <2>1, <1>5
      <3>2. i - 1 \in 1..(n - 1) /\ (i - 1) + 1 = i
        BY <3>1
      <3> QED
        BY <3>2, Zenon
    <2> QED
      BY <2>1, <2>2, <1>2, <1>5
  <1>7. ASSUME NEW i \in 1..(n - 1), Live(i)'
        PROVE  i + 1 \in 1..n /\ Live(i + 1) /\ paceQueue'[i] = paceQueue[i + 1]
    BY <1>7, <1>2, <1>5
  <1>8. RunsAndKeys'
    BY <1>1, <1>2, <1>6, <1>7 DEF RunsAndKeys
  <1> QED
    BY <1>3, <1>4, <1>8

LEMMA PacedInvStep == PacedInv /\ [PacedNext]_pacedVars => PacedInv'
  <1> SUFFICES ASSUME PacedInv, [PacedNext]_pacedVars
               PROVE  PacedInv'
    OBVIOUS
  <1>1. CASE Clear
    <2>1. /\ generation' = generation + 1 /\ waiting' = [k \in Key |-> 0] /\ batchRun' = 0
          /\ UNCHANGED <<batch, runs, paceQueue, paceBusy>>
      BY <1>1 DEF Clear
    <2>a. \A i \in 1..Len(paceQueue) : paceQueue[i].gen \in Nat /\ paceQueue[i].gen <= generation
      <3>1. \A i \in 1..Len(paceQueue) : paceQueue[i] \in Entry
        BY DEF PacedInv, PacedTypes
      <3>2. \A e \in Entry : e.gen \in Nat
        BY DEF Entry
      <3> QED
        BY <3>1, <3>2 DEF PacedInv, RunsInOrder
    <2>2. PacedTypes' /\ RunsInOrder'
      <3>1. PacedTypes'
        BY <2>1 DEF PacedInv, PacedTypes
      <3>2. \A i \in 1..Len(paceQueue) : paceQueue[i].gen <= generation'
        BY <2>a, <2>1 DEF PacedInv, PacedTypes
      <3> QED
        BY <2>1, <3>1, <3>2 DEF PacedInv, RunsInOrder
    <2>3. \A i \in 1..Len(paceQueue) : ~Live(i)'
      BY <2>a, <2>1 DEF PacedInv, PacedTypes, Live
    <2>4. RunsAndKeys'
      BY <2>1, <2>3 DEF RunsAndKeys
    <2> QED
      BY <2>2, <2>4 DEF PacedInv
  <1>2. CASE Flood
    BY <1>2 DEF Flood, PacedInv, PacedTypes, RunsInOrder, RunsAndKeys, Live
  <1>3. CASE UNCHANGED pacedVars
    BY <1>3 DEF pacedVars, PacedInv, PacedTypes, RunsInOrder, RunsAndKeys, Live
  <1> QED
    BY <1>1, <1>2, <1>3, RequestKeepsPaced, OthersKeepPaced, TurnKeepsPaced,
       SettleKeepsPaced DEF PacedNext

\* However requests, turns, clears and other sessions' commands interleave, for any
\* keys: each key that waits has the one run it waits for, and no other key has any.
THEOREM KeysGoOutOnce == PacedSpec => []OneRunPerKey
  <1>1. ASSUME PacedInit
        PROVE  PacedInv
    <2>1. PacedTypes /\ paceQueue = <<>> /\ Len(paceQueue) = 0
      <3>1. paceQueue = <<>> /\ paceQueue \in Seq(Entry) /\ Len(paceQueue) = 0
        BY <1>1 DEF PacedInit
      <3>2. waiting \in [Key -> Nat]
        BY <1>1 DEF PacedInit
      <3>3. batch \in BOOLEAN /\ paceBusy = FALSE /\ batchRun = 0 /\ generation = 0 /\ runs = 0
        BY <1>1 DEF PacedInit
      <3> QED
        BY <3>1, <3>2, <3>3 DEF PacedTypes
    <2>2. RunsInOrder
      BY <2>1 DEF RunsInOrder
    <2>3. RunsAndKeys
      BY <1>1, <2>1 DEF PacedInit, RunsAndKeys
    <2> QED
      BY <2>1, <2>2, <2>3 DEF PacedInv
  <1> QED
    BY <1>1, PacedInvStep, PacedInvOneRun, PTL DEF PacedSpec

-----------------------------------------------------------------------------
(* The budget.                                                             *)

GuardTypeOK ==
  /\ now \in Nat
  /\ cmdTat \in Int /\ lastCmd \in Int
  /\ booked \in Seq(Int) /\ asked \in Seq(Int)
  /\ Len(asked) = Len(booked)

\* What the two numbers of the bucket know of every slot booked: the arrival time is
\* a refill past each for every one since, the last start a gap past it.
BucketRemembers ==
  \A i \in 1..Len(booked) :
    /\ cmdTat >= booked[i] + (Len(booked) - i + 1) * Refill
    /\ lastCmd >= booked[i] + (Len(booked) - i) * Spacing

GuardInv == GuardTypeOK /\ BucketRemembers /\ BudgetKept

-----------------------------------------------------------------------------
\* The arithmetic of one more slot.
LEMMA OneMoreTime ==
  ASSUME NEW m \in Int, NEW x \in Int
  PROVE  /\ m * x \in Int
         /\ (m + 1) * x = m * x + x
  OBVIOUS

LEMMA LessTimes ==
  ASSUME NEW m \in Int, NEW k \in Int, NEW x \in Int
  PROVE  (m - k) * x = m * x - k * x
  OBVIOUS

\* A slot starts neither before it is asked for, nor before the bucket has room for
\* it, nor inside the gap after the last.
LEMMA StartBounds ==
  ASSUME GuardTypeOK
  PROVE  /\ Start0 \in Int /\ Tat \in Int
         /\ Tat >= cmdTat
         /\ (Burst - 1) * Refill \in Int
         /\ Start0 >= Tat - (Burst - 1) * Refill
         /\ Start0 >= lastCmd + Spacing
  <1>1. Burst - 1 \in Int /\ Refill \in Int /\ Spacing \in Int
    BY GuardAssumption
  <1>2. (Burst - 1) * Refill \in Int
    BY <1>1, OneMoreTime
  <1>3. PICK b \in Int : b = (Burst - 1) * Refill
    BY <1>2
  <1>4. Tat \in Int /\ Tat >= cmdTat
    BY DEF GuardTypeOK, Tat, Larger
  <1>5. Start0 = Larger(now, Larger(Tat - b, lastCmd + Spacing))
    BY <1>3 DEF Start0
  <1>6. Start0 \in Int /\ Start0 >= Tat - b /\ Start0 >= lastCmd + Spacing
    BY <1>1, <1>4, <1>5 DEF GuardTypeOK, Larger
  <1> QED
    BY <1>2, <1>3, <1>4, <1>6

-----------------------------------------------------------------------------
LEMMA GuardTypesInit == GuardInit => GuardInv
  BY GuardAssumption DEF GuardInit, GuardInv, GuardTypeOK, BucketRemembers, BudgetKept

\* A booking keeps the types, and adds one slot behind the others.
LEMMA BookAppends ==
  ASSUME GuardTypeOK, Book
  PROVE  /\ GuardTypeOK'
         /\ Len(booked') = Len(booked) + 1
         /\ \A i \in 1..Len(booked) : booked'[i] = booked[i] /\ asked'[i] = asked[i]
         /\ booked'[Len(booked) + 1] = Start0 /\ asked'[Len(booked) + 1] = now
  <1>1. Start0 \in Int /\ Tat \in Int /\ Refill \in Int
    BY StartBounds, GuardAssumption
  <1> QED
    BY <1>1 DEF GuardTypeOK, Book, Larger

LEMMA BookRemembers ==
  ASSUME GuardInv, Book
  PROVE  BucketRemembers'
  <1> GuardTypeOK /\ BucketRemembers
    BY DEF GuardInv
  <1>1. Refill \in Nat /\ Spacing \in Nat /\ Len(booked) \in Nat
    BY GuardAssumption DEF GuardTypeOK
  <1>2. /\ Start0 \in Int /\ Tat \in Int /\ cmdTat \in Int /\ lastCmd \in Int
        /\ Tat >= cmdTat /\ Start0 >= lastCmd + Spacing
    BY StartBounds DEF GuardTypeOK
  <1>3. lastCmd' = Start0 /\ cmdTat' \in Int
        /\ cmdTat' >= Tat + Refill /\ cmdTat' >= Start0 + Refill
    BY <1>1, <1>2 DEF Book, Larger
  <1>4. Len(booked') = Len(booked) + 1
    BY BookAppends
  <1>5. ASSUME NEW i \in 1..Len(booked')
        PROVE  /\ cmdTat' >= booked'[i] + (Len(booked') - i + 1) * Refill
               /\ lastCmd' >= booked'[i] + (Len(booked') - i) * Spacing
    <2>1. CASE i = Len(booked) + 1
      <3>1. booked'[i] = Start0 /\ Len(booked') - i = 0
        BY <2>1, <1>1, <1>4, BookAppends
      <3>2. (Len(booked') - i + 1) * Refill = Refill /\ (Len(booked') - i) * Spacing = 0
        BY <3>1, <1>1
      <3> QED
        BY <3>1, <3>2, <1>1, <1>2, <1>3
    <2>2. CASE i # Len(booked) + 1
      <3>1. i \in 1..Len(booked) /\ i \in Int
        BY <2>2, <1>1, <1>4, <1>5
      <3>2. booked'[i] = booked[i] /\ booked[i] \in Int
        BY <3>1, BookAppends DEF GuardTypeOK
      <3>3. PICK m \in Int : m = Len(booked) - i
        <4>1. Len(booked) - i \in Int
          BY <3>1, <1>1
        <4> QED
          BY <4>1, Zenon
      <3>4. Len(booked') - i = m + 1
        BY <3>1, <3>3, <1>1, <1>4
      <3>5. cmdTat >= booked[i] + (m + 1) * Refill /\ lastCmd >= booked[i] + m * Spacing
        BY <3>1, <3>3 DEF BucketRemembers
      <3>6. /\ (m + 1) * Refill \in Int /\ ((m + 1) + 1) * Refill = (m + 1) * Refill + Refill
            /\ m * Spacing \in Int /\ (m + 1) * Spacing = m * Spacing + Spacing
        BY <3>3, <1>1, OneMoreTime, m + 1 \in Int
      <3>7. cmdTat' >= booked[i] + ((m + 1) + 1) * Refill
        BY <3>2, <3>5, <3>6, <1>1, <1>2, <1>3
      <3>8. lastCmd' >= booked[i] + (m + 1) * Spacing
        BY <3>2, <3>5, <3>6, <1>1, <1>2, <1>3
      <3> QED
        BY <3>2, <3>4, <3>7, <3>8
    <2> QED
      BY <2>1, <2>2
  <1> QED
    BY <1>5 DEF BucketRemembers

LEMMA BookKeepsBudget ==
  ASSUME GuardInv, Book
  PROVE  BudgetKept'
  <1> GuardTypeOK /\ BucketRemembers /\ BudgetKept
    BY DEF GuardInv
  <1>1. Refill \in Nat /\ Spacing \in Nat /\ Burst - 1 \in Int /\ Len(booked) \in Nat
    BY GuardAssumption DEF GuardTypeOK
  <1>2. PICK n \in Nat : n = Len(booked)
    BY <1>1
  <1>3. Len(booked') = n + 1
    BY <1>2, BookAppends
  <1>4. ASSUME NEW i \in 1..Len(booked'), NEW j \in 1..Len(booked'), i < j
        PROVE  /\ booked'[j] - booked'[i] >= (j - i - (Burst - 1)) * Refill
               /\ booked'[j] - booked'[i] >= (j - i) * Spacing
               /\ booked'[j] - asked'[j] <= MaxWait
    <2>1. i \in 1..n /\ i \in Int /\ j \in Int
      BY <1>2, <1>3, <1>4
    <2>2. booked'[i] = booked[i] /\ booked[i] \in Int
      BY <2>1, <1>2, BookAppends DEF GuardTypeOK
    <2>3. CASE j \in 1..n
      <3>1. booked'[j] = booked[j] /\ asked'[j] = asked[j]
        BY <2>3, <1>2, BookAppends
      <3> QED
        BY <2>1, <2>2, <2>3, <3>1, <1>2, <1>4 DEF BudgetKept
    <2>4. CASE j = n + 1
      <3>1. booked'[j] = Start0 /\ asked'[j] = now
        BY <2>4, <1>2, BookAppends
      <3>2. PICK b \in Int : b = (Burst - 1) * Refill
        BY StartBounds
      <3>3. /\ Start0 \in Int /\ Tat \in Int /\ cmdTat \in Int /\ lastCmd \in Int
            /\ Tat >= cmdTat /\ Start0 >= Tat - b /\ Start0 >= lastCmd + Spacing
        BY <3>2, StartBounds DEF GuardTypeOK
      <3>4. PICK m \in Int : m = n - i
        BY <2>1
      <3>5. j - i = m + 1
        BY <2>1, <2>4, <3>4
      <3>6. cmdTat >= booked[i] + (m + 1) * Refill /\ lastCmd >= booked[i] + m * Spacing
        BY <2>1, <3>4, <1>2 DEF BucketRemembers
      <3>7. /\ (m + 1) * Refill \in Int
            /\ ((m + 1) - (Burst - 1)) * Refill = (m + 1) * Refill - b
        BY <3>2, <1>1, LessTimes, OneMoreTime, m + 1 \in Int
      <3>8. m * Spacing \in Int /\ (m + 1) * Spacing = m * Spacing + Spacing
        BY <1>1, OneMoreTime
      <3>9. Start0 - booked[i] >= ((m + 1) - (Burst - 1)) * Refill
        BY <2>2, <3>2, <3>3, <3>6, <3>7, SMTT(30)
      <3>10. Start0 - booked[i] >= (m + 1) * Spacing
        BY <1>1, <2>2, <3>3, <3>6, <3>8
      <3>11. Start0 - now <= MaxWait
        BY DEF Book
      <3> QED
        BY <2>2, <3>1, <3>5, <3>9, <3>10, <3>11
    <2> QED
      BY <1>2, <1>3, <2>3, <2>4
  <1> QED
    BY <1>4 DEF BudgetKept

LEMMA GuardInvStep == GuardInv /\ [GuardNext]_guardVars => GuardInv'
  <1> SUFFICES ASSUME GuardInv, [GuardNext]_guardVars
               PROVE  GuardInv'
    OBVIOUS
  <1>1. CASE Book
    BY <1>1, BookAppends, BookRemembers, BookKeepsBudget DEF GuardInv
  <1>2. CASE Pass
    BY <1>2 DEF Pass, GuardInv, GuardTypeOK, BucketRemembers, BudgetKept
  <1>3. CASE Release
    BY <1>3 DEF Release, GuardInv, GuardTypeOK, BucketRemembers, BudgetKept
  <1>4. CASE UNCHANGED guardVars
    BY <1>4 DEF guardVars, GuardInv, GuardTypeOK, BucketRemembers, BudgetKept
  <1> QED
    BY <1>1, <1>2, <1>3, <1>4 DEF GuardNext

\* However commands come, those of one server never start closer together than the
\* burst, the refill and the gap allow, and none waits longer than it may.
THEOREM BudgetNeverExceeded == GuardSpec => []BudgetKept
  <1>1. GuardInv => BudgetKept
    BY DEF GuardInv
  <1> QED
    BY <1>1, GuardTypesInit, GuardInvStep, PTL DEF GuardSpec

-----------------------------------------------------------------------------
(* Own permissions.                                                        *)

Named == Flag \cup Power

RowOf(m, p) == m.kind = "flag" /\ m.of = p
LastRow(i, p) ==
  /\ i = 0 \/ RowOf(permWire[i], p)
  /\ \A j \in 1..Len(permWire) : j > i => ~RowOf(permWire[j], p)
GroupsAfter(i) == \E j \in 1..Len(permWire) : j > i /\ permWire[j].kind = "groups"

WireMsgs ==
  [kind : {"flag"}, of : Flag, value : {0, 1}] \cup [kind : {"groups"}]
    \cup [kind : {"powers"}, told : [Named -> {0, 1, Unset}]]

PermTypes ==
  /\ atServer \in [Named -> {0, 1}]
  /\ permWire \in Seq(WireMsgs)
  /\ permStarted \in BOOLEAN /\ permOver \in BOOLEAN /\ sentFull \in BOOLEAN
  /\ powersStale \in BOOLEAN /\ permTimer \in BOOLEAN /\ listLost \in BOOLEAN
  /\ values \in [Named -> {0, 1, Unset}] /\ powers \in [Named -> {0, 1, Unset}]
  /\ needed \in [Named -> {0, 1, Unset}] /\ permPage \in [Named -> {0, 1, Unset}]
  /\ toReport \subseteq Flag
  /\ flushing \in {"no", "catalog", "permget", "told"}
  /\ permOver => ~permStarted
  /\ \A q \in Power : values[q] = Unset /\ needed[q] = Unset

\* The last row of a flag, read or not, says how it is.
RowsInv ==
  \A p \in Flag, i \in 0..Len(permWire) :
    LastRow(i, p) => IF i = 0 THEN values[p] # Unset /\ ~permOver => values[p] = atServer[p]
                     ELSE permWire[i].value = atServer[p]

\* A flag is on the page as it was read, or will be reported, by the flush under way or
\* the next one; and the next one will be.
FlagsInv ==
  permStarted =>
    /\ \A p \in Flag \ toReport : values[p] # Unset =>
         IF flushing \in {"permget", "told"}
         THEN \/ needed[p] = values[p]
              \/ sentFull /\ needed[p] = Unset /\ permPage[p] = values[p]
         ELSE sentFull => permPage[p] = values[p]
    /\ sentFull /\ flushing = "no" /\ (toReport # {} \/ powersStale) => permTimer

\* One flush at a time, and none before the start.
StagesInv ==
  /\ permTimer => permStarted /\ flushing = "no"
  /\ ~permStarted /\ ~permOver => ~sentFull /\ flushing = "no" /\ powers = Nothing

\* The server's one answer to a flush is true, or the change that made it old is behind it.
AnswersInv ==
  \A i \in 1..Len(permWire) : permWire[i].kind = "powers" =>
    /\ flushing = "told"
    /\ \A j \in 1..Len(permWire) : permWire[j].kind = "powers" => j = i
    /\ \A q \in Power : permWire[i].told[q] = atServer[q] \/ GroupsAfter(i)

\* A power on the page is the one the hub has, which is true unless a change is on its way
\* or a flush is due.
PowersInv ==
  /\ permStarted /\ ~sentFull => powers = Nothing
  /\ permStarted /\ sentFull => \A q \in Power : powers[q] # Unset =>
       /\ permPage[q] = powers[q]
       /\ flushing = "no" /\ ~listLost =>
            powers[q] = atServer[q] \/ GroupsAfter(0) \/ powersStale

LEMMA WireAppend ==
  ASSUME NEW S, NEW s \in Seq(S), NEW x \in S
  PROVE  /\ Append(s, x) \in Seq(S) /\ Len(s) \in Nat /\ Len(Append(s, x)) = Len(s) + 1
         /\ Append(s, x)[Len(s) + 1] = x
         /\ \A i \in 1..Len(s) : Append(s, x)[i] = s[i]
         /\ \A i \in 1..(Len(s) + 1) : i = Len(s) + 1 \/ i \in 1..Len(s)
  OBVIOUS

LEMMA WireTail ==
  ASSUME NEW S, NEW s \in Seq(S), s # <<>>
  PROVE  /\ Tail(s) \in Seq(S) /\ Len(s) \in Nat /\ Len(s) >= 1 /\ Len(Tail(s)) = Len(s) - 1
         /\ 1 \in 1..Len(s) /\ Head(s) = s[1] /\ s[1] \in S
         /\ \A i \in 1..Len(Tail(s)) : i + 1 \in 1..Len(s) /\ Tail(s)[i] = s[i + 1]
         /\ \A i \in 1..Len(s) : i # 1 => i - 1 \in 1..Len(Tail(s)) /\ Tail(s)[i - 1] = s[i]
  OBVIOUS

LEMMA PermsInit == PermInit => PermTypes /\ RowsInv /\ FlagsInv /\ StagesInv /\ AnswersInv /\ PowersInv
  <1> SUFFICES ASSUME PermInit
               PROVE  PermTypes /\ RowsInv /\ FlagsInv /\ StagesInv /\ AnswersInv /\ PowersInv
    OBVIOUS
  <1>1. permWire = <<>> /\ permWire \in Seq(WireMsgs) /\ Len(permWire) = 0
    BY DEF PermInit
  <1>2. /\ values = Nothing /\ powers = Nothing /\ needed = Nothing /\ permPage = Nothing
        /\ Nothing \in [Named -> {0, 1, Unset}] /\ \A p \in Named : Nothing[p] = Unset
        /\ atServer \in [Named -> {0, 1}]
    BY DEF PermInit, Nothing, Named
  <1>3. PermTypes
    BY <1>1, <1>2 DEF PermInit, PermTypes, Named
  <1>4. RowsInv
    BY <1>1, <1>2 DEF RowsInv, Named
  <1>5. FlagsInv /\ StagesInv /\ AnswersInv /\ PowersInv
    BY <1>1 DEF PermInit, FlagsInv, PowersInv, StagesInv, AnswersInv
  <1> QED
    BY <1>3, <1>4, <1>5

LEMMA FlipKeeps ==
  ASSUME PermTypes, NEW p \in Named, Flip(p)
  PROVE  /\ atServer' \in [Named -> {0, 1}]
         /\ atServer'[p] = 1 - atServer[p] /\ 1 - atServer[p] \in {0, 1}
         /\ \A q \in Named : q # p => atServer'[q] = atServer[q]
  BY DEF PermTypes, Flip

\* What a report leaves.
LEMMA ReportTypes ==
  ASSUME PermTypes, NEW got \in [Named -> {0, 1, Unset}], NEW flags \in [Named -> {0, 1, Unset}],
         NEW left, Report(got, flags, left)
  PROVE  /\ powers' \in [Named -> {0, 1, Unset}] /\ permPage' \in [Named -> {0, 1, Unset}]
         /\ sentFull' \in BOOLEAN /\ permTimer' \in BOOLEAN /\ flushing' = "no"
  <1>1. flushing' = "no"
    BY DEF Report
  <1>2. CASE permStarted
    <2>1. powers' = got /\ sentFull' = TRUE /\ permTimer' \in BOOLEAN
      BY <1>2 DEF Report
    <2>2. permPage' \in [Named -> {0, 1, Unset}]
      BY <1>2 DEF Report, PermTypes, Named
    <2> QED
      BY <1>1, <2>1, <2>2
  <1>3. CASE ~permStarted
    BY <1>1, <1>3 DEF Report, PermTypes
  <1> QED
    BY <1>2, <1>3

LEMMA ToldTypes ==
  ASSUME PermTypes
  PROVE  /\ Nothing \in [Named -> {0, 1, Unset}]
         /\ \A i \in 1..Len(permWire) : permWire[i].kind = "powers" =>
              permWire[i].told \in [Named -> {0, 1, Unset}]
         /\ \A i \in 1..Len(permWire) : permWire[i].kind = "flag" =>
              permWire[i].of \in Flag /\ permWire[i].value \in {0, 1}
  <1>1. \A i \in 1..Len(permWire) : permWire[i] \in WireMsgs
    BY DEF PermTypes
  <1>2. \A m \in WireMsgs :
          /\ m.kind = "powers" => m.told \in [Named -> {0, 1, Unset}]
          /\ m.kind = "flag" => m.of \in Flag /\ m.value \in {0, 1}
    BY DEF WireMsgs
  <1> QED
    BY <1>1, <1>2 DEF Nothing, Named

LEMMA PermTypesStep ==
  ASSUME PermTypes, PermNext
  PROVE  PermTypes'
  <1>1. ASSUME NEW p \in Flag, FlagChanges(p)
        PROVE  PermTypes'
    <2>1. /\ atServer' \in [Named -> {0, 1}] /\ 1 - atServer[p] \in {0, 1}
      BY <1>1, FlipKeeps DEF FlagChanges, Named
    <2>2. [kind |-> "flag", of |-> p, value |-> 1 - atServer[p]] \in WireMsgs
      BY <2>1 DEF WireMsgs
    <2>3. permWire' \in Seq(WireMsgs)
      BY <1>1, <2>2, WireAppend DEF FlagChanges, PermTypes
    <2> QED
      BY <1>1, <2>1, <2>3 DEF FlagChanges, PermTypes
  <1>2. ASSUME NEW q \in Power, PowerChanges(q)
        PROVE  PermTypes'
    <2>1. atServer' \in [Named -> {0, 1}]
      BY <1>2, FlipKeeps DEF PowerChanges, Named
    <2>2. [kind |-> "groups"] \in WireMsgs
      BY DEF WireMsgs
    <2>3. permWire' \in Seq(WireMsgs)
      BY <1>2, <2>2, WireAppend DEF PowerChanges, PermTypes
    <2> QED
      BY <1>2, <2>1, <2>3 DEF PowerChanges, PermTypes
  <1>3. CASE TellsPowers
    <2>1. [p \in Flag \cup Power |-> IF p \in Power THEN atServer[p] ELSE Unset]
            \in [Named -> {0, 1, Unset}]
      BY DEF PermTypes, Named
    <2>2. [kind |-> "powers", told |-> [p \in Flag \cup Power |->
             IF p \in Power THEN atServer[p] ELSE Unset]] \in WireMsgs
      BY <2>1 DEF WireMsgs
    <2>3. permWire' \in Seq(WireMsgs)
      BY <1>3, <2>2, WireAppend DEF TellsPowers, PermTypes
    <2> QED
      BY <1>3, <2>3 DEF TellsPowers, PermTypes, permServerVars
  <1>4. ASSUME NEW k, Reads(k)
        PROVE  /\ permWire' \in Seq(WireMsgs) /\ Head(permWire) = permWire[1]
               /\ 1 \in 1..Len(permWire) /\ permWire[1].kind = k
    BY <1>4, WireTail DEF Reads, PermTypes
  <1>5. CASE Add
    <2>1. Head(permWire).of \in Flag /\ Head(permWire).value \in {0, 1}
      BY <1>4, <1>5, ToldTypes DEF Add
    <2>2. /\ values' = [values EXCEPT ![Head(permWire).of] = Head(permWire).value]
          /\ toReport' = toReport \cup {Head(permWire).of} /\ permTimer' \in BOOLEAN
          /\ UNCHANGED <<permServerVars, permStarted, permOver, powers, sentFull, powersStale,
                         flushing, needed, permPage>>
      BY <1>5 DEF Add, Schedules, PermTypes
    <2>3. /\ values' \in [Named -> {0, 1, Unset}]
          /\ \A q \in Power : values'[q] = Unset
      BY <2>1, <2>2, PermAssumption DEF PermTypes, Named
    <2> QED
      BY <1>4, <1>5, <2>1, <2>2, <2>3 DEF Add, PermTypes, permServerVars
  <1>6. CASE RefreshPowers
    BY <1>4, <1>6 DEF RefreshPowers, Schedules, PermTypes, permServerVars
  <1>7. CASE Start
    BY <1>7 DEF Start, PermTypes, permServerVars
  <1>8. CASE PermOver
    BY <1>8, ToldTypes DEF PermOver, PermTypes, permServerVars, Nothing, Named
  <1>9. CASE Flush
    BY <1>9 DEF Flush, PermTypes, permServerVars
  <1>10. CASE CatalogComes
    <2> DEFINE flags == [p \in Flag \cup Power |->
                           IF ~sentFull \/ p \in toReport THEN values[p] ELSE Unset]
    <2>1. flags \in [Named -> {0, 1, Unset}] /\ \A q \in Power : flags[q] = Unset
      BY DEF PermTypes, Named
    <2>2. /\ toReport' = {} /\ needed' = flags
          /\ UNCHANGED <<permServerVars, permWire, permStarted, permOver, values, powersStale>>
          /\ \/ flushing' = "permget" /\ UNCHANGED <<powers, sentFull, permPage, permTimer>>
             \/ Report(Nothing, flags, {})
      BY <1>10 DEF CatalogComes
    <2>3. /\ powers' \in [Named -> {0, 1, Unset}] /\ permPage' \in [Named -> {0, 1, Unset}]
          /\ sentFull' \in BOOLEAN /\ permTimer' \in BOOLEAN /\ flushing' \in {"no", "permget"}
      <3> HIDE DEF flags
      <3> QED
        BY <2>1, <2>2, ReportTypes, ToldTypes DEF PermTypes
    <2> HIDE DEF flags
    <2> QED
      BY <2>1, <2>2, <2>3 DEF PermTypes, permServerVars
  <1>11. CASE CatalogRefused
    BY <1>11 DEF CatalogRefused, PermTypes, permServerVars
  <1>12. CASE PowersCome
    <2>1. Head(permWire).told \in [Named -> {0, 1, Unset}]
      BY <1>4, <1>12, ToldTypes DEF PowersCome
    <2>2. Report(Head(permWire).told, needed, toReport) /\ permWire' \in Seq(WireMsgs)
      BY <1>4, <1>12 DEF PowersCome
    <2>3. /\ powers' \in [Named -> {0, 1, Unset}] /\ permPage' \in [Named -> {0, 1, Unset}]
          /\ sentFull' \in BOOLEAN /\ permTimer' \in BOOLEAN /\ flushing' = "no"
      BY <2>1, <2>2, ReportTypes DEF PermTypes
    <2> QED
      BY <1>12, <2>2, <2>3 DEF PowersCome, PermTypes, permServerVars
  <1>13. CASE PermgetFails
    <2>1. /\ powers' \in [Named -> {0, 1, Unset}] /\ permPage' \in [Named -> {0, 1, Unset}]
          /\ sentFull' \in BOOLEAN /\ permTimer' \in BOOLEAN /\ flushing' = "no"
      BY <1>13, ReportTypes, ToldTypes DEF PermgetFails, PermTypes
    <2> QED
      BY <1>13, <2>1 DEF PermgetFails, PermTypes, permServerVars
  <1> QED
    BY <1>1, <1>2, <1>3, <1>5, <1>6, <1>7, <1>8, <1>9, <1>10, <1>11, <1>12, <1>13 DEF PermNext

\* A message behind the others, none of them lost.
LEMMA RowsAppend ==
  ASSUME PermTypes, NEW m \in WireMsgs, permWire' = Append(permWire, m), NEW p
  PROVE  /\ Len(permWire) \in Nat /\ Len(permWire') = Len(permWire) + 1
         /\ permWire'[Len(permWire) + 1] = m
         /\ RowOf(m, p) => \A i \in 0..Len(permWire') : LastRow(i, p)' => i = Len(permWire')
         /\ ~RowOf(m, p) =>
              \A i \in 0..Len(permWire') : LastRow(i, p)' =>
                /\ i \in 0..Len(permWire) /\ LastRow(i, p)
                /\ i # 0 => permWire'[i] = permWire[i]
  <1>1. /\ Len(permWire) \in Nat /\ Len(permWire') = Len(permWire) + 1
        /\ permWire'[Len(permWire) + 1] = m
        /\ \A i \in 1..Len(permWire) : permWire'[i] = permWire[i]
        /\ \A i \in 1..(Len(permWire) + 1) : i = Len(permWire) + 1 \/ i \in 1..Len(permWire)
    BY WireAppend DEF PermTypes
  <1>2. ASSUME RowOf(m, p), NEW i \in 0..Len(permWire'), LastRow(i, p)'
        PROVE  i = Len(permWire')
    <2>1. Len(permWire') \in 1..Len(permWire') /\ (i # Len(permWire') => Len(permWire') > i)
      BY <1>1
    <2> QED
      BY <1>1, <1>2, <2>1 DEF LastRow
  <1>3. ASSUME ~RowOf(m, p), NEW i \in 0..Len(permWire'), LastRow(i, p)'
        PROVE  /\ i \in 0..Len(permWire) /\ LastRow(i, p)
               /\ i # 0 => permWire'[i] = permWire[i]
    <2>1. i # Len(permWire')
      BY <1>1, <1>3 DEF LastRow
    <2>2. i \in 0..Len(permWire) /\ (i # 0 => i \in 1..Len(permWire))
      BY <1>1, <2>1
    <2>3. \A j \in 1..Len(permWire) : j \in 1..Len(permWire') /\ permWire'[j] = permWire[j]
      BY <1>1
    <2> QED
      BY <1>3, <2>2, <2>3 DEF LastRow
  <1> QED
    BY <1>1, <1>2, <1>3

LEMMA RowsTail ==
  ASSUME PermTypes, NEW k, Reads(k), NEW p
  PROVE  /\ permWire[1].kind = k /\ Head(permWire) = permWire[1] /\ 1 \in 1..Len(permWire)
         /\ \A i \in 0..Len(permWire') : LastRow(i, p)' =>
              IF i = 0 THEN IF RowOf(permWire[1], p) THEN LastRow(1, p) ELSE LastRow(0, p)
              ELSE i + 1 \in 1..Len(permWire) /\ LastRow(i + 1, p) /\ permWire'[i] = permWire[i + 1]
  <1>1. /\ Len(permWire) \in Nat /\ Len(permWire) >= 1 /\ Len(permWire') = Len(permWire) - 1
        /\ 1 \in 1..Len(permWire) /\ Head(permWire) = permWire[1] /\ permWire[1].kind = k
        /\ \A i \in 1..Len(permWire') : i + 1 \in 1..Len(permWire) /\ permWire'[i] = permWire[i + 1]
        /\ \A i \in 1..Len(permWire) : i # 1 =>
             i - 1 \in 1..Len(permWire') /\ permWire'[i - 1] = permWire[i]
    BY WireTail DEF PermTypes, Reads
  <1>2. ASSUME NEW i \in 0..Len(permWire'), LastRow(i, p)'
        PROVE  \A j \in 1..Len(permWire) : j > i + 1 => ~RowOf(permWire[j], p)
    <2> SUFFICES ASSUME NEW j \in 1..Len(permWire), j > i + 1
                 PROVE  ~RowOf(permWire[j], p)
      OBVIOUS
    <2>1. j - 1 \in 1..Len(permWire') /\ permWire'[j - 1] = permWire[j] /\ j - 1 > i
      BY <1>1
    <2> QED
      BY <1>2, <2>1 DEF LastRow
  <1>3. ASSUME NEW i \in 0..Len(permWire'), LastRow(i, p)', i # 0
        PROVE  i + 1 \in 1..Len(permWire) /\ LastRow(i + 1, p) /\ permWire'[i] = permWire[i + 1]
    <2>1. i \in 1..Len(permWire')
      BY <1>1, <1>3
    <2> QED
      BY <1>1, <1>2, <1>3, <2>1 DEF LastRow
  <1>4. ASSUME LastRow(0, p)'
        PROVE  IF RowOf(permWire[1], p) THEN LastRow(1, p) ELSE LastRow(0, p)
    <2>1. \A j \in 1..Len(permWire) : j > 1 => ~RowOf(permWire[j], p)
      BY <1>1, <1>2, <1>4
    <2>2. \A j \in 1..Len(permWire) : j > 0 => j = 1 \/ j > 1
      BY <1>1
    <2> QED
      BY <2>1, <2>2 DEF LastRow
  <1> QED
    BY <1>1, <1>3, <1>4

LEMMA RowsSame ==
  ASSUME RowsInv, UNCHANGED <<permWire, atServer>>,
         \/ UNCHANGED <<values, permOver>>
         \/ permOver'
  PROVE  RowsInv'
  BY DEF RowsInv, LastRow

LEMMA RowsStep ==
  ASSUME PermTypes, RowsInv, PermNext
  PROVE  RowsInv'
  <1>1. ASSUME NEW p \in Flag, FlagChanges(p)
        PROVE  RowsInv'
    <2> DEFINE m == [kind |-> "flag", of |-> p, value |-> 1 - atServer[p]]
    <2>1. /\ atServer'[p] = 1 - atServer[p] /\ 1 - atServer[p] \in {0, 1}
          /\ \A q \in Named : q # p => atServer'[q] = atServer[q]
      BY <1>1, FlipKeeps DEF FlagChanges, Named
    <2>2. m \in WireMsgs /\ m.value = atServer'[p] /\ (\A q : RowOf(m, q) <=> q = p)
      BY <2>1 DEF WireMsgs, RowOf
    <2>3. permWire' = Append(permWire, m) /\ UNCHANGED <<values, permOver>>
      BY <1>1 DEF FlagChanges
    <2> HIDE DEF m
    <2> SUFFICES ASSUME NEW q \in Flag, NEW i \in 0..Len(permWire'), LastRow(i, q)'
                 PROVE  IF i = 0 THEN values'[q] # Unset /\ ~permOver' => values'[q] = atServer'[q]
                        ELSE permWire'[i].value = atServer'[q]
      BY DEF RowsInv
    <2>4. CASE q = p
      BY <2>2, <2>3, <2>4, RowsAppend
    <2>5. CASE q # p
      <3>1. /\ i \in 0..Len(permWire) /\ LastRow(i, q)
            /\ i # 0 => permWire'[i] = permWire[i]
        BY <2>2, <2>3, <2>5, RowsAppend
      <3> QED
        BY <2>1, <2>3, <2>5, <3>1 DEF RowsInv, Named
    <2> QED
      BY <2>4, <2>5
  <1>2. ASSUME NEW m \in WireMsgs, m.kind # "flag", permWire' = Append(permWire, m),
               \A p \in Flag : atServer'[p] = atServer[p], UNCHANGED <<values, permOver>>
        PROVE  RowsInv'
    <2> SUFFICES ASSUME NEW q \in Flag, NEW i \in 0..Len(permWire'), LastRow(i, q)'
                 PROVE  IF i = 0 THEN values'[q] # Unset /\ ~permOver' => values'[q] = atServer'[q]
                        ELSE permWire'[i].value = atServer'[q]
      BY DEF RowsInv
    <2>1. /\ i \in 0..Len(permWire) /\ LastRow(i, q)
          /\ i # 0 => permWire'[i] = permWire[i]
      BY <1>2, RowsAppend DEF RowOf
    <2> QED
      BY <1>2, <2>1 DEF RowsInv
  <1>3. ASSUME NEW q \in Power, PowerChanges(q)
        PROVE  RowsInv'
    <2>1. \A p \in Flag : atServer'[p] = atServer[p]
      BY <1>3, FlipKeeps, PermAssumption DEF PowerChanges, Named
    <2>2. [kind |-> "groups"] \in WireMsgs /\ [kind |-> "groups"].kind # "flag"
      BY DEF WireMsgs
    <2> QED
      BY <1>2, <1>3, <2>1, <2>2 DEF PowerChanges
  <1>4. CASE TellsPowers
    <2> DEFINE told == [p \in Flag \cup Power |-> IF p \in Power THEN atServer[p] ELSE Unset]
    <2>1. told \in [Named -> {0, 1, Unset}]
      BY DEF PermTypes, Named
    <2> HIDE DEF told
    <2>2. /\ [kind |-> "powers", told |-> told] \in WireMsgs
          /\ [kind |-> "powers", told |-> told].kind # "flag"
      BY <2>1 DEF WireMsgs
    <2>3. /\ permWire' = Append(permWire, [kind |-> "powers", told |-> told])
          /\ UNCHANGED <<atServer, values, permOver>>
      BY <1>4 DEF TellsPowers, told, permServerVars
    <2> QED
      BY <1>2, <2>2, <2>3
  <1>5. CASE Add
    <2> SUFFICES ASSUME NEW q \in Flag, NEW i \in 0..Len(permWire'), LastRow(i, q)'
                 PROVE  IF i = 0 THEN values'[q] # Unset /\ ~permOver' => values'[q] = atServer'[q]
                        ELSE permWire'[i].value = atServer'[q]
      BY DEF RowsInv
    <2>1. /\ permWire[1].kind = "flag" /\ Head(permWire) = permWire[1] /\ 1 \in 1..Len(permWire)
          /\ IF i = 0 THEN IF RowOf(permWire[1], q) THEN LastRow(1, q) ELSE LastRow(0, q)
             ELSE i + 1 \in 1..Len(permWire) /\ LastRow(i + 1, q) /\ permWire'[i] = permWire[i + 1]
      BY <1>5, RowsTail DEF Add
    <2>2. /\ values' = [values EXCEPT ![permWire[1].of] = permWire[1].value]
          /\ values \in [Named -> {0, 1, Unset}] /\ q \in Named
          /\ UNCHANGED <<atServer, permOver>>
      BY <1>5, <2>1 DEF Add, PermTypes, permServerVars, Named
    <2>3. CASE i # 0
      BY <2>1, <2>2, <2>3 DEF RowsInv
    <2>4. CASE i = 0 /\ RowOf(permWire[1], q)
      <3>1. 1 \in 0..Len(permWire) /\ LastRow(1, q)
        BY <2>1, <2>4
      <3>2. permWire[1].value = atServer[q] /\ permWire[1].of = q
        BY <2>4, <3>1 DEF RowsInv, RowOf
      <3> QED
        BY <2>2, <2>4, <3>2
    <2>5. CASE i = 0 /\ ~RowOf(permWire[1], q)
      <3>1. 0 \in 0..Len(permWire) /\ LastRow(0, q) /\ permWire[1].of # q
        BY <2>1, <2>5 DEF RowOf
      <3> QED
        BY <2>2, <2>5, <3>1 DEF RowsInv
    <2> QED
      BY <2>3, <2>4, <2>5
  <1>6. CASE RefreshPowers \/ PowersCome
    <2>1. /\ Reads("groups") \/ Reads("powers")
          /\ UNCHANGED <<atServer, values, permOver>>
      BY <1>6 DEF RefreshPowers, PowersCome, permServerVars
    <2> SUFFICES ASSUME NEW q \in Flag, NEW i \in 0..Len(permWire'), LastRow(i, q)'
                 PROVE  IF i = 0 THEN values'[q] # Unset /\ ~permOver' => values'[q] = atServer'[q]
                        ELSE permWire'[i].value = atServer'[q]
      BY DEF RowsInv
    <2>2. PICK k \in {"groups", "powers"} : Reads(k)
      BY <2>1
    <2>3. /\ permWire[1].kind = k /\ 1 \in 1..Len(permWire)
          /\ IF i = 0 THEN IF RowOf(permWire[1], q) THEN LastRow(1, q) ELSE LastRow(0, q)
             ELSE i + 1 \in 1..Len(permWire) /\ LastRow(i + 1, q) /\ permWire'[i] = permWire[i + 1]
      BY <2>2, RowsTail
    <2>4. CASE i # 0
      BY <2>1, <2>3, <2>4 DEF RowsInv
    <2>5. CASE i = 0
      <3>1. LastRow(0, q) /\ 0 \in 0..Len(permWire)
        BY <2>3, <2>5 DEF RowOf
      <3> QED
        BY <2>1, <2>5, <3>1 DEF RowsInv
    <2> QED
      BY <2>4, <2>5
  <1>7. CASE Start \/ Flush \/ CatalogComes
    BY <1>7, RowsSame DEF Start, Flush, CatalogComes, permServerVars
  <1>8. CASE CatalogRefused \/ PermgetFails
    BY <1>8, RowsSame DEF CatalogRefused, PermgetFails, permServerVars
  <1>9. CASE PermOver
    BY <1>9, RowsSame DEF PermOver, permServerVars
  <1> QED
    BY <1>1, <1>3, <1>4, <1>5, <1>6, <1>7, <1>8, <1>9 DEF PermNext

\* What a report of a connection that goes on does.
LEMMA ReportGives ==
  ASSUME PermTypes, PowersInv, permStarted,
         NEW got \in [Named -> {0, 1, Unset}], NEW flags \in [Named -> {0, 1, Unset}],
         \A q \in Power : flags[q] = Unset,
         NEW left, Report(got, flags, left)
  PROVE  /\ flushing' = "no" /\ powers' = got /\ sentFull'
         /\ permTimer' = (permTimer \/ left # {} \/ powersStale)
         /\ \A p \in Flag : permPage'[p] = IF flags[p] # Unset THEN flags[p]
                                           ELSE IF ~sentFull THEN Unset ELSE permPage[p]
         /\ \A q \in Power : got[q] # Unset => permPage'[q] = got[q]
  <1> DEFINE moved == {q \in Power : got[q] # Unset /\ (~sentFull \/ powers[q] # got[q])}
  <1>1. /\ flushing' = "no" /\ powers' = got /\ sentFull'
        /\ permTimer' = (permTimer \/ left # {} \/ powersStale)
        /\ permPage' = [p \in Flag \cup Power |->
               IF p \in moved THEN got[p]
               ELSE IF flags[p] # Unset THEN flags[p]
               ELSE IF ~sentFull THEN Unset ELSE permPage[p]]
    BY DEF Report
  <1>2. \A p \in Flag : p \notin moved
    BY PermAssumption
  <1>3. ASSUME NEW q \in Power, got[q] # Unset
        PROVE  permPage'[q] = got[q]
    <2>1. CASE q \in moved
      BY <1>1, <2>1
    <2>2. CASE q \notin moved
      <3>1. sentFull /\ powers[q] = got[q] /\ permPage[q] = powers[q]
        BY <1>3, <2>2 DEF PowersInv
      <3> QED
        BY <1>1, <2>2, <3>1
    <2> QED
      BY <2>1, <2>2
  <1>4. \A p \in Flag : permPage'[p] = IF flags[p] # Unset THEN flags[p]
                                       ELSE IF ~sentFull THEN Unset ELSE permPage[p]
    BY <1>1, <1>2
  <1> HIDE DEF moved
  <1> QED
    BY <1>1, <1>3, <1>4

LEMMA ToldHead ==
  ASSUME PermTypes, NEW k, Reads(k)
  PROVE  /\ Head(permWire) = permWire[1] /\ permWire[1].kind = k /\ 1 \in 1..Len(permWire)
         /\ k = "flag" => Head(permWire).of \in Flag /\ Head(permWire).of \in Named
         /\ k = "powers" => Head(permWire).told \in [Named -> {0, 1, Unset}]
  <1>1. Head(permWire) = permWire[1] /\ permWire[1].kind = k /\ 1 \in 1..Len(permWire)
    BY WireTail DEF PermTypes, Reads
  <1> QED
    BY <1>1, ToldTypes DEF Named

LEMMA StagesStep ==
  ASSUME PermTypes, StagesInv, PermNext
  PROVE  StagesInv'
  <1> USE DEF StagesInv
  <1>1. ASSUME NEW p, FlagChanges(p)
        PROVE  StagesInv'
    BY <1>1 DEF FlagChanges
  <1>2. ASSUME NEW p, PowerChanges(p)
        PROVE  StagesInv'
    BY <1>2 DEF PowerChanges
  <1>3. CASE TellsPowers
    BY <1>3 DEF TellsPowers
  <1>4. CASE Add \/ RefreshPowers
    BY <1>4 DEF Add, RefreshPowers, Schedules, PermTypes
  <1>5. CASE Start
    BY <1>5 DEF Start
  <1>6. CASE PermOver
    BY <1>6 DEF PermOver
  <1>7. CASE Flush
    BY <1>7 DEF Flush
  <1>8. CASE CatalogComes
    <2> DEFINE flags == [p \in Flag \cup Power |->
                           IF ~sentFull \/ p \in toReport THEN values[p] ELSE Unset]
    <2>1. /\ flushing = "catalog" /\ UNCHANGED <<permStarted, permOver>>
          /\ \/ flushing' = "permget" /\ permTimer' = permTimer
             \/ Report(Nothing, flags, {})
      BY <1>8 DEF CatalogComes
    <2> HIDE DEF flags
    <2>2. ~permTimer /\ (permStarted \/ permOver)
      BY <2>1
    <2>3. CASE flushing' = "permget" /\ permTimer' = permTimer
      BY <2>1, <2>2, <2>3
    <2>4. CASE Report(Nothing, flags, {})
      BY <2>1, <2>2, <2>4 DEF Report, PermTypes
    <2> QED
      BY <2>1, <2>3, <2>4
  <1>9. CASE CatalogRefused
    BY <1>9 DEF CatalogRefused
  <1>10. CASE PowersCome
    BY <1>10 DEF PowersCome, Report, PermTypes
  <1>11. CASE PermgetFails
    BY <1>11 DEF PermgetFails, Report, PermTypes
  <1> QED
    BY <1>1, <1>2, <1>3, <1>4, <1>5, <1>6, <1>7, <1>8, <1>9, <1>10, <1>11 DEF PermNext

LEMMA FlagsSame ==
  ASSUME FlagsInv, UNCHANGED <<permStarted, values, toReport, sentFull, powersStale, permTimer,
                               flushing, needed, permPage>>
  PROVE  FlagsInv'
  BY DEF FlagsInv

LEMMA FlagsStep ==
  ASSUME PermTypes, StagesInv, FlagsInv, PowersInv, PermNext
  PROVE  FlagsInv'
  <1> USE DEF FlagsInv
  <1>1. ASSUME NEW p \in Named, FlagChanges(p) \/ PowerChanges(p)
        PROVE  FlagsInv'
    BY <1>1, FlagsSame DEF FlagChanges, PowerChanges
  <1>2. CASE TellsPowers
    BY <1>2 DEF TellsPowers, permServerVars
  <1>3. CASE Add
    <2>1. /\ Head(permWire).of \in Flag /\ Head(permWire).of \in Named
          /\ values \in [Named -> {0, 1, Unset}]
          /\ values' = [values EXCEPT ![Head(permWire).of] = Head(permWire).value]
          /\ toReport' = toReport \cup {Head(permWire).of}
          /\ permTimer' = (permTimer \/ (permStarted /\ flushing = "no"))
          /\ UNCHANGED <<permStarted, permOver, powers, sentFull, powersStale,
                         flushing, needed, permPage>>
      BY <1>3, ToldHead DEF Add, Schedules, PermTypes
    <2>2. \A p \in Flag \ toReport' : values'[p] = values[p] /\ p \in Flag \ toReport
      BY <2>1 DEF Named
    <2> QED
      BY <2>1, <2>2
  <1>4. CASE RefreshPowers
    BY <1>4 DEF RefreshPowers, Schedules, permServerVars
  <1>5. CASE Start
    BY <1>5 DEF Start, StagesInv
  <1>6. CASE PermOver
    BY <1>6 DEF PermOver
  <1>7. CASE Flush
    BY <1>7 DEF Flush, StagesInv
  <1>8. CASE CatalogComes
    <2> DEFINE flags == [p \in Flag \cup Power |->
                           IF ~sentFull \/ p \in toReport THEN values[p] ELSE Unset]
    <2>1. /\ flags \in [Named -> {0, 1, Unset}]
          /\ \A p \in Named : flags[p] = IF ~sentFull \/ p \in toReport THEN values[p] ELSE Unset
          /\ \A q \in Power : flags[q] = Unset
      BY DEF PermTypes, Named
    <2>2. /\ flushing = "catalog" /\ toReport' = {} /\ needed' = flags
          /\ UNCHANGED <<permStarted, permOver, values, powersStale>>
          /\ \/ flushing' = "permget" /\ UNCHANGED <<powers, sentFull, permPage, permTimer>>
             \/ Report(Nothing, flags, {})
      BY <1>8 DEF CatalogComes
    <2> HIDE DEF flags
    <2> SUFFICES ASSUME permStarted
                 PROVE  FlagsInv'
      BY <2>2
    <2>3. CASE flushing' = "permget" /\ UNCHANGED <<powers, sentFull, permPage, permTimer>>
      BY <2>1, <2>2, <2>3 DEF Named
    <2>4. CASE Report(Nothing, flags, {})
      <3>1. /\ flushing' = "no" /\ sentFull' /\ permTimer' = (permTimer \/ powersStale)
            /\ \A p \in Flag : permPage'[p] = IF flags[p] # Unset THEN flags[p]
                                              ELSE IF ~sentFull THEN Unset ELSE permPage[p]
        BY <2>1, <2>4, ReportGives, ToldTypes
      <3> QED
        BY <2>1, <2>2, <3>1 DEF Named
    <2> QED
      BY <2>2, <2>3, <2>4
  <1>9. CASE CatalogRefused
    BY <1>9 DEF CatalogRefused
  <1>10. ASSUME NEW got \in [Named -> {0, 1, Unset}], Report(got, needed, toReport),
                flushing \in {"permget", "told"},
                UNCHANGED <<permStarted, values, toReport, powersStale, needed>>
         PROVE  FlagsInv'
    <2> SUFFICES ASSUME permStarted
                 PROVE  FlagsInv'
      BY <1>10
    <2>1. /\ flushing' = "no" /\ sentFull' /\ permTimer' = (permTimer \/ toReport # {} \/ powersStale)
          /\ \A p \in Flag : permPage'[p] = IF needed[p] # Unset THEN needed[p]
                                            ELSE IF ~sentFull THEN Unset ELSE permPage[p]
      BY <1>10, ReportGives DEF PermTypes
    <2> QED
      BY <1>10, <2>1
  <1>11. CASE PowersCome
    <2>1. Head(permWire).told \in [Named -> {0, 1, Unset}]
      BY <1>11, ToldHead DEF PowersCome
    <2> QED
      BY <1>10, <1>11, <2>1 DEF PowersCome
  <1>12. CASE PermgetFails
    BY <1>10, <1>12, ToldTypes DEF PermgetFails
  <1> QED
    BY <1>1, <1>2, <1>3, <1>4, <1>5, <1>6, <1>7, <1>8, <1>9, <1>11, <1>12 DEF PermNext, Named

LEMMA AnswersSame ==
  ASSUME AnswersInv, UNCHANGED <<permWire, atServer>>,
         flushing' = flushing \/ flushing # "told"
  PROVE  AnswersInv'
  <1>1. CASE flushing' = flushing
    BY <1>1 DEF AnswersInv, GroupsAfter
  <1>2. CASE flushing # "told"
    BY <1>2 DEF AnswersInv
  <1> QED
    BY <1>1, <1>2

LEMMA AnswersStep ==
  ASSUME PermTypes, StagesInv, AnswersInv, PermNext
  PROVE  AnswersInv'
  <1> USE DEF AnswersInv
  <1>1. ASSUME NEW m \in WireMsgs, permWire' = Append(permWire, m)
        PROVE  /\ Len(permWire) \in Nat /\ Len(permWire') = Len(permWire) + 1
               /\ Len(permWire') \in 1..Len(permWire')
               /\ permWire'[Len(permWire')] = m
               /\ \A i \in 1..Len(permWire) : permWire'[i] = permWire[i] /\ i \in 1..Len(permWire')
                                              /\ Len(permWire') > i
               /\ \A i \in 1..Len(permWire') : i = Len(permWire') \/ i \in 1..Len(permWire)
               /\ \A i \in 1..Len(permWire) : GroupsAfter(i) => GroupsAfter(i)'
    <2>1. /\ Len(permWire) \in Nat /\ Len(permWire') = Len(permWire) + 1
          /\ Len(permWire') \in 1..Len(permWire')
          /\ permWire'[Len(permWire')] = m
          /\ \A i \in 1..Len(permWire) : permWire'[i] = permWire[i] /\ i \in 1..Len(permWire')
                                         /\ Len(permWire') > i
          /\ \A i \in 1..Len(permWire') : i = Len(permWire') \/ i \in 1..Len(permWire)
      BY <1>1, WireAppend DEF PermTypes
    <2> QED
      BY <2>1 DEF GroupsAfter
  <1>2. ASSUME NEW p \in Flag, FlagChanges(p)
        PROVE  AnswersInv'
    <2> DEFINE m == [kind |-> "flag", of |-> p, value |-> 1 - atServer[p]]
    <2>1. m \in WireMsgs /\ m.kind = "flag" /\ permWire' = Append(permWire, m) /\ flushing' = flushing
      BY <1>2, FlipKeeps DEF FlagChanges, WireMsgs, Named
    <2>2. \A q \in Power : atServer'[q] = atServer[q]
      BY <1>2, FlipKeeps, PermAssumption DEF FlagChanges, Named
    <2> HIDE DEF m
    <2> QED
      BY <1>1, <2>1, <2>2
  <1>3. ASSUME NEW p \in Power, PowerChanges(p)
        PROVE  AnswersInv'
    <2> DEFINE m == [kind |-> "groups"]
    <2>1. m \in WireMsgs /\ m.kind = "groups" /\ permWire' = Append(permWire, m) /\ flushing' = flushing
      BY <1>3 DEF PowerChanges, WireMsgs
    <2> HIDE DEF m
    <2>2. \A i \in 1..Len(permWire) : GroupsAfter(i)'
      BY <1>1, <2>1 DEF GroupsAfter
    <2> QED
      BY <1>1, <2>1, <2>2
  <1>4. CASE TellsPowers
    <2> DEFINE told == [p \in Flag \cup Power |-> IF p \in Power THEN atServer[p] ELSE Unset]
               m == [kind |-> "powers", told |-> told]
    <2>1. told \in [Named -> {0, 1, Unset}] /\ \A q \in Power : told[q] = atServer[q]
      BY DEF PermTypes, Named
    <2>2. m \in WireMsgs /\ m.kind = "powers" /\ m.told = told
      <3> HIDE DEF told
      <3> QED
        BY <2>1 DEF WireMsgs
    <2>3. /\ permWire' = Append(permWire, m) /\ flushing = "permget" /\ flushing' = "told"
          /\ atServer' = atServer
      BY <1>4 DEF TellsPowers, permServerVars
    <2> HIDE DEF m, told
    <2>4. \A i \in 1..Len(permWire) : permWire[i].kind # "powers"
      BY <2>3
    <2>5. \A i \in 1..Len(permWire') : permWire'[i].kind = "powers" =>
            i = Len(permWire') /\ permWire'[i] = m
      BY <1>1, <2>2, <2>3, <2>4
    <2> QED
      BY <2>1, <2>2, <2>3, <2>5
  <1>5. ASSUME NEW k, Reads(k), UNCHANGED atServer, k = "powers" \/ flushing' = flushing
        PROVE  AnswersInv'
    <2>1. /\ Len(permWire) \in Nat /\ Len(permWire) >= 1 /\ Len(permWire') = Len(permWire) - 1
          /\ 1 \in 1..Len(permWire) /\ permWire[1].kind = k
          /\ \A i \in 1..Len(permWire') : i + 1 \in 1..Len(permWire) /\ permWire'[i] = permWire[i + 1]
                                          /\ i + 1 # 1
          /\ \A i \in 1..Len(permWire) : i # 1 =>
               i - 1 \in 1..Len(permWire') /\ permWire'[i - 1] = permWire[i]
      BY <1>5, WireTail DEF PermTypes, Reads
    <2>2. CASE k = "powers"
      <3>1. \A i \in 1..Len(permWire') : permWire'[i].kind # "powers"
        BY <2>1, <2>2
      <3> QED
        BY <3>1
    <2>3. CASE k # "powers"
      <3>1. ASSUME NEW i \in 1..Len(permWire'), GroupsAfter(i + 1)
            PROVE  GroupsAfter(i)'
        <4>1. PICK j \in 1..Len(permWire) : j > i + 1 /\ permWire[j].kind = "groups"
          BY <3>1 DEF GroupsAfter
        <4>2. j # 1 /\ j - 1 > i
          BY <2>1, <4>1
        <4>3. j - 1 \in 1..Len(permWire') /\ permWire'[j - 1].kind = "groups"
          BY <2>1, <4>1, <4>2
        <4> QED
          BY <4>2, <4>3 DEF GroupsAfter
      <3>2. ASSUME NEW i \in 1..Len(permWire'), permWire'[i].kind = "powers"
            PROVE  /\ flushing' = "told"
                   /\ \A j \in 1..Len(permWire') : permWire'[j].kind = "powers" => j = i
                   /\ \A q \in Power : permWire'[i].told[q] = atServer'[q] \/ GroupsAfter(i)'
        <4>1. /\ i + 1 \in 1..Len(permWire) /\ permWire[i + 1].kind = "powers"
              /\ permWire'[i] = permWire[i + 1]
          BY <2>1, <3>2
        <4>2. /\ flushing = "told"
              /\ \A j \in 1..Len(permWire) : permWire[j].kind = "powers" => j = i + 1
              /\ \A q \in Power : permWire[i + 1].told[q] = atServer[q] \/ GroupsAfter(i + 1)
          BY <4>1
        <4>3. ASSUME NEW j \in 1..Len(permWire'), permWire'[j].kind = "powers"
              PROVE  j = i
          <5>1. j + 1 = i + 1
            BY <2>1, <4>2, <4>3
          <5> QED
            BY <5>1
        <4> QED
          BY <1>5, <2>3, <3>1, <4>1, <4>2, <4>3
      <3> QED
        BY <3>2
    <2> QED
      BY <2>2, <2>3
  <1>6. CASE Add
    BY <1>5, <1>6 DEF Add, permServerVars
  <1>7. CASE RefreshPowers
    BY <1>5, <1>7 DEF RefreshPowers, permServerVars
  <1>8. CASE PowersCome
    BY <1>5, <1>8 DEF PowersCome, permServerVars
  <1>9. CASE Start \/ Flush \/ PermOver
    BY <1>9, AnswersSame DEF Start, Flush, PermOver, permServerVars, StagesInv
  <1>10. CASE CatalogComes \/ CatalogRefused \/ PermgetFails
    BY <1>10, AnswersSame DEF CatalogComes, CatalogRefused, PermgetFails, permServerVars
  <1> QED
    BY <1>2, <1>3, <1>4, <1>6, <1>7, <1>8, <1>9, <1>10 DEF PermNext

LEMMA PowersStep ==
  ASSUME PermTypes, StagesInv, AnswersInv, PowersInv, PermNext
  PROVE  PowersInv'
  <1>1. ASSUME NEW p \in Flag, FlagChanges(p)
        PROVE  PowersInv'
    <2>1. permWire \in Seq(WireMsgs) /\ GroupsAfter(0) => GroupsAfter(0)'
      BY <1>1, WireAppend DEF FlagChanges, PermTypes, GroupsAfter
    <2>2. \A q \in Power : atServer'[q] = atServer[q]
      BY <1>1, FlipKeeps, PermAssumption DEF FlagChanges, Named
    <2> QED
      BY <1>1, <2>1, <2>2 DEF FlagChanges, PowersInv, PermTypes
  <1>2. ASSUME NEW p \in Power, PowerChanges(p)
        PROVE  PowersInv'
    <2>1. GroupsAfter(0)'
      <3>1. /\ Len(permWire') \in 1..Len(permWire') /\ Len(permWire') > 0
            /\ permWire'[Len(permWire')].kind = "groups"
        BY <1>2 DEF PowerChanges, PermTypes
      <3> QED
        BY <3>1 DEF GroupsAfter
    <2> QED
      BY <1>2, <2>1 DEF PowerChanges, PowersInv
  <1>3. CASE TellsPowers
    BY <1>3 DEF TellsPowers, PowersInv
  <1>4. CASE Add
    <2>1. /\ GroupsAfter(0) => GroupsAfter(0)'
      <3> SUFFICES ASSUME NEW j \in 1..Len(permWire), permWire[j].kind = "groups"
                   PROVE  GroupsAfter(0)'
        BY DEF GroupsAfter
      <3>1. j # 1
        BY <1>4, ToldHead DEF Add
      <3>2. j - 1 \in 1..Len(permWire') /\ j - 1 > 0 /\ permWire'[j - 1] = permWire[j]
        BY <1>4, <3>1, WireTail DEF Add, Reads, PermTypes
      <3> QED
        BY <3>2 DEF GroupsAfter
    <2> QED
      BY <1>4, <2>1 DEF Add, PowersInv, permServerVars
  <1>5. CASE RefreshPowers
    BY <1>5 DEF RefreshPowers, PowersInv
  <1>6. CASE Start
    BY <1>6 DEF Start, PowersInv, StagesInv
  <1>7. CASE PermOver
    BY <1>7 DEF PermOver, PowersInv
  <1>8. CASE Flush
    <2>1. GroupsAfter(0)' = GroupsAfter(0)
      BY <1>8 DEF Flush, GroupsAfter
    <2> QED
      BY <1>8, <2>1 DEF Flush, PowersInv, StagesInv, permServerVars
  <1>9. ASSUME NEW flags \in [Named -> {0, 1, Unset}], \A q \in Power : flags[q] = Unset,
               NEW left, NEW got \in [Named -> {0, 1, Unset}], Report(got, flags, left),
               permStarted' = permStarted,
               \A q \in Power : got[q] # Unset => got[q] = atServer'[q] \/ GroupsAfter(0)'
        PROVE  PowersInv'
    <2> SUFFICES ASSUME permStarted
                 PROVE  PowersInv'
      BY <1>9 DEF PowersInv
    <2>1. /\ powers' = got /\ sentFull' /\ \A q \in Power : got[q] # Unset => permPage'[q] = got[q]
      BY <1>9, ReportGives
    <2> QED
      BY <1>9, <2>1 DEF PowersInv
  <1>10. CASE CatalogComes
    <2> DEFINE flags == [p \in Flag \cup Power |->
                           IF ~sentFull \/ p \in toReport THEN values[p] ELSE Unset]
    <2>1. /\ flags \in [Named -> {0, 1, Unset}]
          /\ \A q \in Power : flags[q] = Unset
      BY DEF PermTypes, Named
    <2>2. /\ permStarted' = permStarted
          /\ \/ flushing' = "permget" /\ UNCHANGED <<powers, sentFull, permPage>>
             \/ Report(Nothing, flags, {})
      BY <1>10 DEF CatalogComes
    <2>3. Nothing \in [Named -> {0, 1, Unset}] /\ \A q \in Power : Nothing[q] = Unset
      BY ToldTypes DEF Nothing
    <2> HIDE DEF flags
    <2>4. CASE flushing' = "permget" /\ UNCHANGED <<powers, sentFull, permPage>>
      BY <2>2, <2>4 DEF PowersInv
    <2>5. CASE Report(Nothing, flags, {})
      BY <1>9, <2>1, <2>2, <2>3, <2>5
    <2> QED
      BY <2>2, <2>4, <2>5
  <1>11. CASE CatalogRefused
    BY <1>11 DEF CatalogRefused, PowersInv, permServerVars
  <1>12. CASE PowersCome
    <2> DEFINE got == Head(permWire).told
    <2>1. /\ got \in [Named -> {0, 1, Unset}] /\ Head(permWire) = permWire[1]
          /\ permWire[1].kind = "powers" /\ 1 \in 1..Len(permWire)
      BY <1>12, ToldHead DEF PowersCome
    <2>2. \A q \in Power : got[q] = atServer[q] \/ GroupsAfter(1)
      BY <2>1 DEF AnswersInv
    <2>3. ASSUME GroupsAfter(1)
          PROVE  GroupsAfter(0)'
      <3>1. PICK j \in 1..Len(permWire) : j > 1 /\ permWire[j].kind = "groups"
        BY <2>3 DEF GroupsAfter
      <3>2. j - 1 \in 1..Len(permWire') /\ j - 1 > 0 /\ permWire'[j - 1] = permWire[j]
        BY <1>12, <3>1, WireTail DEF PowersCome, Reads, PermTypes
      <3> QED
        BY <3>1, <3>2 DEF GroupsAfter
    <2>4. Report(got, needed, toReport) /\ permStarted' = permStarted /\ atServer' = atServer
      BY <1>12 DEF PowersCome, permServerVars
    <2>5. needed \in [Named -> {0, 1, Unset}] /\ \A q \in Power : needed[q] = Unset
      BY DEF PermTypes
    <2> HIDE DEF got
    <2> QED
      BY <1>9, <2>1, <2>2, <2>3, <2>4, <2>5
  <1>13. CASE PermgetFails
    <2>1. Nothing \in [Named -> {0, 1, Unset}] /\ \A q \in Power : Nothing[q] = Unset
      BY ToldTypes DEF Nothing
    <2>2. needed \in [Named -> {0, 1, Unset}] /\ \A q \in Power : needed[q] = Unset
      BY DEF PermTypes
    <2> QED
      BY <1>9, <1>13, <2>1, <2>2 DEF PermgetFails
  <1> QED
    BY <1>1, <1>2, <1>3, <1>4, <1>5, <1>6, <1>7, <1>8, <1>10, <1>11, <1>12, <1>13 DEF PermNext

PermInv == PermTypes /\ RowsInv /\ FlagsInv /\ StagesInv /\ AnswersInv /\ PowersInv

LEMMA PermInvStep == PermInv /\ [PermNext]_permVars => PermInv'
  <1> SUFFICES ASSUME PermInv, [PermNext]_permVars
               PROVE  PermInv'
    OBVIOUS
  <1>1. CASE UNCHANGED permVars
    BY <1>1 DEF permVars, PermInv, PermTypes, RowsInv, LastRow, FlagsInv, StagesInv, AnswersInv,
                PowersInv, GroupsAfter
  <1> QED
    BY <1>1, PermTypesStep, RowsStep, FlagsStep, StagesStep, AnswersStep, PowersStep DEF PermInv

LEMMA PermInvCurrent == PermInv => PagePermsCurrent
  <1> SUFFICES ASSUME PermInv, PermIdle, sentFull
               PROVE  /\ \A p \in Flag : values[p] # Unset => permPage[p] = atServer[p]
                      /\ \A q \in Power : powers[q] # Unset =>
                           /\ permPage[q] = powers[q]
                           /\ ~listLost => powers[q] = atServer[q]
    BY DEF PagePermsCurrent
  <1>1. /\ permStarted /\ ~permTimer /\ flushing = "no" /\ permWire = <<>> /\ ~permOver
    BY DEF PermIdle, PermInv, PermTypes
  <1>2. toReport = {} /\ ~powersStale
    BY <1>1 DEF PermInv, FlagsInv
  <1>3. \A p : LastRow(0, p)
    BY <1>1 DEF LastRow
  <1>4. ~GroupsAfter(0)
    BY <1>1 DEF GroupsAfter
  <1>5. ASSUME NEW p \in Flag, values[p] # Unset
        PROVE  permPage[p] = atServer[p]
    <2>1. values[p] = atServer[p]
      BY <1>1, <1>3, <1>5 DEF PermInv, RowsInv
    <2> QED
      BY <1>1, <1>2, <1>5, <2>1 DEF PermInv, FlagsInv
  <1> QED
    BY <1>1, <1>2, <1>4, <1>5 DEF PermInv, PowersInv

\* Whatever changes while a flush awaits the catalogue or the powers: when nothing is left
\* to read or to flush, the page has every flag that was announced as it is, and every
\* power as the hub has it.
THEOREM PermsCurrent == PermSpec => []PagePermsCurrent
  <1>1. PermInit => PermInv
    BY PermsInit DEF PermInv
  <1> QED
    BY <1>1, PermInvStep, PermInvCurrent, PTL DEF PermSpec
=============================================================================
