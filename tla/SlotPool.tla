------------------------------ MODULE SlotPool ------------------------------
(***************************************************************************)
(* What the transfer slots of the hub promise: a transfer runs only while  *)
(* it holds a slot, at most PerSession of one session and HubWide of the   *)
(* hub hold one, downloads leave an upload its slot, and every slot taken  *)
(* is given back.                                                          *)
(***************************************************************************)
EXTENDS Integers, FiniteSets

CONSTANTS
  Session,
  Download,    \* transfers of files to a browser
  Upload,      \* transfers of files from one
  OwnerOf,     \* the session of each transfer
  PerSession,  \* slots of a session
  HubWide      \* slots of the hub

VARIABLE holding  \* the transfers that hold a slot

Transfer == Download \cup Upload
Of(s) == {t \in holding : OwnerOf[t] = s}

DownloadSlots == IF PerSession > 1 THEN PerSession - 1 ELSE PerSession

Init == holding = {}

Take(t) ==
  /\ t \notin holding
  /\ Cardinality(holding) < HubWide
  /\ Cardinality(Of(OwnerOf[t])) < PerSession
  /\ t \in Download => Cardinality(Of(OwnerOf[t]) \cap Download) < DownloadSlots
  /\ holding' = holding \cup {t}

Give(t) ==
  /\ t \in holding
  /\ holding' = holding \ {t}

Next == \E t \in Transfer : Take(t) \/ Give(t)

Spec == Init /\ [][Next]_holding

FairSpec == Spec /\ \A t \in Transfer : WF_holding(Give(t))
=============================================================================
