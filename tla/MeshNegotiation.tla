-------------------------- MODULE MeshNegotiation --------------------------
(***************************************************************************)
(* How two pages of a video room agree on what they send (rtc/mesh.ts).    *)
(*                                                                         *)
(* Either adds and drops tracks at any time, and the browser then asks for *)
(* a negotiation: an offer goes out once setLocalDescription is done.  An  *)
(* offer that meets one of our own is ignored by one side and rolls back   *)
(* the other's.  Signals pass through the hub in order and are applied one *)
(* at a time; each description is an asynchronous operation of the peer    *)
(* connection, and so a negotiation may begin between any two.             *)
(*                                                                         *)
(* External: RTCPeerConnection, with its chain of operations, its          *)
(* signaling states and the rule when negotiationneeded fires.             *)
(***************************************************************************)
EXTENDS Naturals, Sequences

CONSTANT MaxTracks  \* bound: how often each page changes what it sends

ASSUME MeshAssumption == MaxTracks \in Nat

\* The two pages, by their client ids; the higher is polite.
Peer == {1, 2}
Other(i) == 3 - i
Polite(i) == i > Other(i)

VARIABLES
  sends,        \* a version of what each page sends
  proposed,     \* the version in its last local offer
  agreed,       \* the version its last completed offer had
  applied,      \* the other's version, as far as each page has it
  signaling,    \* RTCPeerConnection.signalingState
  makingOffer,  \* Peer.makingOffer
  chain,        \* operations of the peer connection not done yet
  handling,     \* Peer.queue: is a signal being applied?
  signals       \* the signals to each page it has not applied

meshVars == <<sends, proposed, agreed, applied, signaling, makingOffer, chain, handling,
              signals>>

MeshInit ==
  /\ sends = [i \in Peer |-> 0] /\ proposed = [i \in Peer |-> 0]
  /\ agreed = [i \in Peer |-> 0] /\ applied = [i \in Peer |-> 0]
  /\ signaling = [i \in Peer |-> "stable"]
  /\ makingOffer = [i \in Peer |-> FALSE]
  /\ chain = [i \in Peer |-> <<>>]
  /\ handling = [i \in Peer |-> FALSE]
  /\ signals = [i \in Peer |-> <<>>]

Offer(v) == [type |-> "offer", of |-> v]
Answer == [type |-> "answer", of |-> 0]
Local == [type |-> "local", of |-> 0]

SendsTo(i, m) == signals' = [signals EXCEPT ![i] = Append(@, m)]
DoesNext(i, op) == chain' = [chain EXCEPT ![i] = Append(@, op)]

-----------------------------------------------------------------------------
\* attachStream, detachStream: a transceiver is added or stopped.
ChangesTracks(i) ==
  /\ sends[i] < MaxTracks
  /\ sends' = [sends EXCEPT ![i] = @ + 1]
  /\ UNCHANGED <<proposed, agreed, applied, signaling, makingOffer, chain, handling, signals>>

\* The browser fires negotiationneeded: negotiate, up to its await.
Negotiate(i) ==
  /\ signaling[i] = "stable" /\ chain[i] = <<>>
  /\ sends[i] # agreed[i]
  /\ makingOffer' = [makingOffer EXCEPT ![i] = TRUE]
  /\ DoesNext(i, Local)
  /\ UNCHANGED <<sends, proposed, agreed, applied, signaling, handling, signals>>

\* (Mutant: an offer is refused only while ours is being made.)
ReadyAlways(i) == ~makingOffer[i]

\* apply: is this side ready for an offer?
ReadyForOffer(i) == ~makingOffer[i] /\ signaling[i] = "stable"

\* apply, up to its first await.  settingRemoteAnswer is never seen set here: signals
\* are applied one at a time.
Apply(i) ==
  LET m == Head(signals[i])
      ignored == m.type = "offer" /\ ~ReadyForOffer(i) /\ ~Polite(i)
  IN
  /\ signals[i] # <<>> /\ ~handling[i]
  /\ signals' = [signals EXCEPT ![i] = Tail(@)]
  /\ handling' = [handling EXCEPT ![i] = ~ignored]
  /\ IF ignored THEN UNCHANGED chain ELSE DoesNext(i, m)
  /\ UNCHANGED <<sends, proposed, agreed, applied, signaling, makingOffer>>

\* The first operation of the chain is done.
Done(i, type) ==
  /\ chain[i] # <<>>
  /\ Head(chain[i]).type = type

\* setLocalDescription in a stable state, or again: negotiate sends its offer.
OfferMade(i) ==
  /\ Done(i, "local")
  /\ signaling[i] # "have-remote-offer"
  /\ chain' = [chain EXCEPT ![i] = Tail(@)]
  /\ signaling' = [signaling EXCEPT ![i] = "have-local-offer"]
  /\ proposed' = [proposed EXCEPT ![i] = sends[i]]
  /\ makingOffer' = [makingOffer EXCEPT ![i] = FALSE]
  /\ SendsTo(Other(i), Offer(sends[i]))
  /\ UNCHANGED <<sends, agreed, applied, handling>>

\* setRemoteDescription of an offer, over one of our own if there is; the answer is next.
OfferTaken(i) ==
  /\ Done(i, "offer")
  /\ chain' = [chain EXCEPT ![i] = Append(Tail(@), Local)]
  /\ signaling' = [signaling EXCEPT ![i] = "have-remote-offer"]
  /\ applied' = [applied EXCEPT ![i] = Head(chain[i]).of]
  /\ UNCHANGED <<sends, proposed, agreed, makingOffer, handling, signals>>

\* setLocalDescription then: the answer is sent.
AnswerMade(i) ==
  /\ Done(i, "local")
  /\ signaling[i] = "have-remote-offer"
  /\ chain' = [chain EXCEPT ![i] = Tail(@)]
  /\ signaling' = [signaling EXCEPT ![i] = "stable"]
  /\ handling' = [handling EXCEPT ![i] = FALSE]
  /\ SendsTo(Other(i), Answer)
  /\ UNCHANGED <<sends, proposed, agreed, applied, makingOffer>>

\* setRemoteDescription of an answer, which fails if we have no offer out.
AnswerTaken(i) ==
  /\ Done(i, "answer")
  /\ chain' = [chain EXCEPT ![i] = Tail(@)]
  /\ handling' = [handling EXCEPT ![i] = FALSE]
  /\ IF signaling[i] = "have-local-offer"
     THEN /\ signaling' = [signaling EXCEPT ![i] = "stable"]
          /\ agreed' = [agreed EXCEPT ![i] = proposed[i]]
     ELSE UNCHANGED <<signaling, agreed>>
  /\ UNCHANGED <<sends, proposed, applied, makingOffer, signals>>

MeshStep(i) ==
  \/ Negotiate(i) \/ Apply(i)
  \/ OfferMade(i) \/ OfferTaken(i) \/ AnswerMade(i) \/ AnswerTaken(i)

MeshNext == \E i \in Peer : ChangesTracks(i) \/ MeshStep(i)
MeshSpec == MeshInit /\ [][MeshNext]_meshVars

\* Browsers finish their operations and the hub relays signals.
MeshFair == \A i \in Peer : WF_meshVars(MeshStep(i))

-----------------------------------------------------------------------------
(* Properties.                                                             *)

InAgreement ==
  \A i \in Peer : signaling[i] = "stable" /\ agreed[i] = sends[i] /\ applied[Other(i)] = sends[i]

\* However their offers cross, two pages that stop changing what they send end up in
\* agreement: neither waits for an answer to an offer the other ignored, and each has
\* what the other sends.
MeshSettles == <>[]InAgreement
=============================================================================
