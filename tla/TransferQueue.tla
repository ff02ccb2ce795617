--------------------------- MODULE TransferQueue ---------------------------
(***************************************************************************)
(* The page's line of file transfers (files/transfer-queue.ts) and the     *)
(* store that works through it (stores/transfers.ts).                      *)
(*                                                                         *)
(* At most Parallel run at once, internal ones (avatars, icons) beside     *)
(* them and ahead of the line.  A busy hub sends a transfer back in line   *)
(* with a timer of its own; everything else that ends one lets the next    *)
(* start (pump).  A cancelled transfer's answer still comes, to nobody.    *)
(*                                                                         *)
(* Left out: bytes and progress, channel passwords, and the finished       *)
(* transfers the list forgets.                                             *)
(***************************************************************************)
EXTENDS Naturals, FiniteSets

CONSTANTS
  MaxSeq,         \* bound: transfers asked for
  InternalIds,    \* the internal ones
  Parallel        \* the lesser of MAX_PARALLEL and the hub's limit

ASSUME QueueAssumption == MaxSeq \in Nat /\ Parallel \in Nat \ {0}

Ids == 1..MaxSeq

VARIABLES
  seq,         \* ids given out, in the order of the line
  transfer,    \* Transfer.state
  deferred,    \* queued ones whose waitUntil is still to come
  retryTimers, \* the timers set for deferred ones
  performing   \* the runs that await their bytes or a link

queueVars == <<seq, transfer, deferred, retryTimers, performing>>

QueueInit ==
  /\ seq = 0
  /\ transfer = [t \in Ids |-> "none"]
  /\ deferred = {} /\ retryTimers = {} /\ performing = {}

-----------------------------------------------------------------------------
\* nextToStart: every internal one that is ready, then the others in line.
NextToStart(st, wait) ==
  LET ready == {t \in Ids : st[t] = "queued" /\ t \notin wait}
      others == ready \ InternalIds
      running == {t \in Ids \ InternalIds : st[t] = "running"}
  IN {t \in ready : t \in others =>
        Cardinality({u \in others : u < t}) + Cardinality(running) < Parallel}

\* pump, over the line as it is then; over holds the runs that have ended.
Pump(st, wait, over) ==
  LET next == NextToStart(st, wait)
  IN /\ transfer' = [t \in Ids |-> IF t \in next THEN "running" ELSE st[t]]
     /\ performing' = (performing \ over) \cup next
     /\ deferred' = wait

\* add: a check may fail it, a signal have cancelled it, before it is in line.
AddTransfer ==
  /\ seq < MaxSeq
  /\ seq' = seq + 1
  /\ \/ /\ transfer' = [transfer EXCEPT ![seq'] = "failed"]
        /\ UNCHANGED <<deferred, performing>>
     \/ \E st \in {"queued", "cancelled"} :
          Pump([transfer EXCEPT ![seq'] = st], deferred, {})
  /\ UNCHANGED retryTimers

\* cancel: its run, if there is one, is aborted and ends later.
CancelTransfer(t) ==
  /\ transfer[t] \in {"queued", "running"}
  /\ Pump([transfer EXCEPT ![t] = "cancelled"], deferred \ {t}, {})
  /\ UNCHANGED <<seq, retryTimers>>

\* onSessionGone: all of them fail, none is started.
SessionGone ==
  /\ transfer' = [t \in Ids |-> IF transfer[t] \in {"queued", "running"} THEN "failed"
                                ELSE transfer[t]]
  /\ deferred' = {}
  /\ UNCHANGED <<seq, retryTimers, performing>>

\* run, from the answer on: one that came too late changes nothing.
Performed(t, outcome) ==
  /\ t \in performing
  /\ Pump(IF transfer[t] = "running" THEN [transfer EXCEPT ![t] = outcome] ELSE transfer,
          deferred, {t})
  /\ UNCHANGED <<seq, retryTimers>>

\* The hub is busy: back in line, with a timer.
HubBusy(t) ==
  /\ t \in performing /\ transfer[t] = "running"
  /\ Pump([transfer EXCEPT ![t] = "queued"], deferred \cup {t}, {t})
  /\ retryTimers' = retryTimers \cup {t}
  /\ UNCHANGED seq

\* waitUntil comes: a pump may now find it before its timer does.
Ripens(t) ==
  /\ t \in deferred
  /\ deferred' = deferred \ {t}
  /\ UNCHANGED <<seq, transfer, retryTimers, performing>>

\* (Mutant: the timer runs out a moment before waitUntil, and finds nothing to start.)
RetryTimerEarly(t) ==
  /\ t \in retryTimers
  /\ Pump(transfer, deferred, {})
  /\ retryTimers' = retryTimers \ {t}
  /\ UNCHANGED seq

\* setTimeout(pump, delay), not before the time it was set for.
RetryTimer(t) ==
  /\ t \in retryTimers /\ t \notin deferred
  /\ Pump(transfer, deferred, {})
  /\ retryTimers' = retryTimers \ {t}
  /\ UNCHANGED seq

QueueNext ==
  \/ AddTransfer \/ SessionGone
  \/ \E t \in Ids :
       \/ CancelTransfer(t) \/ HubBusy(t) \/ Ripens(t) \/ RetryTimer(t)
       \/ \E outcome \in {"done", "failed"} : Performed(t, outcome)

QueueSpec == QueueInit /\ [][QueueNext]_queueVars

-----------------------------------------------------------------------------
(* Properties.                                                             *)

Others == {t \in Ids \ InternalIds : transfer[t] = "running"}

\* No more than Parallel run at once, and none in line is left there by everyone:
\* a deferred one has its timer, one past its time has it or waits for a slot that
\* a running one holds.  So waitFor answers, if timers run out and the hub, which
\* gives its slots back (GivesBack of FileTransfers), is not busy for ever.
LineMovesOn ==
  /\ Cardinality(Others) <= Parallel
  /\ \A t \in Ids : transfer[t] = "queued" /\ t \notin retryTimers =>
       /\ t \notin deferred \cup InternalIds
       /\ Cardinality(Others) = Parallel /\ Others \subseteq performing
=============================================================================
