---------------------------- MODULE PacedRequests ----------------------------
(***************************************************************************)
(* Commands a connection sends on its own (gateway/paced-requests.ts)      *)
(* through the pace queue its server's connections share                   *)
(* (ServerGuard.paced): one at a time, none lost, none twice.              *)
(*                                                                         *)
(* A key that waits rides along when it is asked for again; with batch all *)
(* that waits goes out as one command.  clear() forgets what waits, but    *)
(* its runs stay in the queue and must find out that they are too late.    *)
(***************************************************************************)
EXTENDS Naturals, Sequences, FiniteSets

CONSTANTS
  Key,       \* channels to subscribe to, or whose description to fetch
  NoKey,     \* null
  MaxDepth,  \* PACE_QUEUE_MAX
  MaxRuns,   \* bound: runs scheduled
  MaxClears  \* bound: how often the session is cleared

ASSUME PacedAssumption ==
  /\ NoKey \notin Key /\ IsFiniteSet(Key)
  /\ MaxDepth \in Nat /\ MaxRuns \in Nat /\ MaxClears \in Nat

VARIABLES
  batch,       \* PacedRequestOptions.batch
  waiting,     \* PacedRequests.waiting: the run each key waits for, 0 for none
  batchRun,    \* PacedRequests.batchRun, 0 for null
  generation,  \* PacedRequests.generation
  runs,        \* runs scheduled
  paceQueue,   \* ServerGuard.paceQueue: commands queued or running
  paceBusy,    \* the head of the queue runs
  paceDepth,   \* ServerGuard.paceDepth
  flooded,     \* ServerGuard.flooded
  sending      \* the keys of the command under way

pacedVars == <<batch, waiting, batchRun, generation, runs, paceQueue, paceBusy,
               paceDepth, flooded, sending>>

\* A command of somebody else at the same server.
Other == [run |-> 0, gen |-> 0, key |-> NoKey]
Run(key) == [run |-> runs + 1, gen |-> generation, key |-> key]

PacedInit ==
  /\ batch \in BOOLEAN
  /\ waiting = [k \in Key |-> 0]
  /\ batchRun = 0 /\ generation = 0 /\ runs = 0
  /\ paceQueue = <<>> /\ paceBusy = FALSE /\ paceDepth = 0
  /\ flooded = FALSE
  /\ sending = {}

\* ServerGuard.paced
Paced(entry) ==
  /\ paceQueue' = Append(paceQueue, entry)
  /\ paceDepth' = paceDepth + 1

\* PacedRequests.request: a key that waits shares its run, a batch its batch's.
Request(k) ==
  /\ IF waiting[k] # 0
     THEN UNCHANGED <<waiting, batchRun, runs, paceQueue, paceDepth>>
     ELSE IF batch /\ batchRun # 0
     THEN /\ waiting' = [waiting EXCEPT ![k] = batchRun]
          /\ UNCHANGED <<batchRun, runs, paceQueue, paceDepth>>
     ELSE /\ runs < MaxRuns
          /\ runs' = runs + 1
          /\ waiting' = [waiting EXCEPT ![k] = runs + 1]
          /\ batchRun' = IF batch THEN runs + 1 ELSE batchRun
          /\ Paced(Run(IF batch THEN NoKey ELSE k))
  /\ UNCHANGED <<batch, generation, paceBusy, flooded, sending>>

\* Another command of the server's connections; an optional one is refused when
\* the queue is full.
OthersCommand(optional) ==
  /\ runs < MaxRuns
  /\ ~(optional /\ paceDepth >= MaxDepth)
  /\ runs' = runs + 1
  /\ Paced(Other)
  /\ UNCHANGED <<batch, waiting, batchRun, generation, paceBusy, flooded, sending>>

\* (Mutant: the runs before a clear are not told apart.)
ClearKeepingGeneration ==
  /\ generation < MaxClears
  /\ waiting' = [k \in Key |-> 0]
  /\ batchRun' = 0
  /\ UNCHANGED <<batch, generation, runs, paceQueue, paceBusy, paceDepth, flooded, sending>>

\* PacedRequests.clear
Clear ==
  /\ generation < MaxClears
  /\ generation' = generation + 1
  /\ waiting' = [k \in Key |-> 0]
  /\ batchRun' = 0
  /\ UNCHANGED <<batch, runs, paceQueue, paceBusy, paceDepth, flooded, sending>>

\* The keys the run at the head takes: those that wait for it, unless cleared.
Taken ==
  LET r == Head(paceQueue) IN
  IF r.run = 0 \/ r.gen # generation THEN {}
  ELSE IF r.key = NoKey THEN {k \in Key : waiting[k] # 0} ELSE {r.key}

\* Its turn: the run takes its keys and sends, unless the server is flooding.
PaceTurn ==
  LET r == Head(paceQueue) IN
  /\ paceQueue # <<>> /\ ~paceBusy
  /\ paceBusy' = TRUE
  /\ waiting' = [k \in Key |-> IF k \in Taken THEN 0 ELSE waiting[k]]
  /\ batchRun' = IF r.run # 0 /\ r.gen = generation /\ r.key = NoKey THEN 0 ELSE batchRun
  /\ sending' = IF flooded THEN {} ELSE Taken
  /\ UNCHANGED <<batch, generation, runs, paceQueue, paceDepth, flooded>>

\* The command under way is answered, fails or times out: the next may run.
Settle ==
  /\ paceBusy
  /\ paceBusy' = FALSE
  /\ paceQueue' = Tail(paceQueue)
  /\ paceDepth' = paceDepth - 1
  /\ sending' = {}
  /\ UNCHANGED <<batch, waiting, batchRun, generation, runs, flooded>>

\* noteFlood, and the end of its backoff.
Flood ==
  /\ flooded' = ~flooded
  /\ UNCHANGED <<batch, waiting, batchRun, generation, runs, paceQueue, paceBusy,
                 paceDepth, sending>>

PacedNext ==
  \/ \E k \in Key : Request(k)
  \/ \E optional \in BOOLEAN : OthersCommand(optional)
  \/ Clear \/ PaceTurn \/ Settle \/ Flood

PacedSpec == PacedInit /\ [][PacedNext]_pacedVars

-----------------------------------------------------------------------------
(* Properties.                                                             *)

\* The runs in the queue that have not begun and would still take key k.
RunsFor(k) ==
  {i \in 1..Len(paceQueue) :
     /\ i = 1 => ~paceBusy
     /\ paceQueue[i].run # 0 /\ paceQueue[i].gen = generation
     /\ paceQueue[i].key \in {k, NoKey}}

\* However requests, turns and clears interleave, a key that waits has exactly the
\* one run it waits for in the queue, and one that does not has none that would send
\* it; so a key asked for goes out once, and what was cleared never does.  With a
\* batch, a run has somebody to send for.
OneRunPerKey ==
  /\ \A k \in Key : waiting[k] # 0 =>
       \E i \in RunsFor(k) : RunsFor(k) = {i} /\ paceQueue[i].run = waiting[k]
  /\ ~batch => \A k \in Key : waiting[k] = 0 => RunsFor(k) = {}
  /\ batch /\ (\A k \in Key : waiting[k] = 0) => \A k \in Key : RunsFor(k) = {}
=============================================================================
