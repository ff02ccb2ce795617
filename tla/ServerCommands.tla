--------------------------- MODULE ServerCommands ---------------------------
(***************************************************************************)
(* The commands one TeamSpeak connection runs for its page, its file       *)
(* routes and itself (gateway/TsSession.ts: runCommand, initFileTransfer;  *)
(* files/ft-waiters.ts).                                                   *)
(*                                                                         *)
(* A command waits for its slot in the hub-wide budget, then for its turn  *)
(* in the connection's queue, then for the server.  A list arrives as      *)
(* notifications that do not say which command they answer: they go to the *)
(* collector of the command that runs.  A transfer init is answered twice, *)
(* by its own error line and by a notification that names its id; a waiter *)
(* registered beforehand takes the second, before or after the first.      *)
(* Meanwhile commands time out, the handshake fails and is tried again     *)
(* with a new client, and the connection ends.                             *)
(*                                                                         *)
(* External: the server, which works through a client's commands in order  *)
(* (rows, then the error line) and may stop answering, and the driver,     *)
(* which settles a command with its error line or after a timeout; the     *)
(* hub's code behind the await goes on later, and the driver may hand over *)
(* more lines before it does (a datagram that fills a gap lets several     *)
(* packets through at once).                                               *)
(***************************************************************************)
EXTENDS Sequences, FiniteSets

CONSTANTS
  Cmd,       \* commands, each asked for once
  Transfer,  \* those that are transfer inits
  Notify,    \* names of notifications
  Collect,   \* PreparedCommand.collect: what each command's rows arrive as
  Pushed,    \* the notifications the server also sends unasked
  Outside,   \* an error line that no queued command caused
  None       \* null

ASSUME CommandAssumption ==
  /\ Transfer \subseteq Cmd
  /\ Collect \in [Cmd -> Notify \cup {None}]
  /\ \A c \in Transfer : Collect[c] = None
ASSUME NameAssumption ==
  /\ Pushed \subseteq Notify
  /\ Cmd \cap (Notify \cup {Outside, None}) = {}
  /\ None \notin Notify \cup {Outside}

VARIABLES
  client,      \* TsSession.client: is there one?
  closed,      \* TsSession.closed
  stage,       \* where each command stands
  queue,       \* TsSession.cmdQueue: the commands that wait for their turn
  running,     \* the commands whose execCommandWithResponse is awaited
  collector,   \* TsSession.collector: the command that collects rows
  rows,        \* what each command has collected: rows of commands, pushed rows
  reply,       \* the error line that settled each running command's promise
  lastFailed,  \* TsSession.lastFailedPermId: the command it is about
  outcome,     \* what each caller heard
  blamed,      \* the command whose failed permission an answer names
  overtaken,   \* history: failures not read yet when an outside error line came
  waiter,      \* FtWaiters: what became of each init's waiter
  pending,     \* the commands the server has before it
  listed,      \* the list commands whose rows the server has sent
  accepted     \* the transfers the server has yet to announce

connVars == <<client, closed>>
callVars == <<stage, queue, running, outcome>>
blameVars == <<lastFailed, blamed, overtaken>>
tapVars == <<collector, rows, reply, blameVars>>
serverVars == <<pending, listed, accepted>>
vars == <<client, closed, stage, queue, running, collector, rows, reply, lastFailed,
          outcome, blamed, overtaken, waiter, pending, listed, accepted>>

Stages == {"idle", "slot", "queued", "running", "waiting", "settled"}
Replies == {"none", "ok", "error"}
Outcomes == {"none", "ok", "failed", "timeout"}
Waiters == {"none", "waiting", "key", "refused", "cancelled"}

TypeOK ==
  /\ client \in BOOLEAN /\ closed \in BOOLEAN
  /\ stage \in [Cmd -> Stages]
  /\ queue \in Seq(Cmd)
  /\ \A i \in DOMAIN queue : stage[queue[i]] = "queued"
  /\ \A i, j \in DOMAIN queue : i # j => queue[i] # queue[j]
  /\ running \subseteq Cmd
  /\ collector \in Cmd \cup {None}
  /\ rows \in [Cmd -> SUBSET (Cmd \cup Notify)]
  /\ reply \in [Cmd -> Replies]
  /\ lastFailed \in Cmd \cup {Outside, None}
  /\ outcome \in [Cmd -> Outcomes]
  /\ blamed \in [Cmd -> Cmd \cup {Outside, None}]
  /\ overtaken \subseteq Cmd
  /\ waiter \in [Cmd -> Waiters]
  /\ pending \in Seq(Cmd)
  /\ listed \subseteq Cmd
  /\ accepted \subseteq Transfer

Init ==
  /\ client = TRUE /\ closed = FALSE
  /\ stage = [c \in Cmd |-> "idle"]
  /\ queue = <<>>
  /\ running = {}
  /\ collector = None
  /\ rows = [c \in Cmd |-> {}]
  /\ reply = [c \in Cmd |-> "none"]
  /\ lastFailed = None
  /\ outcome = [c \in Cmd |-> "none"]
  /\ blamed = [c \in Cmd |-> None]
  /\ overtaken = {}
  /\ waiter = [c \in Cmd |-> "none"]
  /\ pending = <<>>
  /\ listed = {}
  /\ accepted = {}

-----------------------------------------------------------------------------
(* FtWaiters.                                                              *)

Waiting == {c \in Cmd : waiter[c] = "waiting"}

\* cancel, for each of C: a waiter that has its answer keeps it.
Cancel(C) ==
  waiter' = [c \in Cmd |-> IF c \in C \cap Waiting THEN "cancelled" ELSE waiter[c]]

\* A settled waiter answers a caller whose command is done; one whose command
\* is still under way hears of it afterwards.
Answered(c, w) ==
  /\ waiter' = [waiter EXCEPT ![c] = w]
  /\ IF stage[c] = "waiting"
     THEN /\ stage' = [stage EXCEPT ![c] = "settled"]
          /\ outcome' = [outcome EXCEPT ![c] = IF w = "key" THEN "ok" ELSE "failed"]
     ELSE UNCHANGED <<stage, outcome>>

\* The tap is on, and the server hears what is sent.
Live == client /\ ~closed

-----------------------------------------------------------------------------
(* runCommand and its callers.                                             *)

\* The promise is rejected: the caller hears so, a transfer's waiter goes.
Fails(c, why) ==
  /\ stage' = [stage EXCEPT ![c] = "settled"]
  /\ outcome' = [outcome EXCEPT ![c] = why]
  /\ Cancel({c})

\* A ts.cmd, a transfer init or a command of the session's own.  The session may
\* be over: an upload keeps it while it reads an icon.
Ask(c) ==
  /\ stage[c] = "idle"
  /\ stage' = [stage EXCEPT ![c] = "slot"]
  /\ waiter' = IF c \in Transfer THEN [waiter EXCEPT ![c] = "waiting"] ELSE waiter
  /\ UNCHANGED <<connVars, queue, running, outcome, tapVars, serverVars>>

\* The hub-wide budget has no slot soon enough.
Busy(c) ==
  /\ stage[c] = "slot"
  /\ Fails(c, "failed")
  /\ UNCHANGED <<connVars, queue, running, tapVars, serverVars>>

Queue(c) ==
  /\ stage[c] = "slot"
  /\ stage' = [stage EXCEPT ![c] = "queued"]
  /\ queue' = Append(queue, c)
  /\ UNCHANGED <<connVars, running, outcome, waiter, tapVars, serverVars>>

\* (Mutant: a command does not wait for the one before it.)
TurnAtOnce(c) == queue # <<>> /\ c = Head(queue)

\* Every earlier command of the queue has settled.
Turn(c) ==
  /\ queue # <<>>
  /\ c = Head(queue)
  /\ running = {}

\* At its turn the hub is backing off after a flood warning, or there is no
\* client (its handshake failed).
Refused(c) ==
  /\ Turn(c)
  /\ queue' = Tail(queue)
  /\ Fails(c, "failed")
  /\ UNCHANGED <<connVars, running, tapVars, serverVars>>

\* A finished session keeps its dead client: the command goes nowhere.
Send(c) ==
  /\ Turn(c)
  /\ client
  /\ queue' = Tail(queue)
  /\ stage' = [stage EXCEPT ![c] = "running"]
  /\ running' = running \cup {c}
  /\ collector' = IF Collect[c] # None THEN c ELSE None
  /\ lastFailed' = None
  /\ pending' = IF Live THEN Append(pending, c) ELSE pending
  /\ UNCHANGED <<connVars, rows, reply, outcome, blamed, overtaken, waiter, listed,
                 accepted>>

\* The command is sent, and the driver has not settled its promise.
Awaited(c) == c \in running /\ reply[c] = "none"

\* finally: the command no longer runs, nor collects.
Leaves(c) ==
  /\ running' = running \ {c}
  /\ collector' = IF collector = c THEN None ELSE collector

\* The driver gives up, as no answer came in time or the socket failed, and the code
\* behind the await goes on before a line can come.
TimesOut(c) ==
  /\ Awaited(c)
  /\ Leaves(c)
  /\ Fails(c, "timeout")
  /\ UNCHANGED <<connVars, queue, rows, reply, blameVars, serverVars>>

\* execCommandWithResponse returned: a transfer goes on to wait for its notification.
ReturnsOk(c) ==
  /\ reply[c] = "ok"
  /\ IF c \in Waiting
     THEN /\ stage' = [stage EXCEPT ![c] = "waiting"]
          /\ UNCHANGED outcome
     ELSE /\ stage' = [stage EXCEPT ![c] = "settled"]
          /\ outcome' = [outcome EXCEPT ![c] =
               IF c \in Transfer /\ waiter[c] # "key" THEN "failed" ELSE "ok"]
  /\ UNCHANGED <<waiter, blamed>>

\* It threw: the failure names the permission last said to be missing.
Throws(c) ==
  /\ reply[c] = "error"
  /\ Fails(c, "failed")
  /\ blamed' = [blamed EXCEPT ![c] = lastFailed]

\* The code behind the await goes on, after an error line.
Resumes(c) ==
  /\ c \in running
  /\ ReturnsOk(c) \/ Throws(c)
  /\ Leaves(c)
  /\ reply' = [reply EXCEPT ![c] = "none"]
  /\ UNCHANGED <<connVars, queue, rows, lastFailed, overtaken, serverVars>>

\* (Mutant: the timer stops once the command is answered.)
WaiterTimerUntilAnswer(c) ==
  /\ c \in Waiting
  /\ stage[c] # "waiting"
  /\ Answered(c, "cancelled")
  /\ UNCHANGED <<connVars, queue, running, tapVars, serverVars>>

\* The init's notification did not come.
WaiterTimer(c) ==
  /\ c \in Waiting
  /\ Answered(c, "cancelled")
  /\ UNCHANGED <<connVars, queue, running, tapVars, serverVars>>

-----------------------------------------------------------------------------
(* onRaw: what the server sends on the live client.                        *)

\* (Mutant: the name of the notification is not compared.)
TapAll(n, x) ==
  rows' = IF collector # None THEN [rows EXCEPT ![collector] = @ \cup {x}] ELSE rows

\* A row goes to the command that collects its notification.
Tap(n, x) ==
  rows' = IF collector # None /\ Collect[collector] = n
          THEN [rows EXCEPT ![collector] = @ \cup {x}] ELSE rows

\* The server's next command.
Serves(c) == Live /\ pending # <<>> /\ c = Head(pending)

Row(c) ==
  /\ Serves(c)
  /\ Collect[c] # None
  /\ Tap(Collect[c], c)
  /\ listed' = listed \cup {c}
  /\ UNCHANGED <<connVars, callVars, collector, reply, blameVars, waiter, pending, accepted>>

PushedRow(n) ==
  /\ Live
  /\ Tap(n, n)
  /\ UNCHANGED <<connVars, callVars, collector, reply, blameVars, waiter, serverVars>>

\* A transfer is refused before its command's error line.
Refusal(c) ==
  /\ Serves(c)
  /\ c \in Transfer \ listed
  /\ listed' = listed \cup {c}
  /\ IF c \in Waiting THEN Answered(c, "refused") ELSE UNCHANGED <<stage, outcome, waiter>>
  /\ UNCHANGED <<connVars, queue, running, tapVars, pending, accepted>>

\* An error line settles the promise of its command, if that is still awaited.
Settles(c, how) ==
  reply' = IF Awaited(c) THEN [reply EXCEPT ![c] = how] ELSE reply

\* error id=0: the rows of a list are in; a transfer is announced later.
Succeeds(c) ==
  /\ Serves(c)
  /\ Collect[c] # None => c \in listed
  /\ pending' = Tail(pending)
  /\ accepted' = IF c \in Transfer \ listed THEN accepted \cup {c} ELSE accepted
  /\ Settles(c, "ok")
  /\ UNCHANGED <<connVars, callVars, collector, rows, blameVars, waiter, listed>>

\* (Mutant: a line that names no permission keeps the last one.)
NamesKept(x, named) == lastFailed' = IF named THEN x ELSE lastFailed

\* The permission an error line names, or none.
Names(x, named) == lastFailed' = IF named THEN x ELSE None

\* Any other error line, which may name the permission that was missing.
Denied(c, named) ==
  /\ Serves(c)
  /\ pending' = Tail(pending)
  /\ Names(c, named)
  /\ Settles(c, "error")
  /\ UNCHANGED <<connVars, callVars, collector, rows, blamed, overtaken, waiter, listed,
                 accepted>>

\* The error line of a command that did not go through the queue (a move, a mute).
OtherDenied(named) ==
  /\ Live
  /\ Names(Outside, named)
  /\ overtaken' = overtaken \cup {c \in running : reply[c] = "error"}
  /\ UNCHANGED <<connVars, callVars, collector, rows, reply, blamed, waiter, serverVars>>

\* The notification of a transfer the server took: its key, or that it cannot.
Announced(c, w) ==
  /\ Live
  /\ c \in accepted
  /\ accepted' = accepted \ {c}
  /\ IF c \in Waiting THEN Answered(c, w) ELSE UNCHANGED <<stage, outcome, waiter>>
  /\ UNCHANGED <<connVars, queue, running, tapVars, pending, listed>>

-----------------------------------------------------------------------------
(* The connection.                                                         *)

\* (Mutant: an attempt that fails leaves the waiters.)
DropsNone ==
  /\ pending' = <<>>
  /\ accepted' = {}
  /\ UNCHANGED <<stage, outcome, waiter, queue, running, tapVars, listed>>

\* Every waiter fails, and with it the callers that only wait for theirs; the
\* tap goes, and nothing the server still sends arrives.
DropsAll ==
  /\ Cancel(Cmd)
  /\ stage' = [c \in Cmd |->
       IF c \in Waiting /\ stage[c] = "waiting" THEN "settled" ELSE stage[c]]
  /\ outcome' = [c \in Cmd |->
       IF c \in Waiting /\ stage[c] = "waiting" THEN "failed" ELSE outcome[c]]
  /\ pending' = <<>>
  /\ accepted' = {}
  /\ UNCHANGED <<queue, running, tapVars, listed>>

\* The handshake failed: the client is dropped, the session may try again.
TeardownClient ==
  /\ client
  /\ client' = FALSE
  /\ DropsAll
  /\ UNCHANGED closed

\* The next attempt's client.
Redial ==
  /\ ~client /\ ~closed
  /\ client' = TRUE
  /\ UNCHANGED <<closed, callVars, tapVars, waiter, serverVars>>

\* The session is over; its client object, if any, stays.
Finish ==
  /\ ~closed
  /\ closed' = TRUE
  /\ DropsAll
  /\ UNCHANGED client

-----------------------------------------------------------------------------
CallStep(c) == \/ Ask(c) \/ Busy(c) \/ Queue(c) \/ Refused(c) \/ Send(c)
               \/ TimesOut(c) \/ Resumes(c) \/ WaiterTimer(c)
ServerStep(c) == \/ Row(c) \/ Refusal(c) \/ Succeeds(c)
                 \/ \E named \in BOOLEAN : Denied(c, named)
                 \/ \E w \in {"key", "refused"} : Announced(c, w)

Next ==
  \/ \E c \in Cmd : CallStep(c) \/ ServerStep(c)
  \/ \E n \in Pushed : PushedRow(n)
  \/ \E named \in BOOLEAN : OtherDenied(named)
  \/ TeardownClient \/ Redial \/ Finish

Spec == Init /\ [][Next]_vars

\* The hub's own promises and timers settle; nothing is asked of the server.
CommandsFair ==
  /\ WF_vars(\E c \in Cmd : Refused(c) \/ Send(c))
  /\ \A c \in Cmd : /\ WF_vars(Busy(c) \/ Queue(c))
                    /\ WF_vars(TimesOut(c))
                    /\ WF_vars(Resumes(c))
                    /\ WF_vars(WaiterTimer(c))
FairSpec == Spec /\ CommandsFair

-----------------------------------------------------------------------------
(* Properties.                                                             *)

\* A list that is answered has all its rows: no other command has taken its
\* collector, no failed attempt lost what came before (runCommand).
RowsWhole ==
  \A c \in Cmd : outcome[c] = "ok" /\ Collect[c] # None => c \in rows[c]

\* The rows an answered command returns are rows of its own answer, as the one
\* command at a time of cmdQueue is there to ensure.
RowsOwn ==
  \A c \in Cmd : outcome[c] = "ok" => rows[c] \subseteq {c}

\* Other rows get into a collector in two ways only: the server pushed that
\* notification unasked, or an earlier command of its name had timed out.
RowsExplained ==
  \A c \in Cmd : \A x \in rows[c] \ {c} :
    \/ x \in Pushed /\ x = Collect[c]
    \/ x \in Cmd /\ Collect[x] = Collect[c] /\ outcome[x] = "timeout"

\* A failure names the permission its own command lacked, or none, never that of an
\* earlier, a later or a timed-out command of the queue, nor of a move or mute refused
\* before it: only one refused between its own error line and the read of
\* lastFailedPermId can take its place.
BlameExplained ==
  \A c \in Cmd : \/ blamed[c] \in {c, None}
                 \/ blamed[c] = Outside /\ c \in overtaken

\* Whichever way a transfer's caller is answered, its waiter is gone with its
\* timer, and its id is free for a later init.
NoWaiterLeft ==
  \A c \in Cmd : stage[c] = "settled" => waiter[c] # "waiting"

\* A caller whose command was answered waits only while a notification can
\* still come: the end of the client or of the session releases it at once.
NobodyWaitsInVain == \A c \in Cmd : stage[c] = "waiting" => Live

\* Every caller is answered, though the server may answer nothing and the
\* connection may fail at any step.
EveryCallSettles ==
  \A c \in Cmd : stage[c] = "slot" ~> stage[c] = "settled"
=============================================================================
