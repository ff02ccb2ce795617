----------------------------- MODULE BotBridge -----------------------------
(***************************************************************************)
(* The hub's line to a music bot (musicbot/BotBridge.ts): a session cookie *)
(* for its requests, and one websocket that is dialled again whenever it   *)
(* is lost, until the last session lets go of the bridge (BridgePool).     *)
(*                                                                         *)
(* start and each retry log in, read the bots and dial, with awaits in     *)
(* which the bridge may be stopped and other requests may log in.  A bot   *)
(* tolerates few websocket clients, and nobody can stop a bridge twice.    *)
(*                                                                         *)
(* The bots, queues and radios it reports are left out.                    *)
(***************************************************************************)

VARIABLES
  stopped,    \* BotBridge.stopped
  task,       \* "start" or "retry" under way, "none"
  dialling,   \* websockets the bot has or is asked for: "none", "asked", "open", "closing"
  owned,      \* BotBridge.ws
  retryTimer, \* BotBridge.reconnectTimer
  cookie,     \* there is one
  available   \* BotBridge.available

bridgeVars == <<stopped, task, dialling, owned, retryTimer, cookie, available>>

\* BridgePool.acquire has just called start.
BridgeInit ==
  /\ stopped = FALSE /\ task = "start"
  /\ dialling = "none" /\ owned = FALSE
  /\ retryTimer = FALSE /\ cookie = FALSE /\ available = FALSE

-----------------------------------------------------------------------------
\* (Mutant: a bridge stopped while it logged in dials all the same.)
ConnectWsAnyway ==
  /\ owned' = TRUE /\ dialling' = "asked"

\* connectWs
ConnectWs ==
  IF stopped THEN UNCHANGED <<owned, dialling>>
  ELSE owned' = TRUE /\ dialling' = "asked"

\* login, in a task or for a request of a session; it may fail.
Login ==
  /\ ~cookie
  /\ cookie' = TRUE
  /\ UNCHANGED <<stopped, task, dialling, owned, retryTimer, available>>

\* start, after login and refreshAll, or after one of them threw.
Started(well) ==
  /\ task = "start"
  /\ well => cookie
  /\ task' = "none"
  /\ available' = (available \/ well)
  /\ ConnectWs
  /\ UNCHANGED <<stopped, retryTimer, cookie>>

\* scheduleReconnect
ScheduleReconnect == retryTimer' = (retryTimer \/ ~stopped)

\* Its timer: a retry logs in if it has to.
Retry ==
  /\ retryTimer
  /\ retryTimer' = FALSE
  /\ task' = "retry"
  /\ UNCHANGED <<stopped, dialling, owned, cookie, available>>

Retried ==
  /\ task = "retry"
  /\ task' = "none"
  /\ ConnectWs
  /\ UNCHANGED <<stopped, retryTimer, cookie, available>>

\* ws "open"
Opened ==
  /\ dialling = "asked"
  /\ dialling' = "open"
  /\ available' = cookie
  /\ UNCHANGED <<stopped, task, owned, retryTimer, cookie>>

\* ws "unexpected-response": the cookie may be to blame; terminate.
Rejected(unknown) ==
  /\ dialling = "asked"
  /\ dialling' = "closing"
  /\ cookie' = (cookie /\ ~unknown)
  /\ UNCHANGED <<stopped, task, owned, retryTimer, available>>

\* ws "close", after an error, a rejection, the bot's end of it or stop.
WsClosed ==
  /\ dialling # "none"
  /\ dialling' = "none"
  /\ owned' = FALSE
  /\ available' = FALSE
  /\ ScheduleReconnect
  /\ UNCHANGED <<stopped, task, cookie>>

\* stop: the last session released the bridge, or the hub shuts down.
StopBridge ==
  /\ ~stopped
  /\ stopped' = TRUE
  /\ available' = FALSE
  /\ retryTimer' = FALSE
  /\ dialling' = IF owned THEN "closing" ELSE dialling
  /\ owned' = FALSE
  /\ UNCHANGED <<task, cookie>>

BridgeNext ==
  \/ Login \/ Retry \/ Retried \/ Opened \/ WsClosed \/ StopBridge
  \/ \E b \in BOOLEAN : Started(b) \/ Rejected(b)

BridgeSpec == BridgeInit /\ [][BridgeNext]_bridgeVars

-----------------------------------------------------------------------------
(* Properties.                                                             *)

Lines == {x \in {"task", "socket", "timer"} :
            \/ x = "task" /\ task # "none"
            \/ x = "socket" /\ dialling # "none"
            \/ x = "timer" /\ retryTimer}

\* A bridge in use has one way back to its bot, never none (it would stay away for
\* good) and never two (each loss would double them), and says it works only with a
\* cookie, but for a socket just rejected; one that was stopped keeps no websocket
\* but the one that closes, and dials no other.
OneWayBack ==
  /\ ~stopped => \E x \in Lines : Lines = {x}
  /\ available /\ ~stopped => cookie \/ dialling = "closing"
  /\ stopped => ~retryTimer /\ dialling \in {"none", "closing"} /\ ~owned
=============================================================================
