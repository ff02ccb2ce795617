------------------------------ MODULE MCGateway ------------------------------
(* The parts of a TeamSpeak connection in the hub, with its bot, for TLC.    *)
(* They share no state, so each is checked on its own: the first state       *)
(* chooses the one that works, and the others stay as they start.            *)
EXTENDS ServerCommands, OwnPerms, PacedRequests, ServerGuard, ChannelOrder, ClientView,
        AssetCache, BotBridge

CONSTANTS list1, list2, init1, servergroups, channelgroups

\* Two lists of the server's groups and a transfer init.
Collects == [c \in Cmd |-> IF c \in {list1, list2} THEN servergroups ELSE None]

VARIABLE part

\* What does not work starts at one initial state of its own.
AtRest ==
  /\ part # "perms" => ~listLost
  /\ part # "paced" => ~batch
  /\ part # "channels" => tree[Root] = <<>>
  /\ part # "clients" => /\ \A m \in Mate : where[m] = Unseen
                         /\ mine = CHOOSE c \in Chan : TRUE
  /\ part # "assets" => stored = {}

GatewayInit ==
  /\ part \in {"commands", "perms", "paced", "guard", "channels", "clients", "assets", "bot"}
  /\ Init /\ PermInit /\ PacedInit /\ GuardInit /\ TreeInit /\ ViewInit
  /\ AssetInit /\ BridgeInit
  /\ AtRest

\* Bound: of the two lists, which are alike, list2 is asked for once list1 is queued.
Commands == part = "commands" /\ Next
  /\ (stage'[list2] = "idle" \/ stage[list1] \notin {"idle", "slot"})
  /\ UNCHANGED <<part, permVars, pacedVars, guardVars, treeVars, viewVars, assetVars, bridgeVars>>
Perms == part = "perms" /\ PermNext
  /\ UNCHANGED <<part, vars, pacedVars, guardVars, treeVars, viewVars, assetVars, bridgeVars>>
PacedOnes == part = "paced" /\ PacedNext
  /\ UNCHANGED <<part, vars, permVars, guardVars, treeVars, viewVars, assetVars, bridgeVars>>
Guard == part = "guard" /\ GuardNext
  /\ UNCHANGED <<part, vars, permVars, pacedVars, treeVars, viewVars, assetVars, bridgeVars>>
Channels == part = "channels" /\ TreeNext
  /\ UNCHANGED <<part, vars, permVars, pacedVars, guardVars, viewVars, assetVars, bridgeVars>>
Clients == part = "clients" /\ ViewNext
  /\ UNCHANGED <<part, vars, permVars, pacedVars, guardVars, treeVars, assetVars, bridgeVars>>
Assets == part = "assets" /\ AssetNext
  /\ UNCHANGED <<part, vars, permVars, pacedVars, guardVars, treeVars, viewVars, bridgeVars>>
Bot == part = "bot" /\ BridgeNext
  /\ UNCHANGED <<part, vars, permVars, pacedVars, guardVars, treeVars, viewVars, assetVars>>

GatewayNext ==
  Commands \/ Perms \/ PacedOnes \/ Guard \/ Channels \/ Clients \/ Assets \/ Bot

\* The commands' fairness asks nothing of the other parts: none is asked for in them.
GatewaySpec ==
  /\ GatewayInit
  /\ [][GatewayNext]_<<part, vars, permVars, pacedVars, guardVars, treeVars, viewVars,
                       assetVars, bridgeVars>>
  /\ CommandsFair
=============================================================================
