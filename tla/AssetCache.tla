----------------------------- MODULE AssetCache -----------------------------
(***************************************************************************)
(* Icons of a TeamSpeak server as the hub remembers them                   *)
(* (gateway/asset-cache.ts, TsSession.cachedAsset): a picture for hours, a *)
(* missing one for minutes, for every session on the server.  One download *)
(* runs per icon however many sessions ask, in the name of the first.      *)
(*                                                                         *)
(* An icon uploaded or deleted through the hub is forgotten once the       *)
(* server's answer is there; other clients change icons unheard.  A        *)
(* download waits in the pace queue before it asks the server, and what    *)
(* the server says is on its way while the icon may change.                *)
(***************************************************************************)
EXTENDS FiniteSets

CONSTANT Asset  \* files of channel 0

VARIABLES
  stored,   \* the files the server has
  cache,    \* asset-cache: "hit", "miss" or "none"
  asking,   \* the download of ServerGuard.inflight: "no", "queued", "denied" or "sent"
  telling,  \* changes made through the hub whose answer is on its way
  excused   \* files whose entry, or download, may be behind for a reason given below

assetVars == <<stored, cache, asking, telling, excused>>

AssetInit ==
  /\ stored \in SUBSET Asset
  /\ cache = [a \in Asset |-> "none"]
  /\ asking = [a \in Asset |-> "no"]
  /\ telling = {}
  /\ excused = {}

-----------------------------------------------------------------------------
\* cachedAsset, for the first who asks; the others share its download.
FetchIcon(a) ==
  /\ cache[a] = "none" /\ asking[a] = "no"
  /\ asking' = [asking EXCEPT ![a] = "queued"]
  /\ UNCHANGED <<stored, cache, telling, excused>>

\* Its turn in the pace queue: the server has the file or refuses.
ServerReads(a) ==
  /\ asking[a] = "queued"
  /\ asking' = [asking EXCEPT ![a] = IF a \in stored THEN "sent" ELSE "denied"]
  /\ excused' = excused \ {a}
  /\ UNCHANGED <<stored, cache, telling>>

\* setCachedAsset and the end of the task.
Remember(a, found) ==
  /\ cache' = [cache EXCEPT ![a] = found]
  /\ asking' = [asking EXCEPT ![a] = "no"]

\* The refusal, or the bytes, have reached the hub.
Downloaded(a) ==
  /\ asking[a] \in {"denied", "sent"}
  /\ Remember(a, IF asking[a] = "sent" THEN "hit" ELSE "miss")
  /\ UNCHANGED <<stored, telling, excused>>

\* An init or a dial that fails, a transfer that times out, the end of the session
\* in whose name it runs: each counts as missing.
DownloadFails(a) ==
  /\ asking[a] # "no"
  /\ Remember(a, "miss")
  /\ excused' = excused \cup {a}
  /\ UNCHANGED <<stored, telling>>

\* The hub may not ask now (no client, flooded, the queue is full): nothing is
\* remembered.
Skip(a) ==
  /\ asking[a] = "queued"
  /\ asking' = [asking EXCEPT ![a] = "no"]
  /\ UNCHANGED <<stored, cache, telling, excused>>

\* An entry expires, or makes room for others.
Drop(a) ==
  /\ cache[a] # "none"
  /\ cache' = [cache EXCEPT ![a] = "none"]
  /\ UNCHANGED <<stored, asking, telling, excused>>

\* What the server already said of a file that changes is behind.
Overtaken(a) == IF asking[a] \in {"denied", "sent"} THEN {a} ELSE {}

\* The server takes an upload of the hub, or deletes a file for it.
HubChanges(a) ==
  /\ a \notin telling
  /\ stored' = IF a \in stored THEN stored \ {a} ELSE stored \cup {a}
  /\ telling' = telling \cup {a}
  /\ excused' = excused \cup Overtaken(a)
  /\ UNCHANGED <<cache, asking>>

\* Another client does.
OthersChange(a) ==
  /\ stored' = IF a \in stored THEN stored \ {a} ELSE stored \cup {a}
  /\ excused' = excused \cup {a}
  /\ UNCHANGED <<cache, asking, telling>>

\* (Mutant: only an icon that was missing is forgotten.)
ForgetMiss(a) ==
  /\ a \in telling
  /\ telling' = telling \ {a}
  /\ cache' = [cache EXCEPT ![a] = IF @ = "miss" THEN "none" ELSE @]
  /\ UNCHANGED <<stored, asking, excused>>

\* forgetAsset, once the upload has settled or the delete is answered.
ForgetAsset(a) ==
  /\ a \in telling
  /\ telling' = telling \ {a}
  /\ cache' = [cache EXCEPT ![a] = "none"]
  /\ UNCHANGED <<stored, asking, excused>>

AssetNext ==
  \E a \in Asset :
    \/ FetchIcon(a) \/ ServerReads(a) \/ Downloaded(a) \/ DownloadFails(a) \/ Skip(a)
    \/ Drop(a) \/ HubChanges(a) \/ OthersChange(a) \/ ForgetAsset(a)

AssetSpec == AssetInit /\ [][AssetNext]_assetVars

-----------------------------------------------------------------------------
(* Properties.                                                             *)

\* "So it is fetched afresh": what the hub remembers of a file is what the server
\* has, unless a change is still being answered, another client made one, the
\* change overtook a download under way, or a download failed half way.
BehindForAReason ==
  \A a \in Asset :
    cache[a] # "none" /\ a \notin telling \cup excused => (cache[a] = "hit" <=> a \in stored)
=============================================================================
