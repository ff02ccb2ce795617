---------------------------- MODULE StickerStore ----------------------------
(***************************************************************************)
(* Stickers on the hub's disk (stickers/store.ts, storage/blob-dir.ts,     *)
(* storage/index-file.ts): an index of entries, rewritten by a rename on   *)
(* every change, and one file for each picture an entry names, however     *)
(* many do.                                                                *)
(*                                                                         *)
(* Every operation is synchronous, so nothing interleaves with it; but the *)
(* hub may die between any two of its writes, a write may fail, and at a   *)
(* start the index may be there and not be readable: then the store works  *)
(* in memory and leaves the disk alone.  What a dead hub left behind is    *)
(* swept at the next start.                                                *)
(***************************************************************************)
EXTENDS Functions, FiniteSets

CONSTANTS
  Sticker,   \* ids of entries, of any scope
  Picture,   \* contents, by hash
  NoPicture,
  Troubles   \* the environment's: what may go wrong besides a crash

ASSUME StickerAssumption ==
  /\ NoPicture \notin Picture
  /\ Troubles \subseteq {"none", "index", "disk"}

VARIABLES
  trouble,    \* "index": it may be unreadable at a start; "disk": writes may fail
  indexFile,  \* index.json: the picture of each entry
  pictures,   \* blobs/: of each picture "none", "half" or "whole"
  scopes,     \* StickerStore.scopes: the entries in memory
  indexState, \* StickerStore.indexState; "empty" works as "loaded" does
  doing,      \* where the hub is in what it does
  promised    \* the entries people were told of by a store that writes

stickerVars == <<trouble, indexFile, pictures, scopes, indexState, doing, promised>>

NoStickers == [s \in Sticker |-> NoPicture]

Doing(at, new, left) == [at |-> at, new |-> new, left |-> left]
Ready == Doing("ready", {}, {})

\* Nothing is stored yet and the hub is not up.
StickerInit ==
  /\ trouble \in Troubles
  /\ indexFile = NoStickers
  /\ pictures = [p \in Picture |-> "none"]
  /\ scopes = NoStickers /\ indexState = "loaded"
  /\ doing = Doing("down", {}, {})
  /\ promised = NoStickers

Named(entries) == Range(entries) \ {NoPicture}

-----------------------------------------------------------------------------
\* load: the index is read, or is there and cannot be.
Load ==
  /\ doing.at = "down"
  /\ \/ /\ scopes' = indexFile /\ indexState' = "loaded"
        /\ doing' = Doing("sweeping", {}, {})
     \/ /\ trouble = "index"
        /\ scopes' = NoStickers /\ indexState' = "unreadable"
        /\ doing' = Doing("sweeping", {}, {})
  /\ UNCHANGED <<trouble, indexFile, pictures, promised>>

\* sweep: a file no entry names is deleted, unless the index was not readable.
Sweep(p) ==
  /\ doing.at = "sweeping"
  /\ indexState = "loaded" /\ pictures[p] # "none" /\ p \notin Named(scopes)
  /\ pictures' = [pictures EXCEPT ![p] = "none"]
  /\ UNCHANGED <<trouble, indexFile, scopes, indexState, doing, promised>>

Swept ==
  /\ doing.at = "sweeping"
  /\ indexState = "loaded" => \A p \in Picture \ Named(scopes) : pictures[p] = "none"
  /\ doing' = Ready
  /\ UNCHANGED <<trouble, indexFile, pictures, scopes, indexState, promised>>

\* put, up to the write of the index.
Puts(entries, new, left) ==
  /\ scopes' = entries
  /\ doing' = Doing("saving", new, left)

\* addSticker: an id is new, and a picture that is on the disk is not written.
Add(s, p) ==
  /\ doing = Ready
  /\ scopes[s] = NoPicture /\ indexFile[s] = NoPicture /\ promised[s] = NoPicture
  /\ IF pictures[p] = "none"
     THEN doing' = Doing("writing", {s}, {p}) /\ UNCHANGED scopes
     ELSE Puts([scopes EXCEPT ![s] = p], {s}, {})
  /\ UNCHANGED <<trouble, indexFile, pictures, indexState, promised>>

Written ==
  /\ doing.at = "writing"
  /\ \E s \in doing.new, p \in doing.left :
       /\ pictures' = [pictures EXCEPT ![p] = "whole"]
       /\ Puts([scopes EXCEPT ![s] = p], {s}, {})
  /\ UNCHANGED <<trouble, indexFile, indexState, promised>>

\* The disk is full: addSticker throws.
NotWritten ==
  /\ trouble = "disk"
  /\ doing.at = "writing"
  /\ \E p \in doing.left : pictures' = [pictures EXCEPT ![p] = "half"]
  /\ doing' = Ready
  /\ UNCHANGED <<trouble, indexFile, scopes, indexState, promised>>

\* removeSticker, or removePack with its stickers.
Remove(S) ==
  /\ doing = Ready
  /\ S # {} /\ \A s \in S : scopes[s] # NoPicture
  /\ Puts([s \in Sticker |-> IF s \in S THEN NoPicture ELSE scopes[s]], {},
          {scopes[s] : s \in S})
  /\ promised' = [s \in Sticker |-> IF s \in S THEN NoPicture ELSE promised[s]]
  /\ UNCHANGED <<trouble, indexFile, pictures, indexState>>

\* (Mutant: the index is written over whether it could be read or not.)
SavedOver ==
  /\ doing.at = "saving"
  /\ indexFile' = scopes
  /\ promised' = [s \in Sticker |-> IF s \in doing.new THEN scopes[s] ELSE promised[s]]
  /\ doing' = IF doing.left = {} THEN Ready ELSE Doing("collecting", {}, doing.left)
  /\ UNCHANGED <<trouble, pictures, scopes, indexState>>

\* persist: the temporary file is renamed over the index, but a store that could not
\* read it writes nothing.  The add is answered; a removal goes on.
Saved ==
  /\ doing.at = "saving"
  /\ IF indexState = "loaded"
     THEN /\ indexFile' = scopes
          /\ promised' = [s \in Sticker |-> IF s \in doing.new THEN scopes[s] ELSE promised[s]]
     ELSE UNCHANGED <<indexFile, promised>>
  /\ doing' = IF doing.left = {} THEN Ready ELSE Doing("collecting", {}, doing.left)
  /\ UNCHANGED <<trouble, pictures, scopes, indexState>>

\* The temporary file cannot be written: persist throws, the memory keeps the change.
NotSaved ==
  /\ trouble = "disk" /\ indexState = "loaded"
  /\ doing.at = "saving"
  /\ doing' = Ready
  /\ UNCHANGED <<trouble, indexFile, pictures, scopes, indexState, promised>>

\* collect: a picture without an entry goes.
Collect ==
  /\ doing.at = "collecting"
  /\ \E p \in doing.left :
       /\ pictures' = [pictures EXCEPT ![p] = IF p \in Named(scopes) THEN @ ELSE "none"]
       /\ doing' = IF doing.left = {p} THEN Ready ELSE [doing EXCEPT !.left = @ \ {p}]
  /\ UNCHANGED <<trouble, indexFile, scopes, indexState, promised>>

\* The hub dies, maybe in the middle of a picture.
Crash ==
  /\ doing.at # "down"
  /\ doing' = Doing("down", {}, {})
  /\ \/ UNCHANGED pictures
     \/ /\ doing.at = "writing"
        /\ \E p \in doing.left, how \in {"half", "whole"} :
             pictures' = [pictures EXCEPT ![p] = how]
  /\ scopes' = NoStickers /\ indexState' = "loaded"
  /\ UNCHANGED <<trouble, indexFile, promised>>

StickerNext ==
  \/ Load \/ Swept \/ Written \/ NotWritten \/ Saved \/ NotSaved \/ Collect \/ Crash
  \/ \E p \in Picture : Sweep(p) \/ \E s \in Sticker : Add(s, p)
  \/ \E S \in SUBSET Sticker : Remove(S)

StickerSpec == StickerInit /\ [][StickerNext]_stickerVars

-----------------------------------------------------------------------------
(* Properties.                                                             *)

\* Every entry of the index on the disk has its picture there, whole ("deletes
\* everything" is what storage/index-file.ts is there to prevent).
NamedPicturesWhole == \A p \in Named(indexFile) : pictures[p] = "whole"

\* What people were told is stored, and did not remove, stays in the index on the
\* disk, whenever the hub dies and whatever it could not read or write; and its
\* picture stays with it, if reads of the index and writes do not fail.
StickersSurvive ==
  /\ \A s \in Sticker : promised[s] # NoPicture => indexFile[s] = promised[s]
  /\ trouble = "none" => NamedPicturesWhole
=============================================================================
