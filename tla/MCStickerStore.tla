--------------------------- MODULE MCStickerStore ---------------------------
(* StickerStore alone, for TLC. *)
EXTENDS StickerStore
=============================================================================
