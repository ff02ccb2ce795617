CONSTANTS
  Sticker = {g1, g2}
  Picture = {smile, wave}
  NoPicture = NoPicture
  Troubles = {"index"}
SPECIFICATION StickerSpec
INVARIANT NamedPicturesWhole
CHECK_DEADLOCK FALSE
