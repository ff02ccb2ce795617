CONSTANTS
  b1 = b1
  c1 = c1
  c2 = c2
  l1 = l1
  l2 = l2
  l3 = l3
  film = film
  song = song
  s1 = s1
  s2 = s2
  d1 = d1
  d2 = d2
  u1 = u1
  u2 = u2
  Browser = {b1}
  Conn = {c1, c2}
  Link = {l1, l2, l3}
  Req = {r1, r2}
  None = None
  Owner <- OneBrowser
  LinkConn <- ConnOfLink
  LinkFile <- FileOfLink
  Empty = {l3}
  Slots = 1
  MaxLinks = 2
  Session = {s1, s2}
  Download = {d1, d2}
  Upload = {u1, u2}
  Icon = {u1}
  OwnerOf <- OneBusy
  MaxTransfers = 2
  MaxHub = 2
  MaxTickets = 1
  Sticker = {g1, g2}
  Picture = {smile, wave}
  NoPicture = NoPicture
  Troubles = {"none", "index", "disk"}
SPECIFICATION FilesSpec
INVARIANT StreamSlotsExact
INVARIANT BytesOnlyWhileHeld
PROPERTY RefusedSeekKeepsPlaying
PROPERTY SlotComesBack
INVARIANT SlotsExact
PROPERTY ImplementsPool
PROPERTY GivesBack
INVARIANT StickersSurvive
CHECK_DEADLOCK FALSE
