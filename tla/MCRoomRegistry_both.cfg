CONSTANTS
  s1 = s1
  s2 = s2
  s3 = s3
  lobby = lobby
  music = music
  camera = camera
  screen = screen
  Session = {s1, s2}
  Ref = {lobby, music}
  Share = {camera, screen}
  None = None
SPECIFICATION Spec
SYMMETRY Symmetric
INVARIANT IndexesAgree
INVARIANT ViewsCurrent
INVARIANT PlacedByConnection
CHECK_DEADLOCK FALSE
