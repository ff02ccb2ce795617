CONSTANTS
  s1 = s1
  s2 = s2
  s3 = s3
  lobby = lobby
  music = music
  camera = camera
  screen = screen
  Session = {s1}
  Ref = {lobby, music}
  Share = {camera}
  None = None
SPECIFICATION Spec
INVARIANT VideoWhereAsked
CHECK_DEADLOCK FALSE
