CONSTANTS
  Req = {r1, r2}
  Cmd = {c1}
  None = None
  Retries = 3
  MaxOutstanding = 2
  MaxTracks = 3
  VideoChan = {v1, v2}
  NoChan = NoChan
  MaxJoins = 2
  MaxEvents = 2
  MaxSeq = 4
  InternalIds = {4}
  Parallel = 2
SPECIFICATION PageSpec
INVARIANT PageAgrees
INVARIANT OneConnectUnderWay
INVARIANT PendingOnItsWay
PROPERTY ConnectEnds
PROPERTY MeshSettles
INVARIANT RoomInSyncIfSteady
PROPERTY ShareSurvivesDrop
INVARIANT LineMovesOn
CHECK_DEADLOCK FALSE
