CONSTANTS
  VideoChan = {v1, v2}
  NoChan = NoChan
  MaxJoins = 2
  MaxEvents = 2
SPECIFICATION VideoSpec
INVARIANT RoomInSync
CHECK_DEADLOCK FALSE
