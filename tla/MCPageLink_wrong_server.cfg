CONSTANTS
  Req = {r1, r2}
  Cmd = {}
  None = None
  Retries = 3
  MaxOutstanding = 2
SPECIFICATION Spec
INVARIANT ConnectedAsAsked
CHECK_DEADLOCK FALSE
