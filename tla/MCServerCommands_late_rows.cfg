CONSTANTS
  list1 = list1
  list2 = list2
  init1 = init1
  servergroups = servergroups
  channelgroups = channelgroups
  Cmd = {list1, list2}
  Transfer = {}
  Notify = {servergroups, channelgroups}
  Collect <- Collects
  Pushed = {}
  Outside = Outside
  None = None
SPECIFICATION Spec
INVARIANT RowsOwn
CHECK_DEADLOCK FALSE
