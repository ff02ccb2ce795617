CONSTANTS
  list1 = list1
  list2 = list2
  init1 = init1
  servergroups = servergroups
  channelgroups = channelgroups
  Cmd = {list1, list2, init1}
  Transfer = {init1}
  Notify = {servergroups, channelgroups}
  Collect <- Collects
  Pushed = {servergroups, channelgroups}
  Outside = Outside
  None = None
  Flag = {f1, f2}
  Power = {q1}
  Unset = Unset
  MaxChanges = 4
  Key = {k1, k2}
  NoKey = NoKey
  MaxDepth = 2
  MaxRuns = 4
  MaxClears = 2
  Burst = 2
  Refill = 3
  Spacing = 1
  MaxWait = 4
  MaxTime = 9
  MaxSlots = 6
  Channel = {d1, d2, d3}
  Root = Root
  Nowhere = Nowhere
  MaxTreeChanges = 3
  Mate = {m1, m2}
  Chan = {e1, e2}
  Unseen = Unseen
  MaxViewChanges = 3
  Asset = {i1}
SPECIFICATION GatewaySpec
INVARIANT RowsWhole
INVARIANT RowsExplained
INVARIANT BlameExplained
INVARIANT NobodyWaitsInVain
PROPERTY EveryCallSettles
INVARIANT PagePermsCurrent
INVARIANT OneRunPerKey
INVARIANT BudgetKept
INVARIANT PageListsAsServer
INVARIANT PageShowsWhoIsReported
INVARIANT BehindForAReason
INVARIANT OneWayBack
CHECK_DEADLOCK FALSE
