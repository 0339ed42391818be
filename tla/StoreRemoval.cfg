SPECIFICATION RemovalSpec
CONSTANTS
  s1 = s1
  s2 = s2
  h1 = h1
  h2 = h2
  c1 = c1
  NoHolder = NoHolder
  NoSession = NoSession
  Tasks = {1}
  Sessions = {s1}
  Born = {s1}
  Hosts = {h1}
  Clients = {c1}
  Kind <- MCGoal
  Home <- MCHome
  HostOf <- MCHost
  Schedules <- MCRecurring
  Delays = {1}
  Interval = 1
  Checks = {1}
  MonitorLife = 3
  LeaseTime = 1
  QueueMax = 2
  DueBatch = 2
  ClaimBatch = 2
  MaxTurns = 2
  MaxStalls = 2
  CutOff = TRUE
  GoalRemoval = TRUE
  MaxRev = 2
  MaxNow = 2
  MaxId = 2
INVARIANTS DeliveredOnce GoalTurnBound
CHECK_DEADLOCK FALSE
