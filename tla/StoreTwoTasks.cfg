SPECIFICATION UnattendedSpec
CONSTANTS
  s1 = s1
  s2 = s2
  h1 = h1
  h2 = h2
  c1 = c1
  NoHolder = NoHolder
  NoSession = NoSession
  Tasks = {1, 2}
  Sessions = {s1, s2}
  Born = {s1}
  Hosts = {h1, h2}
  Clients = {}
  Kind <- MCSavedAndMonitor
  Home <- MCMixedHome
  HostOf <- MCTwoHosts
  Schedules <- MCRecurring
  Delays = {1}
  Interval = 1
  Checks = {1, 2}
  MonitorLife = 3
  LeaseTime = 1
  QueueMax = 1
  DueBatch = 1
  ClaimBatch = 1
  MaxTurns = 2
  MaxStalls = 2
  CutOff = FALSE
  GoalRemoval = FALSE
  MaxRev = 3
  MaxNow = 3
  MaxId = 2
INVARIANTS SingleOccurrence FreshOccurrence NoDeadPrompt MonitorBudget
PROPERTIES MonitorClaimedInLife
CHECK_DEADLOCK FALSE
