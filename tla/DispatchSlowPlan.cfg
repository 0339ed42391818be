SPECIFICATION DispatchSpec
CONSTANTS
  s1 = s1
  h1 = h1
  c1 = c1
  NoHolder = NoHolder
  NoSession = NoSession
  Tasks = {1}
  Sessions = {s1}
  Born = {s1}
  Hosts = {h1}
  Clients = {c1}
  Kind <- MCSaved
  Home <- MCHome
  HostOf <- MCHost
  Schedules <- MCSchedules
  Delays = {1}
  Interval = 1
  Checks = {1}
  MonitorLife = 3
  LeaseTime = 2
  QueueMax = 2
  DueBatch = 2
  ClaimBatch = 2
  MaxTurns = 2
  MaxStalls = 2
  CutOff = FALSE
  GoalRemoval = FALSE
  MaxNow = 4
  MaxId = 2
  MaxRev = 2
  Slots = {1, 2}
  ViaBridge = {}
  Calm = 5
  Crashes = 1
  SlowPlan = TRUE
INVARIANTS WorkIsRecorded
CHECK_DEADLOCK FALSE
