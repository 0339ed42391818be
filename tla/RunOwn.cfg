CONSTANTS
  HostGoal = FALSE
  MayFail = TRUE
  LateAbort = TRUE
  Capacity = 2
  Room = 2
  MaxSeq = 5
  MaxAsks = 3
  MaxBreaks = 2
  MaxVisits = 0
  MaxGoalNews = 0
SPECIFICATION FairSpec
INVARIANTS TypeOK ViewExact EndSeenWhole Restored
PROPERTIES EndShown
CHECK_DEADLOCK FALSE
