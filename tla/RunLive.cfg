CONSTANTS
  HostGoal = TRUE
  MayFail = TRUE
  LateAbort = FALSE
  Capacity = 1
  Room = 1
  MaxSeq = 3
  MaxAsks = 3
  MaxBreaks = 1
  MaxVisits = 2
  MaxGoalNews = 1
SPECIFICATION FairSpec
INVARIANTS RestoredFromOne
PROPERTIES NotAgain RunFound EndShown
CHECK_DEADLOCK FALSE
