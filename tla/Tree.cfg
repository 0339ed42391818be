SPECIFICATION FairSpec
CHECK_DEADLOCK FALSE
CONSTANTS
    root = root
    a = a
    b = b
    c = c
    NoNode = NoNode
    Root = root
    Node <- MCNode
    Kids <- MCKids
    Calls <- MCCalls
    Fast <- MCFast
    Permits = 1
    MaxTasks = 3
    MaxRunTools = 3
    MaxTools = 1
    MaxTurns = 1
    MaxCalls = 2
INVARIANTS
    TreeTypeOK
    OwnChanges
    ChangesCovered
    RetriedClean
    ChildrenInside
    HeldBriefly
PROPERTIES
    RunEnds
