CONSTANT MaxSessions <- MCMaxSessions
SPECIFICATION FairSpec
INVARIANTS
    AllThreadsGone
    OneLateMerge
PROPERTY StopsOutsideFrame
CHECK_DEADLOCK FALSE
