CONSTANT MaxSessions <- MCMaxSessions
SPECIFICATION FairSpec
PROPERTY StopFinishes
CHECK_DEADLOCK FALSE
