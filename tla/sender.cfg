CONSTANTS
    MaxMessages <- MCMaxMessages
    MaxDeaths <- MCMaxDeaths
    MaxTimeouts = 1
    MaxCalls = 1
SPECIFICATION FairSpec
INVARIANTS
    AtMostOnce
    InOrder
PROPERTIES
    QueueIsServed
    DeliveredUnlessStale
CHECK_DEADLOCK FALSE
