CONSTANTS
    Senders = {s1, s2}
    Hook = hook
    MaxCalls <- MCMaxCalls
    MaxEdits = 1
    MaxClicks = 2
SPECIFICATION FairHostSpec
INVARIANTS
    NoOrphan
    PortIsOurs
    NoneLeftBehind
    RunsWithSettings
    ButtonIsRight
PROPERTY HookReturnsOrTk
CHECK_DEADLOCK FALSE
