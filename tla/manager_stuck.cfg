CONSTANTS
    Senders = {s1}
    Hook = hook
    MaxCalls <- MCMaxCalls
SPECIFICATION FairSpec
PROPERTY HookReturns
CHECK_DEADLOCK FALSE
