CONSTANTS
    Bodies <- MCBodies
    Noise <- MCNoise
    MaxSent = 3
SPECIFICATION Spec
INVARIANTS
    OnlyBreakersAreClosed
PROPERTY ImplementsChannel
CHECK_DEADLOCK FALSE
