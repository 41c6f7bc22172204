SPECIFICATION Spec
CHECK_DEADLOCK FALSE
CONSTANTS
    o = o
    d = d
    NoPrev = NoPrev
    Stop = Stop
    Situations <- MCBurst
    MaxSuppressed = 1
INVARIANTS
    NoSilentLoss
