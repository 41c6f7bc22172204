SPECIFICATION Spec
CHECK_DEADLOCK FALSE
CONSTANTS
    o = o
    d = d
    NoPrev = NoPrev
    Stop = Stop
    Situations <- MCSituations
    MaxSuppressed = 1
INVARIANTS
    ViewsMatchStore
    NoForkCommitted
    ReceiverCommitsOnce
    GrantsBacked
    NoFalseDuplicate
    NoSilentLoss
PROPERTIES
    Converges
