SPECIFICATION Spec
CHECK_DEADLOCK FALSE
CONSTANTS
    Events = {1, 2, 3}
    Free = Free
    Gone = Gone
    MaxBroadcast = 1
    Capacity = 1
    Grace = 2
    MaxFaults = 0
INVARIANTS
    NoMailForgotten
