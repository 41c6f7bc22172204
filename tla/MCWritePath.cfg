SPECIFICATION Spec
CONSTANTS
    Threads = {t1, t2}
    Handles = {h1, h2}
    Paths = {a, b}
    Existing = {a}
    Session = session
    Nobody = nobody
    InitTree <- MCInitTree
    Limit = 2
    MaxWait = 1
    MaxWrites = 2
    MaxEvents = 1
INVARIANT NoLostUpdate
INVARIANT NobodyForgotten
INVARIANT AdmissionOrder
SYMMETRY Symmetry
