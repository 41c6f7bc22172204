SPECIFICATION Spec
CONSTANTS
    Threads = {t1}
    Handles = {h1}
    Paths = {a}
    Existing = {a}
    Session = session
    Nobody = nobody
    InitTree <- MCInitTree
    Limit = 2
    MaxWait = 2
    MaxWrites = 2
    MaxEvents = 1
INVARIANT AckedNotLost
