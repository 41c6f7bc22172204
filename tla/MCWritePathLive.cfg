SPECIFICATION Spec
CONSTANTS
    Threads = {t1, t2}
    Handles = {h1}
    Paths = {a}
    Existing = {a}
    Session = session
    Nobody = nobody
    InitTree <- MCInitTree
    Limit = 2
    MaxWait = 2
    MaxWrites = 1
    MaxEvents = 2
PROPERTY EverySyscallReturns
PROPERTY EventuallyServed
