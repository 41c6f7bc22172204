SPECIFICATION LocalSpec
CONSTANTS
    b1 = b1
    b2 = b2
    Builds <- MCBuilds
    NoFile = NoFile
    TornFile = TornFile
    Roots <- MCRoots
    Barrier = Barrier
    None = None
    Corrupt = Corrupt
    Free = Free
    Gone = Gone
    Proc = {"p1", "p2"}
    Batch = {"f1", "f2"}
    MaxSeq = 2
    NoProc = NoProc
    Zeros = Zeros
INVARIANTS
    AdmittedIsWanted
