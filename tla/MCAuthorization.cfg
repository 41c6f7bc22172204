SPECIFICATION Spec
CONSTANTS
    o = o
    p = p
    b = b
    rd = rd
    NoPrev = NoPrev
    Stop = Stop
    NoAnalysis = NoAnalysis
    Universes <- MCUniverses
    Order <- RemovalOrder
INVARIANTS
    OneAuthorizedChain
    FrozenIffContested
    LiveLineageAuthorized
    LiveIsGreatest
PROPERTIES
    NeverSwitchesSides
    AuthorityIsFinal
    LiveOnlyGrows
    ResumeSeesOldHeads
