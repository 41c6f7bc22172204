SPECIFICATION Spec
CONSTANTS
    o = o
    p = p
    b = b
    rd = rd
    NoPrev = NoPrev
    Stop = Stop
    NoAnalysis = NoAnalysis
    Universes <- MCUniverses
    Order <- RemovalOrder
PROPERTY
    ResolutionFinal
