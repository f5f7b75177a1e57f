SPECIFICATION Spec
CONSTANTS
    M = {m1, m2}
    fgoRCClasses = 2
    fgoRCCached = 1
    fgoRCChunk = 3
    MaxChunks = 2
    fgoRCSpares = 1
    fgoRCKeep = 1
    MaxLive = 2
    MayExit = TRUE
SYMMETRY Symm
INVARIANTS
    TypeOK
    ListsExact
    Disjoint
    NoLeak
    LiveExact
CHECK_DEADLOCK FALSE
