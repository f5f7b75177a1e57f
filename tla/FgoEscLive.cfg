SPECIFICATION FairSpec
CONSTANTS
    Obj = {o1}
    G = {g1}
    Slot = {a, b}
    Nil = Nil
    CycMod = 8
    MaxLag = 1
    MaxCycle = 8
    Escapes = {"local", "global", "weak"}
    Race = {}
INVARIANTS
    TypeOK
    NoUseAfterFree
    WeakCleared
PROPERTY GarbageFreed
