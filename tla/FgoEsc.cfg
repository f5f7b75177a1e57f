SPECIFICATION Spec
CONSTANTS
    Obj = {o1, o2}
    G = {g1}
    Slot = {a, b}
    Nil = Nil
    CycMod = 8
    MaxLag = 1
    MaxCycle = 2
    Escapes = {"global"}
    Race = {}
SYMMETRY Symm
INVARIANTS
    NoUseAfterFree
    CountsExact
    RecordsExact
CHECK_DEADLOCK FALSE
