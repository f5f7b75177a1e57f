SPECIFICATION Spec
CONSTANTS
    Obj = {o1, o2}
    G = {g1}
    Slot = {a, b}
    Nil = Nil
    CycMod = 8
    MaxLag = 1
    MaxCycle = 2
    Escapes = {"local", "global"}
    Race = {"uncount", "capture"}
SYMMETRY Symm
INVARIANTS
    NoUseAfterFree
CHECK_DEADLOCK FALSE
