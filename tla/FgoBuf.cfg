SPECIFICATION Spec
CONSTANTS
    Obj = {o1, o2}
    Buf = {b1, b2}
    Slot = {s1, s2}
    Heap = Heap
    Nil = Nil
    MaxLen = 2
    fgoRCMaxSize = 1
    Race = {}
SYMMETRY Symm
INVARIANTS
    TypeOK
    RefsExact
    NoDangling
    NothingLeft
CHECK_DEADLOCK FALSE
