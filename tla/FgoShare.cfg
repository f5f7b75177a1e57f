SPECIFICATION Spec
CONSTANTS
    Obj = {o1, o2, o3}
    G = {g1, g2}
    Tag = {t1}
    Heap = {h}
    Nil = Nil
    Race = {}
SYMMETRY Symm
INVARIANTS
    TypeOK
    CountsExact
    FreedAtLast
    SharedClosed
    MarksExact
CHECK_DEADLOCK FALSE
