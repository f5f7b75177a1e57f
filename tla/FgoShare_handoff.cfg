SPECIFICATION Spec
CONSTANTS
    Obj = {o1, o2, o3}
    G = {g1, g2}
    Tag = {t1, t2}
    Heap = {}
    Nil = Nil
    Race = {"handoffs", "mutate"}
SYMMETRY Symm
INVARIANT LocalsCounted
CHECK_DEADLOCK FALSE
