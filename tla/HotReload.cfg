SPECIFICATION FairSpec
CONSTANTS
    F = {"main", "f"}
    Root = "main"
    Calls <- MCCalls
    Ver = {"a", "b", "sig", "bad"}
    Broken = {"bad"}
    Args <- MCArgs
    First = "a"
    None = None
    Slots = 2
    MaxEdits = 3
    Race = {}
INVARIANTS
    TypeOK
    CallsCurrent
PROPERTIES
    CodeIntact
    Swaps
    EditsApplied
CHECK_DEADLOCK FALSE
