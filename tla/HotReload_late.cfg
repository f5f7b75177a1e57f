SPECIFICATION Spec
CONSTANTS
    F = {"main", "f"}
    Root = "main"
    Calls <- MCCalls
    Ver = {"a", "b"}
    Broken = {}
    Args <- MCArgs
    First = "a"
    None = None
    Slots = 2
    MaxEdits = 2
    Race = {"late"}
PROPERTIES
    CodeIntact
CHECK_DEADLOCK FALSE
