SPECIFICATION FairSpec
CONSTANTS
    Worker = {m1, m2}
    M0 = m1
    Host = {h1}
    Sysmon = Sysmon
    Template = Template
    Procs = 2
    Space = 4
    Lists <- MCLists
    Stacks <- MCStacks
    Race = {}
INVARIANTS
    TypeOK
    NoneInside
    GoStays
    NoDoubleWake
    UnmapsExact
PROPERTY UnloadEnds
CHECK_DEADLOCK FALSE
