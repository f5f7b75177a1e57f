SPECIFICATION Spec
CONSTANTS
    Runtime = {r1, r2, r3}
    DFL = DFL
    IGN = IGN
    Host = Host
    Reporter = Reporter
    None = None
    Race = {}
SYMMETRY Symm
INVARIANTS
    TypeOK
    DeliveryEnds
    AllHear
    MarkedStay
    GivenBack
    PreemptArrives
    HandlersChained
    StubsLive
CHECK_DEADLOCK FALSE
