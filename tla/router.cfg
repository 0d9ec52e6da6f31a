SPECIFICATION FairSpec
CONSTANTS
    MsgIds = {m1}
    ControlIds = {}
    ForeignIds = {f1}
    Peers = {p1}
    NoPeer = NoPeer
    NoId = NoId
    NoTask = NoTask
    TaskIds = {t1, t2}
    Calls = {c1}
    MaxReroutes = 1
    SeenCapacity = 2
    AddressedWired = TRUE
INVARIANTS
    TimersConsistent
    SentHasBackstop
    
    InboundOnce
PROPERTIES
    SentResolves
