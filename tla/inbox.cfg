SPECIFICATION InboxSpec
CONSTANTS
    MsgIds = {m1, m2}
    ControlIds = {}
    ForeignIds = {}
    Peers = {p1}
    NoPeer = NoPeer
    NoId = NoId
    NoTask = NoTask
    TaskIds = {t1}
    Calls = {c1}
    MaxReroutes = 1
    SeenCapacity = 2
    AddressedWired = TRUE
    Rows = {r1}
    Peer = p1
    KnowsNpub = TRUE
    Hops = {0}
    MaxStream = 1
    MaxBoots = 1
SYMMETRY InboxSymmetry
VIEW InboxView
INVARIANTS
    RowsHonest
PROPERTIES
    WireIdIsKept
    ImplementsStatus
