SPECIFICATION FairSpec
CONSTANTS
    Links = {1, 2}
    MaxConnects = 3
    MaxTrust = 2
    MaxLosses = 1
CHECK_DEADLOCK FALSE
INVARIANTS
    PresenceHonest
PROPERTIES
    DepartureRerouted
    Reconnects
    Departs
