SPECIFICATION FairSpec
CONSTANTS
    Wraps = {w1, w2, w3}
    LedgerCapacity = 3
    FailedWrapsCap = 1
    MaxWrites = 2
    MaxBoots = 3
    MaxKeys = 2
INVARIANTS
    LedgerConsistent
    OncePerLaunch
    RecordedWasYielded
PROPERTIES
    FreshTry
