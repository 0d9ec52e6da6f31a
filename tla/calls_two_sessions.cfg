SPECIFICATION FairSpec
CONSTANTS
    Sides = {alice, bob}
    MaxCalls = 2
    MaxOps = 2
    MaxTaps = 1
    Patient = FALSE
CHECK_DEADLOCK FALSE
INVARIANTS
    OneCallAtATime
