SPECIFICATION FairSpec
CONSTANTS
    Sides = {alice, bob}
    MaxCalls = 2
    MaxOps = 2
    MaxTaps = 1
    Patient = TRUE
CHECK_DEADLOCK FALSE
INVARIANTS
    CallsConsistent
    ConnectedWasAccepted
    

    
    
