SPECIFICATION FairSpec
CONSTANTS
    MaxHolds = 2
    MaxFrames = 3
    WindowSize = 2
CHECK_DEADLOCK FALSE
INVARIANTS
    ReplayWindow
    MicOnlyWhileHeld
    ClosedOnce
    ListenerSettles
PROPERTIES
    SessionsClosed
