SPECIFICATION FairSpec
CONSTANTS
    MaxFrames = 4
    MaxChunks = 2
    ChunkRetryLimit = 2
    TeardownThreshold = 3
    MaxFaults = 2
CHECK_DEADLOCK FALSE
INVARIANTS
    EngineConsistent
    InOrderOnce
    TornOnlyByFailure
PROPERTIES
    ZombieDropped
    Relinks
