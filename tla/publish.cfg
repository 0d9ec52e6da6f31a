SPECIFICATION FairSpec
CONSTANTS
    Relays = {r1, r2, r3}
    Events = {e1}
    SummaryDeadline = 2
    RepublishDelay = 3
    MaxPublishAttempts = 3
INVARIANTS
    DeadlineMatchesEntry
    FailsAfterLastRung
    CountedAcceptSettles
PROPERTIES
    LadderEnds
