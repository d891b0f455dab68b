SPECIFICATION FairSpec
CONSTANTS
    s1 = s1
    s2 = s2
    c1 = c1
    c2 = c2
    Statuses <- OneStatus
    Commands <- TwoCommands
    Addressed <- TwoCommands
    Refused = {}
    MaxBatch = 2
    FallbackAfter = 1
    MaxFaults = 1
INVARIANTS
    NothingKeptIsLost
    LossesAreFaults
    DuplicatesAreFaults
    FlushedInOrder
PROPERTIES
    FlushesOnReconnect
    ListenerReconnects
