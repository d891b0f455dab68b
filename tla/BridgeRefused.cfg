SPECIFICATION FairSpec
CONSTANTS
    s1 = s1
    s2 = s2
    c1 = c1
    c2 = c2
    Statuses <- TwoStatuses
    Commands <- NoCommands
    Addressed <- NoCommands
    Refused = {s1}
    MaxBatch = 2
    FallbackAfter = 1
    MaxFaults = 0
PROPERTY FlushesOnReconnect
CHECK_DEADLOCK FALSE
