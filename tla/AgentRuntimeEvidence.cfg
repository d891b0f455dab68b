SPECIFICATION FairSpec
CONSTANTS
    memory = memory
    read = read
    write = write
    ghost = ghost
    NoTool = NoTool
    Tools <- MCTools
    Registered <- MCRegistered
    Verdicts <- MCVerdicts
    Plans <- MCPlans
    MaxLen = 1
    MaxSteps = 1
    MaxToolCalls = 1
    MaxFailures = 1
INVARIANT ReturnedRunIsRecorded
CHECK_DEADLOCK FALSE
