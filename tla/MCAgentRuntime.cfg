SPECIFICATION FairSpec
CONSTANTS
    memory = memory
    read = read
    write = write
    ghost = ghost
    NoTool = NoTool
    Tools <- MCTools
    Registered <- MCRegistered
    Verdicts <- MCVerdicts
    Plans <- MCPlans
    MaxLen = 4
    MaxSteps = 3
    MaxToolCalls = 2
    MaxFailures = 1
INVARIANTS
    TypeOK
    RaisedOnlyAfterAbort
    ReturnedStatusIsState
    FailureBudget
PROPERTIES
    Refinement
    FinalStateIsFinal
    RunEnds
\* A run that is over stays over, and a run that was aborted while it waited
\* for approval waits for ever.
CHECK_DEADLOCK FALSE
