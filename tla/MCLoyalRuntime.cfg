SPECIFICATION FairSpec
CONSTANTS
    NoTool = NoTool
    Shells = {"shell.exec"}
    Externals = {}
    GitTools = {"git.status", "git.diff"}
    Available <- MCAvailable
    Tools <- MCTools
    Verdicts <- MCVerdicts
    Goals <- MCGoals
    Exclusive <- MCExclusive
    PlansFor <- MCPlansFor
    MaxSteps = 5
    MaxToolCalls = 3
    MaxFailures = 1
INVARIANTS
    TypeOK
    RaisedOnlyForHuman
    ReturnedRunIsRemembered
    TrustIsContingent
    MaterialIsDisclosed
PROPERTIES
    DevotedRefinement
    LoyalRunEnds
\* A run that is over stays over.
CHECK_DEADLOCK FALSE
