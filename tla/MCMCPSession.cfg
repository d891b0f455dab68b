SPECIFICATION FairSpec
CONSTANTS
    a1 = a1
    a2 = a2
    Discovery = discovery
    Agents <- TwoAgents
    Chatter <- MCChatter
    MayDie = TRUE
    MaxCalls = 5
    MaxOut = 2
INVARIANTS
    AnswersOwnRequest
    OneOutstanding
    WaiterIsRegistered
PROPERTY CallsEnd
\* A registry that is closed, with no call under way, stays as it is.
CHECK_DEADLOCK FALSE
