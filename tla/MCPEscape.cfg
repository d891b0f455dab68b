SPECIFICATION FairSpec
CONSTANTS
    a1 = a1
    a2 = a2
    Discovery = discovery
    Agents <- OneAgent
    Chatter <- MCChatter
    MayDie = FALSE
    MaxCalls = 4
    MaxOut = 2
INVARIANT CallsNeverRaise
\* A registry that is closed, with no call under way, stays as it is.
CHECK_DEADLOCK FALSE
