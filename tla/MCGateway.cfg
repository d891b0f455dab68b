SPECIFICATION Spec
CONSTANTS
    Unread = Unread
    NoTarget = NoTarget
    NoSnapshot = NoSnapshot
    Clients = {c1, c2}
    MaxRequests = 2
    Window = 3
    Milli = 2
    Config <- MCConfig
    Requests <- MCRequests
    Local = {"local_lucy"}
    MaxTime = 4
    MaxServed = 4
    MaxTasks = 1
    MaxStarts = 2
INVARIANTS
    LimiterKeepsItsWord
    ChatsAreGated
\* The clock and the requests are bounded.
CHECK_DEADLOCK FALSE
