SPECIFICATION Spec
CONSTANTS
    Ids = {m1, m2}
    Clients = {a, b}
    None = None
    Provenances <- MCProvenances
    AutoAcceptable <- MCAutoAcceptable
    MaxCrashes = 1
INVARIANTS
    TrustFollowsProvenance
    ReportedIsDurable
    DeletedStaysDeleted
    QuietRecordsAreIndexed
SYMMETRY MCSymmetry
\* When every record was deleted there is nothing left to do.
CHECK_DEADLOCK FALSE
