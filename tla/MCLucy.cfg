SPECIFICATION FairSpec
CONSTANTS
    Aligned = {1, 2}
    Capacity = 2
    Simulations = 1
    Blame <- MCBlame
    Tones = {"plain", "possessive"}
    MaxTold = 2
    MaxRuns = 3
    MaxApproved = 1
    MaxSessions = 2
INVARIANTS
    TypeOK
    ConfidenceIsEarned
    DreamsMatchTraining
    LivedOnce
    ReviewShowsWhatItJudges
    LedgerAgrees
PROPERTIES
    BackToPrompt
\* The last session may be over.
CHECK_DEADLOCK FALSE
