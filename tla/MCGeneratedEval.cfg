SPECIFICATION FairSpec
CONSTANTS
    NQuestions = 2
    Valid = {1, 2}
    Evaluators = {"w1", "w2"}
    Slice <- MCSlice
    Concurrency = 2
    Baseliners = {}
    Builders = {}
    Answers = {a1, a2}
    Verdicts = {"supported"}
    PurgeRequests <- OwnPurges
    PurgeInFlight = FALSE
    MaxFailures = 2
    MaxPurges = 2
    NoRow = NoRow
    NoTask = NoTask
INVARIANTS
    TypeOK
    VerdictAboutAnswer
PROPERTIES
    RowsWriteOnce
    ScopeCompletes
