SPECIFICATION Spec
CONSTANTS
    NQuestions = 2
    Valid = {1, 2}
    Evaluators = {"w1"}
    Slice <- MCSlice
    Concurrency = 2
    Baseliners = {}
    Builders = {}
    Answers = {a1, a2}
    Verdicts = {"supported"}
    PurgeRequests <- OtherDataset
    PurgeInFlight = FALSE
    MaxFailures = 1
    MaxPurges = 1
    NoRow = NoRow
    NoTask = NoTask
INVARIANTS
    VerdictAboutAnswer
