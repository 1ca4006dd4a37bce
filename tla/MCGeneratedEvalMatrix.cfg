SPECIFICATION Spec
CONSTANTS
    NQuestions = 2
    Valid = {1, 2}
    Evaluators = {"w1"}
    Slice <- MCSlice
    Concurrency = 1
    Baseliners = {"b"}
    Builders = {"m"}
    Answers = {a1, a2}
    Verdicts = {"supported"}
    PurgeRequests <- OwnPurges
    PurgeInFlight = FALSE
    MaxFailures = 0
    MaxPurges = 1
    NoRow = NoRow
    NoTask = NoTask
INVARIANTS
    MatrixComparesOneAnswer
