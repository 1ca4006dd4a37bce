SPECIFICATION Spec
CONSTANTS
    NExamples = 2
    Truth <- MCTruth
    Workers = {"w1", "w2"}
    Builders = {"b"}
    Slice <- MCSlice
    ClaimSignals = {"wrong"}
    Settings = {"shipped"}
    Status <- MCStatus
    OldRows = {}
    PurgeScopes = {"fusion", "matrices"}
    MaxInterrupts = 1
    MaxPurges = 1
    NoRow = NoRow
    OldFormat = OldFormat
    NoSignals = NoSignals
    NoMatrix = NoMatrix
PROPERTIES
    MatrixIsSnapshot
