SPECIFICATION FairSpec
CONSTANTS
    NExamples = 2
    Truth <- MCTruth
    Workers = {"w1", "w2"}
    Builders = {}
    Slice <- MCSlice
    ClaimSignals = {"contested"}
    Settings = {"shipped", "other"}
    Status <- MCStatus
    OldRows = {}
    PurgeScopes = {"fusion", "signals"}
    MaxInterrupts = 1
    MaxPurges = 2
    NoRow = NoRow
    OldFormat = OldFormat
    NoSignals = NoSignals
    NoMatrix = NoMatrix
INVARIANTS
    TypeOK
    ReplayAgrees
    FusionPurgeIsFree
PROPERTIES
    PredictionsWriteOnce
    SignalsWriteOnce
    ScopeCompletes
