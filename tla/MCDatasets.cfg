SPECIFICATION Spec
CONSTANTS
    Commands = {shell}
    Threads = {get, post}
    Lines <- MCLines
    Settings <- MCSettings
    Ratios <- MCRatios
    Place <- MCPlace
    TrainSize <- MCTrainSize
    MaxCalls = 3
    MaxKills = 1
INVARIANTS
    NoLeak
    CoverageIsExact
    CutOnlyByKill
