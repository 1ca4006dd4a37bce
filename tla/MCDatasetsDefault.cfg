SPECIFICATION Spec
CONSTANTS
    Commands = {shell}
    Threads = {}
    Lines <- MCLines
    Settings <- MCBoth
    Ratios <- MCOneRatio
    Place <- MCPlace
    TrainSize <- MCTrainSize
    MaxCalls = 2
    MaxKills = 0
INVARIANTS
    TestIsUnseen
