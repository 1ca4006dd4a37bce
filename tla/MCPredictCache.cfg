SPECIFICATION FairSpec
CONSTANTS
    Keys = {"q1"}
    Requests = {"r1", "r2"}
    On <- MCOn
    Tags <- MCTags
    Size <- MCSize
    Demands <- MCDemands
    Pannes = {FALSE}
    NoSize = NoSize
    NoEntry = NoEntry
    OldPayload = OldPayload
INVARIANTS
    TypeOK
    OriginIsReal
    ServedIsWorthy
PROPERTIES
    ComputedIsAnswered
    PushServes
