SPECIFICATION MCSpec
CONSTANTS
    MaxItems = 3
    WorkerChoices <- MCWorkerChoices
    Lives <- MCLives
    Margin = 1
    MaxDelay = 1
    MaxTime = 3
INVARIANTS
    IInv
    NoDeadToken
    OneModel
PROPERTIES
    CancelOnlyUnstarted
    Terminates
    ImplementsOrderedMap
