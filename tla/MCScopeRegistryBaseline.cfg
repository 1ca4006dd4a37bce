SPECIFICATION Spec
CONSTANTS
    Rows <- BaselineRows
    Processes = {"command"}
    Services = {}
    Concurrency <- MCConcurrency
    Calls <- BaselineCalls
    PurgeRequests = {}
    RegistryFlushEvery = 2
    MaxFailures = 0
    MaxPurges = 0
    NoDoc = NoDoc
INVARIANTS
    NavigationExact
