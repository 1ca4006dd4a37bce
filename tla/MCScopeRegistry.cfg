SPECIFICATION FairSpec
CONSTANTS
    Rows <- MCRows
    Processes = {"command", "service"}
    Services = {"service"}
    Concurrency <- MCConcurrency
    Calls <- MCCalls
    PurgeRequests <- MCPurges
    RegistryFlushEvery = 2
    MaxFailures = 1
    MaxPurges = 2
    NoDoc = NoDoc
INVARIANTS
    TypeOK
    NeverOvercounts
    NavigationExact
    BufferBounded
PROPERTIES
    CatchesUp
