SPECIFICATION ReplaySpec
CONSTANTS
    NoType = NoType
    Type <- MCType
    EventType <- MCEventType
    Fn <- MCFn
    Name <- MCName
    Shape <- MCShape
    Doc <- MCDoc
    Pairs <- AllPairs
    Configs <- AllConfigs
    Depth = 4
INVARIANTS
    NothingMissed
    VerdictExact
    MigrationsHonest
    SampledDataDecodes
PROPERTY
    ImplementsPromise
CHECK_DEADLOCK FALSE
