CONSTANTS
    a = a
    b = b
    NoId = NoId
    NumThreads = 3
    Threads <- MCThreads
    Records = {a, b}
    FirstSource = {a}
    Sources = {"first", "second"}
    MaxKeys = 4
    IdLimit = 4
    SourceOf <- MCSourceOf
    Batches <- MCBatches
SPECIFICATION FairSpec
INVARIANTS
    TypeOK
    PushedOnce
    SourceIndexMatchesMap
    CopyHandsOutFreshIds
PROPERTIES
    InternsOnce
    AllStored
CHECK_DEADLOCK FALSE
