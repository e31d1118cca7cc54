SPECIFICATION Spec
CONSTANTS
    Collections = {A, B}
    A = A
    B = B
    FirstRecords = 4
    MaxRecords = 5
    Thresholds <- MCThresholds
    Points <- MCPoints
    EventLists <- MCEventLists
    SweepArguments <- MCSweepArguments
    Truths <- MCTruths
    MinStep = 5
    RebuildThreshold = 5
    Epsilon = 1
    Drift = 2
    SpillSize = 5
INVARIANTS
    TypeOK
    ComparesAsRebuilt
    PairsAsCounted
    SweepsAsRebuilt
    RecordsConserved
PROPERTY SpillsOnce
SYMMETRY CollectionsAlike
CONSTRAINT MixedOnce
