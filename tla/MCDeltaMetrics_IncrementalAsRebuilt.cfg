SPECIFICATION Spec
CONSTANTS
    Collections = {A, B}
    A = A
    B = B
    FirstRecords = 4
    MaxRecords = 4
    Thresholds <- MCThresholds
    Points <- MCPoints
    EventLists <- MCEventLists
    SweepArguments <- MCSweepArguments
    Truths <- MCTruths
    MinStep = 5
    RebuildThreshold = 5
    Epsilon = 0
    Drift = 0
    SpillSize = 100
INVARIANT IncrementalAsRebuilt
SYMMETRY CollectionsAlike
CONSTRAINT MixedOnce
