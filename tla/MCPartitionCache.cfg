CONSTANTS
    c1 = c1
    c2 = c2
    None = None
    Callers = {c1, c2}
    Fine = 3
    One = 9
    FirstRecords = 2
    MaxRecords = 3
    Thresholds <- MCThresholds
    Sweeps <- MCSweeps
    EventThresholds <- MCEventThresholds
SPECIFICATION FairSpec
INVARIANTS
    TypeOK
    CachedAsReconstructed
PROPERTIES
    ImplementsPartitions
    CallsEnd
CHECK_DEADLOCK FALSE
