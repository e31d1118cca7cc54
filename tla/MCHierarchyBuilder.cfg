CONSTANTS
    NumRecords = 4
    Levels = 2
    MaxEdges = 4
    DiskBacked = TRUE
    CheckFloor = 2
    CheckEvery = 2
    Thresholds <- MCThresholds
    EdgeLists <- MCEdgeLists
SPECIFICATION Spec
INVARIANTS
    TypeOK
    BitmapsAreComponents
    ClassesAreComponents
    EventsReproduceEdges
    EventsDescending
    BuildsHierarchy
PROPERTIES
    ImplementsSingleLinkage
CHECK_DEADLOCK FALSE
