CONSTANTS
    Events = {"short", "long"}
    Readers = {"r"}
    Size <- MCSize
    MaxPushes = 4
    None = None
SPECIFICATION FairSpec
INVARIANTS
    TypeOK
    PositionsLocateRecords
PROPERTIES
    ImplementsStorage
    ItersEnd
CHECK_DEADLOCK FALSE
