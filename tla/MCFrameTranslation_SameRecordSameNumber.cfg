CONSTANTS
    Identities = {"k0", "k1", "a", "b"}
    Sources <- MCSources
    RecordsOf <- MCRecordsOf
    IdsOf <- MCIdsOf
    EventsOf <- MCEventsOf
    OnDisk <- MCOnDisk
    Unnamed <- MCUnnamed
    InPlace <- MCInPlace
    Denotes <- MCDenotes
    Names = {"m", "n"}
    IdLimit = 5
    None = None
SPECIFICATION Spec
INVARIANT
    SameRecordSameNumber
CHECK_DEADLOCK FALSE
