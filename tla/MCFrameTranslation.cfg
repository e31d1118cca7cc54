CONSTANTS
    Identities = {"k0", "k1", "a", "b"}
    Sources <- MCSources
    RecordsOf <- MCRecordsOf
    IdsOf <- MCIdsOf
    EventsOf <- MCEventsOf
    OnDisk <- MCOnDisk
    Unnamed <- MCUnnamed
    InPlace <- MCInPlace
    Denotes <- MCDenotes
    Names = {"m", "n"}
    IdLimit = 5
    None = None
SPECIFICATION Spec
INVARIANTS
    TypeOK
    CollectionsFaithful
    NeverUndercounts
PROPERTIES
    AddsSucceed
CHECK_DEADLOCK FALSE
