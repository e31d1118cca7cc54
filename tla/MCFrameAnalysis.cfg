CONSTANTS
    Collections = {"a", "b"}
    EventsOf <- MCEventsOf
    Thresholds = {1, 2}
    FirstRecords = 3
    MaxRecords = 4
    Analyses <- MCAnalyses
    MaxAnalyses = 2
    PartitionLimit = 2
    MetricsLimit = 1
    None = None
SPECIFICATION Spec
INVARIANTS
    TypeOK
    IndexesComplete
    AnswersExact
CHECK_DEADLOCK FALSE
