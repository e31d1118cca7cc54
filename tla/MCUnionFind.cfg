CONSTANTS
    Size = 8
    RankLimit = 4
SPECIFICATION PairsSpec
INVARIANTS
    TypeOK
    RanksGrowUpwards
    RankNeedsElements
PROPERTIES
    RanksNeverFall
    AnswersAsRootMap
    CallsReturn
