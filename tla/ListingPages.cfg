SPECIFICATION ListingSpec
CONSTANTS
    Op = {1, 2, 3}
    Limit = 1
    MaxNow = 2
    MaxId = 3
INVARIANTS
    ListingTypeOK
    ListedOnce
    SweepIsComplete
    HistoryIsPrefix
CHECK_DEADLOCK FALSE
