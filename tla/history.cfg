\* Four years of two months of two days; one year too far back to be looked at.
CONSTANTS
    ThisYear = 4
    FirstYear = 1
    LastMonth = 1
    LastDay = 2
    Nyears = 2
    MaxDumps = 3
SPECIFICATION Spec
INVARIANTS TypeOK HistoryRight
PROPERTY HistoryEnds
CHECK_DEADLOCK FALSE
