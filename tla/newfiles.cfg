\* Three days with two changes of the clock, two of the files.
CONSTANTS
    Files <- MCFiles
    JPath <- MCJPath
    NotRegular <- MCNotRegular
    StampOf <- MCStampOf
    WalkOrder <- MCWalkOrder
    DayOf <- MCDayOf
    Hours24 = 2
    MaxFiles = 2
SPECIFICATION Spec
INVARIANTS TypeOK LastDayFound ReadBack ReportRight HiddenByPrefix ChangeHidden
CHECK_DEADLOCK FALSE
