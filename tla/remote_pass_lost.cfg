\* PASS3 or PASS4 fails after the journal is final: the next run links nothing and reports no failure.
CONSTANTS
    a = a
    b = b
    sub = sub
    Root = root
    Journal = journal
    Dirs <- MCDirs
    Files <- OneFile
    Parent <- OneFileParent
    MaxTime = 4
    Lead = 0
    DayOf <- TwoDays
    MaxVer = 2
    Faults = {"pass"}
    MaxFaults = 1
    SameDayRuns = TRUE
SPECIFICATION Spec
INVARIANTS SnapshotComplete
CHECK_DEADLOCK FALSE
