\* Failures before the journal is final, and retries on the same day; no run lasts past midnight.
CONSTANTS
    a = a
    b = b
    sub = sub
    Root = root
    Journal = journal
    Dirs <- MCDirs
    Files <- MCFiles
    Parent <- MCParent
    MaxTime = 4
    Lead = 0
    DayOf <- TwoDays
    MaxVer = 2
    Faults = {"dest", "empty", "open", "move", "read", "dir", "lstat", "write"}
    MaxFaults = 2
    SameDayRuns = TRUE
SPECIFICATION Spec
INVARIANTS SnapshotComplete SnapInv
CHECK_DEADLOCK FALSE
