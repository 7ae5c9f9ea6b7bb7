\* A first backup fails; the same command again skips the directories it finds and exits 0.
CONSTANTS
    a = a
    b = b
    sub = sub
    Root = root
    Journal = journal
    Dirs <- MCDirs
    Files <- OneFile
    Parent <- OneFileParent
    MaxTime = 4
    DayOf <- TwoDays
    OtherDays = {}
    MaxVer = 2
    Faults = {"tar"}
    MaxFaults = 1
    OncePerDay = FALSE
    SameDayRuns = TRUE
    FreshStamps = TRUE
SPECIFICATION Spec
INVARIANTS SnapshotComplete
CHECK_DEADLOCK FALSE
