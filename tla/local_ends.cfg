\* A run that is scheduled ends, whatever fails and whatever the users do.
CONSTANTS
    a = a
    b = b
    sub = sub
    Root = root
    Journal = journal
    Dirs <- MCDirs
    Files <- OneFile
    Parent <- OneFileParent
    MaxTime = 4
    DayOf <- TwoDays
    OtherDays = {}
    MaxVer = 2
    Faults = {"crash", "dest", "move", "unlink", "read", "open", "dir", "lstat", "link", "write", "close", "tar", "torn"}
    MaxFaults = 1
    OncePerDay = TRUE
    SameDayRuns = FALSE
    FreshStamps = TRUE
SPECIFICATION FairSpec
PROPERTIES EveryRunEnds
CHECK_DEADLOCK FALSE
