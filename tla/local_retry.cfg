\* Several runs a day, each over before midnight; at most one fault, which is not lost sight of.
CONSTANTS
    a = a
    b = b
    sub = sub
    Root = root
    Journal = journal
    Dirs <- MCDirs
    Files <- MCFiles
    Parent <- MCParent
    MaxTime = 4
    DayOf <- TwoDays
    OtherDays = {}
    MaxVer = 2
    Faults = {"dest", "move", "unlink", "read", "open", "dir", "lstat", "link", "write", "tar"}
    MaxFaults = 1
    OncePerDay = FALSE
    SameDayRuns = TRUE
    FreshStamps = TRUE
SPECIFICATION Spec
INVARIANTS FirstInv FirstRunComplete NextRunCanLink NoFalseRefusal
CHECK_DEADLOCK FALSE
