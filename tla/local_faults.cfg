\* Every failure of a system call or a process, one run a day; a run may last past midnight.
CONSTANTS
    a = a
    b = b
    sub = sub
    Root = root
    Journal = journal
    Dirs <- MCDirs
    Files <- OneFile
    Parent <- OneFileParent
    MaxTime = 4
    DayOf <- ThreeDays
    OtherDays = {2}
    MaxVer = 3
    Faults = {"crash", "dest", "move", "unlink", "read", "open", "dir", "lstat", "link", "write", "close", "tar"}
    MaxFaults = 2
    OncePerDay = TRUE
    SameDayRuns = FALSE
    FreshStamps = TRUE
SPECIFICATION Spec
INVARIANTS TypeOK JournalSound JournalInv SnapshotComplete JournalPreserved
PROPERTIES WriteOnceDumps
CHECK_DEADLOCK FALSE
