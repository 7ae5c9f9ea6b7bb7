\* Every failure of a call, a pass or a host; a run may last past midnight.
CONSTANTS
    a = a
    b = b
    sub = sub
    Root = root
    Journal = journal
    Dirs <- MCDirs
    Files <- OneFile
    Parent <- OneFileParent
    MaxTime = 4
    Lead = 0
    DayOf <- ThreeDays
    MaxVer = 3
    Faults = {"dest", "open", "move", "unlink", "read", "dir", "lstat", "write", "close", "reply", "mkdir", "link", "pass", "tar", "torn", "crash"}
    MaxFaults = 2
    SameDayRuns = FALSE
SPECIFICATION Spec
INVARIANTS TypeOK RemoteInv JournalSound NoStaleEntry JournalPreserved
PROPERTIES WriteOnceDumps
CHECK_DEADLOCK FALSE
