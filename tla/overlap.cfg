\* Two runs on the two days after a complete one, or on the first two.
CONSTANTS
    Runs = {r1, r2}
    b = b
    sub = sub
    Root = root
    Journal = journal
    Before = before
    Files <- OneFile
    Dirs <- MCDirs
    Parent <- OneFileParent
    MaxDay = 3
    MaxVer = 3
SYMMETRY Interchangeable
SPECIFICATION Spec
INVARIANTS TypeOK JournalSound RunsComplete JournalLeft OverlapInv
CHECK_DEADLOCK FALSE
