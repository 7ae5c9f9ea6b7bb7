\* The check of the source with a user name longer than "backupfs".
CONSTANTS
    Jobs <- MCJobs
    Chunks = 1
    Cap = 1
    Inherited = {"default"}
    Faults = {}
    MaxSignals = 0
SPECIFICATION Spec
INVARIANT SourceChecked
CHECK_DEADLOCK FALSE
