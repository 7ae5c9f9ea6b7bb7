\* Every pass, every failure of the pipeline, ^C at any moment, SIGCHLD ignored or not.
CONSTANTS
    Jobs <- MCJobs
    Chunks = 3
    Cap = 1
    Inherited = {"default", "ignore"}
    Faults = {"sigaction", "pipe", "fork", "exec", "command"}
    MaxSignals = 2
SPECIFICATION Spec
INVARIANTS TypeOK PassedMeansAllRead EndsInPlace NoChildLeft InterruptWorks FarAsMeant
PROPERTY CallEnds
CHECK_DEADLOCK FALSE
