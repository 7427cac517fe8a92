\* README.md:69: a late failure of the owner brings a cancelled job back.
CONSTANTS
    j1 = j1
    w1 = w1
    w2 = w2
    Jobs = {j1}
    HttpJobs = {j1}
    Procs = {w1, w2}
    WorkerIds = {w1, w2}
    WorkerId <- OwnId
    MaxAttempts <- TwoAttempts
    LeaseTicks = 1
    RunTicks = 1
    RetryTicks = 1
    SlowWorkers = TRUE
    AttemptCap = 3
    CrashCap = 1
    None = None
SPECIFICATION Spec
PROPERTIES CancelIsFinal
