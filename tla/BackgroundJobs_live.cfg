\* Liveness under fair workers that keep within their leases: one crash, and a
\* job that a built-in worker can only fail.
CONSTANTS
    j1 = j1
    j2 = j2
    w1 = w1
    w2 = w2
    Jobs = {j1, j2}
    HttpJobs = {j1}
    Procs = {w1, w2}
    WorkerIds = {w1, w2}
    WorkerId <- OwnId
    MaxAttempts <- TwoAttempts
    LeaseTicks = 1
    RunTicks = 1
    RetryTicks = 1
    SlowWorkers = FALSE
    AttemptCap = 4
    CrashCap = 1
    None = None
SPECIFICATION FairSpec
PROPERTIES JobsSettle
