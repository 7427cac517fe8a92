\* One job, two processes whose attempts may outlive their leases, two crashes:
\* enough for a job to be lost, taken over, cancelled and brought back.
CONSTANTS
    j1 = j1
    w1 = w1
    w2 = w2
    Jobs = {j1}
    HttpJobs = {j1}
    Procs = {w1, w2}
    WorkerIds = {w1, w2}
    WorkerId <- OwnId
    MaxAttempts <- TwoAttempts
    LeaseTicks = 1
    RunTicks = 2
    RetryTicks = 1
    SlowWorkers = TRUE
    AttemptCap = 5
    CrashCap = 2
    None = None
SPECIFICATION Spec
SYMMETRY ProcSymmetry
INVARIANTS TypeOK Inv NoLeaseStolen OutputOfLatestAttempt RetryBudget
PROPERTIES UnownedCancelIsFinal ImplementsTable
