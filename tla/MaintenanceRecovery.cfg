CONSTANTS
    q1 = q1
    q2 = q2
    f1 = f1
    f2 = f2
    w1 = w1
    w2 = w2
    MaintenanceWorkers <- OneWorker
    DeterministicLimit = 2
    Backoff = 1
    HealthySamples = 2
    MaxEpochsPerDay = 1
    Day = 1
    NoPull = NoPull
    Request <- OneRequest
    Fault <- OneFault
    Identity <- SameFault
    Nothing = Nothing
    Replacing <- OneRequest
    MaxTime = 2
    MaxRevision = 1
    MaxGeneration = 1
    MaxEpoch = 2
    MaxHead = 2
    MaxPulls = 1
    RunMayFail = TRUE
    PullsClose = TRUE
SPECIFICATION FairRecoverySpec
INVARIANTS EpochsWithinBudget WorkerStartedOnce RecoveredIsProven
PROPERTIES ReleaseIsProven 
CHECK_DEADLOCK FALSE
