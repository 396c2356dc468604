SPECIFICATION RepairSpec
CONSTANTS
    MaxHead = 2
    MaxAttempt = 3
    CiLimit = 1
    RecoveryLimit = 1
    Scenarios <- MCScenarios
INVARIANTS
    CompleteIsHandedOn
    RunningIsInterrupted
    EndedIsCharged
PROPERTIES
    EndedRepairStays
CHECK_DEADLOCK FALSE
