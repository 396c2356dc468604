SPECIFICATION FairSpec
CONSTANTS
    MaxHead = 1
    MaxBase = 1
    Scenarios <- Fails
CHECK_DEADLOCK FALSE
PROPERTIES
    RecoveredIsLanded
