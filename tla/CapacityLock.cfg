CONSTANTS
    p1 = p1
    p2 = p2
    p3 = p3
    earlier = earlier
    Process <- ThreeProcesses
    Appends <- OneProcess
    Mortal <- TwoProcesses
    Gone <- ThirdProcess
    Earlier <- OneAttempt
    Nobody = Nobody
    MaxTime = 2
    LeaseTime = 1
    Threshold = 2
    MaxAttempts = 4
    Unverifiable = TRUE
    ListingFails = FALSE
SPECIFICATION LockSpec
 
PROPERTIES ImplementsLock LockIsFreed
CHECK_DEADLOCK FALSE
