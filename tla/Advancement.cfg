SPECIFICATION FairSpec
CONSTANTS
    MaxHead = 2
    MaxBase = 2
    Scenarios <- Lives
CHECK_DEADLOCK FALSE
INVARIANTS
    AppliedHappened
PROPERTIES
    MergedIsReviewed
    
