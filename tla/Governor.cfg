SPECIFICATION GovernorSpec
CONSTANTS
    Plans <- EveryPlan
    Limit <- OneEach
    MaxDeaths = 1
INVARIANTS
    
    
    PauseIsEarned
    AdmissionIsIndependent
PROPERTIES
    AppliedIsFinal
    
CHECK_DEADLOCK FALSE
