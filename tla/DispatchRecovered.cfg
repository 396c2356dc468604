SPECIFICATION FairWorkerSpec
CONSTANTS
    Issues <- MCIssues
    Versions <- MCVersions
    DeclarationOf <- MCDeclarationOf
    Limit = 1
    MaxBatch = 2
    RecoveryLimit = 1
    MaxBase = 2
    Scenarios <- MCFailing
PROPERTY RecoveredIsRun
