SPECIFICATION Spec
CONSTANTS
    None = None
    dep = dep
    Dependency <- DependencyValue
    Body <- Bodies
    IssueVersion <- Versions
    FirstIssue <- OpenedIssue
    Claimant = {a1, a2}
    Run = {r1, r2, r3}
    PullRequest = {p1}
    Lease = {2}
    MaxTime = 2
    JobLimit = 2
    MaxChanges = 2
    MaxStrays = 1
SYMMETRY Interchangeable
INVARIANTS
    OneClaimComment
    TaskExclusive
    HeldClaimPublished
    DuplicatesFailClosed
PROPERTIES
    AcquiredReadyTask
CHECK_DEADLOCK FALSE
