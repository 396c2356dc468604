SPECIFICATION FairRoleSpec
CONSTANTS
    w1 = w1
    w2 = w2
    g = g
    h = h
    s1 = s1
    s2 = s2
    r1 = r1
    r2 = r2
    c1 = c1
    null = null
    Config = {c1}
    Worker = {w1, w2}
    Group = {g, h}
    Provider = {}
    Model = {}
    Absent = null
    WorkerIdentity <- MCWorkerIdentity
    CooldownLimit <- MCCooldownLimit
    InferredLimit = 1
    DefaultCooldown = 1
    ProbeLease = 1
    Session = {s1, s2}
    Observed <- MCRejectedFailures
    MaxTime = 1
    MaxGeneration = 20
    Request = {r1, r2}
    Candidates <- MCCandidates
    MaxDeliveries <- MCOneDelivery
    MaxFailureGeneration = 1
PROPERTIES
    ExecutionEnds
CHECK_DEADLOCK FALSE
