SPECIFICATION Spec
CONSTANTS
    w1 = w1
    g = g
    s1 = s1
    s2 = s2
    c1 = c1
    c2 = c2
    null = null
    Config = {c1, c2}
    Worker = {w1}
    Group = {g}
    Provider = {}
    Model = {}
    Absent = null
    WorkerIdentity <- MCWorkerIdentity
    CooldownLimit <- MCCooldownLimit
    InferredLimit = 1
    DefaultCooldown = 1
    ProbeLease = 1
    Session = {s1, s2}
    Observed <- MCFailures
    MaxTime = 3
    MaxGeneration = 3
SYMMETRY Sessions
INVARIANTS
    TypeOK
    LeaseFencedByGeneration
    OneCompleter
    UnavailabilityBounded
PROPERTIES
    SettledTogether
    GenerationMonotone
    
CHECK_DEADLOCK FALSE
