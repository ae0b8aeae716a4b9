SPECIFICATION FairSpec
CONSTANTS
    a = a  b = b  c = c  a2 = a2
    sA = sA  sB = sB  sC = sC
    fA = fA  fB = fB
    h1 = h1  h2 = h2  w1 = w1  w2 = w2
    Master = master
    Task = {a}
    Step = {sA}
    StepOf <- LoneStepOf
    DependsOn <- LoneDeps
    FindingType = {fA}
    WhenFinding <- NoGate
    Plan <- LonePlan
    Worker = {w1, w2}
    Handler = {h1, h2}
    WorkerOf <- OnePerWorker
    Concurrency = 1
    Capable <- AllCapable
    Deniable = {}
    BadParams = {}
    Consumes <- NoTypes
    Yields <- NoTypes
    MaxAttempts = 2
    MaxFailures = 1
    MaxCrashes = 1
    MaxEarly = 0
    MaxEntries = 9
INVARIANTS
    NoTaskLost
PROPERTIES
    SentIsDecided
    RunningIsClosed
CHECK_DEADLOCK FALSE
