SPECIFICATION FairSpec
CONSTANTS
    a = a  b = b  c = c  a2 = a2
    sA = sA  sB = sB  sC = sC
    fA = fA  fB = fB
    h1 = h1  h2 = h2  w1 = w1  w2 = w2
    Master = master
    Task = {a, a2, b}
    Step = {sA, sB}
    StepOf <- FanStepOf
    DependsOn <- PairDeps
    FindingType = {fA}
    WhenFinding <- NoGate
    Plan <- FanPlan
    Worker = {w1, w2}
    Handler = {h1, h2}
    WorkerOf <- OnePerWorker
    Concurrency = 1
    Capable <- AllCapable
    Deniable = {}
    BadParams = {a2}
    Consumes <- NoTypes
    Yields <- NoTypes
    MaxAttempts = 2
    MaxFailures = 2
    MaxCrashes = 0
    MaxEarly = 0
    MaxEntries = 9
PROPERTIES
    RunningIsClosedIfPlanned
CHECK_DEADLOCK FALSE
