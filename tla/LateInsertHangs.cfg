SPECIFICATION FairSpec
CONSTANTS
    a = a  b = b  c = c  a2 = a2
    sA = sA  sB = sB  sC = sC
    fA = fA  fB = fB
    h1 = h1  h2 = h2  w1 = w1  w2 = w2
    Master = master
    Task = {a, b}
    Step = {sA, sB}
    StepOf <- PairStepOf
    DependsOn <- PairDeps
    FindingType = {fA}
    WhenFinding <- NoGate
    Plan <- PairPlan
    Worker = {w1}
    Handler = {h1}
    WorkerOf <- OneHandler
    Concurrency = 1
    Capable <- AllCapable
    Deniable = {}
    BadParams = {}
    Consumes <- NoTypes
    Yields <- NoTypes
    MaxAttempts = 1
    MaxFailures = 1
    MaxCrashes = 0
    MaxEarly = 0
    MaxEntries = 8
PROPERTIES
    RunningIsClosed
CHECK_DEADLOCK FALSE
