SPECIFICATION Spec
CONSTANTS
    a = a  b = b  c = c  a2 = a2
    sA = sA  sB = sB  sC = sC
    fA = fA  fB = fB
    h1 = h1  h2 = h2  w1 = w1  w2 = w2
    Master = master
    Task = {a, b, c}
    Step = {sA, sB, sC}
    StepOf <- ChainStepOf
    DependsOn <- ChainDeps
    FindingType = {fA, fB}
    WhenFinding <- GateOnC
    Plan <- ChainPlan
    Worker = {w1}
    Handler = {h1}
    WorkerOf <- OneHandler
    Concurrency = 1
    Capable <- CMissing
    Deniable = {b}
    BadParams = {}
    Consumes <- BConsumes
    Yields <- ABYield
    MaxAttempts = 2
    MaxFailures = 1
    MaxCrashes = 1
    MaxEarly = 1
    MaxEntries = 4
INVARIANTS
    DispatchedIsSent
    DependenciesFirst
    ClosedIsSettled
    AbortedHasCause
    GateBeforeDispatch
PROPERTIES
    OutcomeIsFinal
    ImplementsLifecycle
CHECK_DEADLOCK FALSE
