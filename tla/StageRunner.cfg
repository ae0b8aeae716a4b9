SPECIFICATION FairSpec
CONSTANTS
    a = a  b = b
    Domain = Domain
    Value = {a, b}
    NoFile = NoFile
    None = None
    Unset = Unset
    Option <- MCOption
    Concurrency = 2
    MaxRetries = 2
    Second = {1, 2}
    Prints <- MCPrints
INVARIANTS
    TypeOK
    PermitsAreKept
    InputIsComplete
    ReportAddsUp
PROPERTIES
    SuccessIsTheLastAttempt
    EngineEnds
CHECK_DEADLOCK FALSE
