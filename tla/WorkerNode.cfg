SPECIFICATION FairSpec
CONSTANTS
    h1 = h1  h2 = h2  main = main  child = child
    u1 = u1  u2 = u2  u3 = u3
    Unit = 3
    Rate = 2
    Capacity = 4
    Process = {main, child}
    Leader = main
    Candidate = {u1, u2, u3}
    Injectable = {u1, u2}
    MaxUrls = 1
    Foreign = Foreign
    Handler = {h1, h2}
    Free = Free
    Job <- MCJob
    MaxTasks = 3
INVARIANTS
    TypeOK
    OobIsKept
PROPERTIES
    RateIsKept
    HandlersReturn
CHECK_DEADLOCK FALSE
