SPECIFICATION FairSpec
CONSTANTS
    x = x  y = y  z = z
    host = host  port = port
    b1 = b1  b2 = b2  b1again = b1again  b3 = b3  b4 = b4
    s1 = s1  s2 = s2
    Scan = {s1, s2}
    Fingerprint = {x, y, z}
    FindingType = {host, port}
    TypeOf <- MCTypeOf
    Batch = {b1, b2, b1again, b3, b4}
    ScanOf <- MCScanOf
    Found <- MCFound
    MaxFailures = 1
INVARIANTS
    SomeoneSawItNew
PROPERTIES
    RecordsLikeTable
    BatchIsAtomic
    EveryBatchReturns
CHECK_DEADLOCK FALSE
