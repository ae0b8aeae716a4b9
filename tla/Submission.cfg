SPECIFICATION FairSpec
CONSTANTS
    a = a  b = b  c = c
    x = x  y = y  meta = meta
    plain = plain  url = url  other = other
    blocked = blocked  invalid = invalid  starred = starred
    Name = {a, b, c}
    File <- MCFile
    Raw = {plain, url, other, blocked, invalid, starred}
    Host = {x, y, meta}
    HostOf <- MCHostOf
    Raising = {starred}
    HardBlocked = {meta}
    Row <- MCRow
    Request <- MCRequest
    Policy <- MCPolicy
INVARIANTS
    AcceptedCanRun
    CyclicCannotRun
    PlanIsExact
    PlanInOrder
PROPERTIES
    RequestEnds
CHECK_DEADLOCK FALSE
