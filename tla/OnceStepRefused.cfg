SPECIFICATION Spec
CONSTANTS
    live = live  dead = dead
    ip = ip  tcp = tcp  page = page  app = app  t1 = t1  t2 = t2
    Target = {t1, t2}
    Name = {live, dead}
    Address = {ip}
    Port = {tcp}
    Url = {page, app}
    Namespace <- MCNamespace
    HostOf <- MCHostOf
    AddressOf <- MCAddressOf
    Resolves = {live}
    Open <- MCOpen
    RiskyPort = {tcp}
    WithQuery = {app}
    Script = {page}
    WordPress = {page}
    Blocked = {app}
    Login = {app}
    Api = {app}
    Param = {"targets", "depth", "timeout_min", "message"}
    Request <- ReconRequest
    Lacking = {"massdns", "nmap"}
    MaxAttempts = 2
    MaxCrashes = 1
INVARIANTS
    StepsAccepted
CHECK_DEADLOCK FALSE
