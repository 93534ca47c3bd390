\* The per-host limit with the gates the service builds.
CONSTANTS
    Requests = {r1, r2}
    ClientIds = {id1}
    Unusable = Unusable
    Dot = dot
    HostOf <- SameHost
    GateOf <- GatePerRequest
    MaxPerHost = 1
    MaxWorkers = 2
    NoOne = NoOne
    NoUrl = NoUrl
    Targets <- OneTarget
    Proxies <- NoProxies
    host1 = host1
    gate = gate
SPECIFICATION Spec
CHECK_DEADLOCK FALSE
INVARIANTS
    HostLimit
