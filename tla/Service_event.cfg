\* The terminal event of every scrape.
CONSTANTS
    Requests = {r1, r2}
    ClientIds = {id1}
    Unusable = Unusable
    Dot = dot
    HostOf <- SameHost
    GateOf <- OneGate
    MaxPerHost = 1
    MaxWorkers = 2
    NoOne = NoOne
    NoUrl = NoUrl
    Targets <- OneTarget
    Proxies <- NoProxies
    host1 = host1
    gate = gate
SPECIFICATION Spec
CHECK_DEADLOCK FALSE
INVARIANTS
    OneTerminalEvent
