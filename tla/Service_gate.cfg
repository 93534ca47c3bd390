\* Two requests to one host through one gate that admits one at a time, onto one
\* worker; workers may hang for ever.
CONSTANTS
    Requests = {r1, r2}
    ClientIds = {id1}
    Unusable = Unusable
    Dot = dot
    HostOf <- SameHost
    GateOf <- OneGate
    MaxPerHost = 1
    MaxWorkers = 1
    NoOne = NoOne
    NoUrl = NoUrl
    Targets <- SomeTargets
    Proxies <- NoProxies
    host1 = host1
    gate = gate
SPECIFICATION LoopFairSpec
CHECK_DEADLOCK FALSE
PROPERTIES
    EveryoneAnswered
    EverythingReturned
