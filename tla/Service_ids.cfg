\* Two requests, with the one client id or with ids of their own, each with a
\* gate of its own, a worker each.
CONSTANTS
    Requests = {r1, r2}
    ClientIds = {id1, dot}
    Unusable = Unusable
    Dot = dot
    HostOf <- SameHost
    GateOf <- GatePerRequest
    MaxPerHost = 1
    MaxWorkers = 2
    NoOne = NoOne
    NoUrl = NoUrl
    Targets <- SomeTargets
    Proxies <- SomeProxies
    host1 = host1
    gate = gate
SPECIFICATION Spec
SYMMETRY Interchangeable
CHECK_DEADLOCK FALSE
INVARIANTS
    TypeOK
    ClosedOnce
    QueueTimeoutMeansNoBrowser
PROPERTIES
    ProfileIsolated
    GuardTruthful
    CollisionIsReal
    ImplementsContract
