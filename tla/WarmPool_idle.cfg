\* What the README says of the idle TTL, against the refill that follows a reap.
CONSTANTS
    Spares = {s1, s2}
    Requests = {r1}
    Fingerprints = {f1}
    Refused = {}
    IdleTtl = 1
    MinRefill = 1
    PressureRetry = 1
    NoSpare = NoSpare
    NoFp = NoFp
SPECIFICATION FairSpec
PROPERTY IdleServiceHoldsNoChromium
