\* One request at a time, scraping again and again, at times with a fingerprint
\* that the headless_only gate turns away; the pool may be shut down.
CONSTANTS
    Spares = {s1, s2}
    Requests = {r1}
    Fingerprints = {f1, f2}
    Refused = {f2}
    IdleTtl = 1
    MinRefill = 1
    PressureRetry = 1
    NoSpare = NoSpare
    NoFp = NoFp
SPECIFICATION FairSpec
PROPERTIES
    NotifyServed
    TimersFire
    ShutdownQuiesces
    ImplementsLifecycle
