\* Two requests race for one slot; fingerprints change between scrapes.
CONSTANTS
    Spares = {s1, s2, s3}
    Requests = {r1, r2}
    Fingerprints = {f1, f2}
    Refused = {}
    IdleTtl = 2
    MinRefill = 2
    PressureRetry = 1
    NoSpare = NoSpare
    NoFp = NoFp
SPECIFICATION Spec
SYMMETRY PoolSymmetry
INVARIANTS
    TypeOK
    ExclusiveHandoff
    HandedOutMatches
    ReadySpareUsable
    NoOrphanChromium
    ProfileOutlivesChromium
    LiveDirsProtected
    SingleWarmChromium
    EmptyAfterShutdown
    PoolInv
PROPERTIES
    HeldChromiumKept
    RefillSpacing
