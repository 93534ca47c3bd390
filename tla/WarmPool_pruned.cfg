\* What must not be pruned, against a build that begins after the snapshot.
CONSTANTS
    Spares = {s1, s2}
    Requests = {r1}
    Fingerprints = {f1}
    Refused = {}
    IdleTtl = 1
    MinRefill = 0
    PressureRetry = 1
    NoSpare = NoSpare
    NoFp = NoFp
SPECIFICATION PruneSpec
SYMMETRY SpareSymmetry
PROPERTY PruneSparesLiveDirs
