\* Two workers, the refill daemon, the reporter and the event loop.
CONSTANTS
    Workers = {w1, w2}
    Nobody = Nobody
SPECIFICATION FairSpec
CHECK_DEADLOCK FALSE
INVARIANTS
    NoCircularWait
    LoopNotHeldUp
PROPERTIES
    ShutdownCompletes
