\* Every mode and payload against every way the reply, the driver and the page can
\* behave.
CONSTANTS
    TotalTimeout = 4
    WorkTimeout = 3
    Chunk = 2
    Pause = 1
    Reading = 1
    AutoSteps = 2
    MaxRetries = 2
    MinEscalate = 2
    BootTime = 1
SPECIFICATION FairSpec
INVARIANTS
    TypeOK
    AnswerFitsSurface
    TiersAsModePromises
    
PROPERTIES
    OnlyBypassedRetried
    Answered
