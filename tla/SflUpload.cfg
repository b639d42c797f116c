SPECIFICATION FairSpec
CONSTANTS
    Images <- OverlapImages
    Warmup = 1
    Window = 2
    Retries = 3
    MaxConsole = 2
INVARIANTS
    IInv
    SentIsStored
    BootedOnWholeImages
    ConsoleMeansBooted
    WindowRespected
PROPERTIES
    FreshAttempt
    ImplementsImageLoad
    Terminates
