SPECIFICATION FairSpec
CONSTANTS
    Batches = 3
    PipeCapacity = 2
    LogCapacity = 2
    IdleTimeout = 3
PROPERTIES StallIsDetected
CHECK_DEADLOCK FALSE
