SPECIFICATION Spec
CONSTANTS
    QueueSize = 2
    BatchSize = 2
    GetTimeout = 1
    BatchTimeout = 2
    WriteTimeout = 6
    ErrorSleep = 1
    MayRaise = TRUE
    MaxReadings = 4
INVARIANT NothingIsCancelled
CHECK_DEADLOCK FALSE
