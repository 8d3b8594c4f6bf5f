SPECIFICATION FairSpec
CONSTANTS
    QueueSize = 2
    BatchSize = 2
    GetTimeout = 2
    BatchTimeout = 2
    WriteTimeout = 4
    ErrorSleep = 6
    MayRaise = TRUE
    MaxReadings = 5
INVARIANTS
    TypeOK
    EachReadingAccounted
PROPERTIES
    OnlySlowWritesAreCancelled
    ReadingsSettle
    CloseReleasesClient
CHECK_DEADLOCK FALSE
