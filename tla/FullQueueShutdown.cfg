SPECIFICATION FairSpec
CONSTANTS
    w1 = w1
    w2 = w2
    w3 = w3
    Workers <- MCWorkers
    QueueSize = 5
    MaxBacklog = 5
PROPERTY ShutdownCompletes
CHECK_DEADLOCK FALSE
