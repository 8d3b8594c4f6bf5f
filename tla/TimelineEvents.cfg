SPECIFICATION FairSpec
CONSTANTS
    d1 = d1
    d2 = d2
    e1 = e1
    e2 = e2
    e3 = e3
    w1 = w1
    w2 = w2
    Feed = Feed
    Closer = Closer
    Nobody = Nobody
    Devices <- MCDevices
    Events <- MCEvents
    DeviceOf <- MCDeviceOf
    Nameless <- MCNameless
    Odd <- MCOdd
    Workers <- MCWorkers
    MaxDevices = 1
    MaxParked = 1
    QueueSize = 1
INVARIANTS TypeOK EachEventInOnePlace ParkedIsReachable
PROPERTY ShutdownFlushes
CHECK_DEADLOCK FALSE
