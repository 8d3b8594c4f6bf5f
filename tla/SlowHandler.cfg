SPECIFICATION FairSpec
CONSTANTS
    DelayInitial = 1
    DelayCap = 3
    Limit = 2
    PingInterval = 1
    SilenceTimeout = 3
    CheckInterval = 1
PROPERTY SilentMeansNothingReceived
