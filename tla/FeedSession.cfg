SPECIFICATION FairFeedSpec
CONSTANTS
    DelayInitial = 1
    DelayCap = 2
    Limit = 3
    PingInterval = 1
    SilenceTimeout = 2
    CheckInterval = 1
    MinReauthAge = 2
    RetryBase = 2
    AuthMaxDelay = 4
INVARIANTS TypeOK TasksEndWithConnection SilenceIsOfThisConnection LimitMeansBadCredentials LimitMeansLoginTried
PROPERTIES SilenceIsNoticed FeedReturns CancelEndsLoop
