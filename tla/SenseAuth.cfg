SPECIFICATION FairSpec
CONSTANTS
    periodic = periodic
    Feed = Feed
    Nobody = Nobody
    Requests <- MCOneRequest
    Cancellable <- MCCancellable
    MinReauthAge = 1
    RenewInterval = 3
    RetryBase = 2
    AuthMaxDelay = 3
    RequestMaxWait = 2
    MaxRetries = 1
    RetryAfters = {0, 4}
    MaxFailures = 2
INVARIANTS TypeOK LoginsAreExclusive NoResendOfRefusedToken
PROPERTIES ImplementsLoginGate EveryCallEnds RefusedTokenIsRenewed
