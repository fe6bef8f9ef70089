SPECIFICATION FairSpec
CONSTANTS
    Clients = {c1, c2}
    NoClient = NoClient
    MaxRefusals = 2
    FirstPollFailed = FALSE
    ConnectMayRaise = FALSE
    MaxCallbacks = 2
    c1 = c1
    c2 = c2
INVARIANTS
    TypeOK
    OneSession
    PausedUntilRetry
    RedialsWithCurrentToken
    FlagMatchesClient
PROPERTIES
    PushComesBack
CHECK_DEADLOCK FALSE
