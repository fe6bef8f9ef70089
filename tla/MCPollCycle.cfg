SPECIFICATION FairSpec
CONSTANTS
    LockList <- HubAndWifi
    Hubbed = {hub1}
    MaxAttempts = 3
    hub1 = hub1
    hub2 = hub2
    wifi = wifi
INVARIANTS
    TypeOK
    NeverAbandoned
    SeedingWakesBounded
    DoorNeedsProof
PROPERTIES
    TokenDroppedByFirstPollOnly
    OnlyLateUpdatesLost
    EveryLockGetsRead
CHECK_DEADLOCK FALSE
