SPECIFICATION FairSpec
CONSTANTS
    LockList <- CloudOnly
    Uploading = {cloudLock}
    Polls = {first, interval}
    Readers = {service}
    OldAccesses = 1
    MaxAccesses = 3
    Anonymous = {3}
    cloudLock = cloudLock
    ownLock = ownLock
    first = first
    interval = interval
    service = service
INVARIANTS
    TypeOK
    OwnLogReadOnce
    OwnRecordsFireOnce
    CursorSkipsNothing
PROPERTIES
    AnnouncedOrGivenUp
