SPECIFICATION FairSpec
CONSTANTS
    LockList <- OwnThenCloud
    Uploading = {cloudLock}
    Polls = {interval}
    Readers = {}
    OldAccesses = 1
    MaxAccesses = 2
    Anonymous = {}
    cloudLock = cloudLock
    ownLock = ownLock
    first = first
    interval = interval
    service = service
PROPERTIES
    EveryEntryFires
