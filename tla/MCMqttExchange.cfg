SPECIFICATION FairSpec
CONSTANTS
    Calls = {probe, info}
    QuietCalls = {probe}
    InfoCalls = {info}
    NoReply = NoReply
    Cancelled = Cancelled
    MaxReplies = 2
    MaxCallbacks = 1
    probe = probe
    info = info
INVARIANTS
    TypeOK
    OnlyOwnAnswers
    PendingIsOpenCalls
PROPERTIES
    FirstReplySettles
    EveryCallReturns
    KeepsPromise
