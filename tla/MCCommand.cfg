SPECIFICATION Spec
CONSTANTS
    Commands = {lock, unlock}
    Unlocks = {unlock}
    Codes = {old, new}
    CloudCode = old
    NoCode = NoCode
    lock = lock
    unlock = unlock
    old = old
    new = new
INVARIANTS
    TypeOK
    ReportedMeansActed
    ShownWasTrue
    OneTransportSuffices
    FlagsAreTrue
CHECK_DEADLOCK FALSE
