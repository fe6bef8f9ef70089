SPECIFICATION Spec
CONSTANTS
    Clients = {c1, c2}
    NoClient = NoClient
    MaxRefusals = 2
    FirstPollFailed = FALSE
    ConnectMayRaise = TRUE
    MaxCallbacks = 2
    c1 = c1
    c2 = c2
INVARIANTS
    SessionEndsWithEntry
SYMMETRY Symmetry
CHECK_DEADLOCK FALSE
