SPECIFICATION Spec
CONSTANTS
    Clients = {c1, c2}
    NoClient = NoClient
    MaxRefusals = 2
    FirstPollFailed = TRUE
    ConnectMayRaise = TRUE
    MaxCallbacks = 2
    c1 = c1
    c2 = c2
INVARIANTS
    NoRetryAfterShutdown
PROPERTIES
    NoClientBuiltAfterShutdown
SYMMETRY Symmetry
CHECK_DEADLOCK FALSE
