SPECIFICATION Spec
CONSTANTS
    Accounts = {a, b}
    MaxSetups = 3
SYMMETRY TwoAccounts
CHECK_DEADLOCK FALSE
INVARIANTS
    TypeOK
    LoadedHaveServices
    FiveGoWithLast
    RenewalNeverStops
    DiscardedLeavesNothing
