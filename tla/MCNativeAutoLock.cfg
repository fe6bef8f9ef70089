SPECIFICATION Spec
CONSTANTS
    Calls = {enable, disable}
    Enables = {enable}
    FirstBytes = {2, 250}
    AppBytes = {0, 10}
    MaxUses = 1
    enable = enable
    disable = disable
INVARIANTS
    TypeOK
    SuccessMeansWritten
    UndisturbedCallSucceeds
PROPERTIES
    OtherSettingsKept
