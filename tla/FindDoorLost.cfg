SPECIFICATION Spec
CONSTANTS
    LockList <- TwoHubs
    Hubbed = {hub1, hub2}
    MaxAttempts = 2
    hub1 = hub1
    hub2 = hub2
    wifi = wifi
PROPERTIES
    DoorStaysAvailable
CHECK_DEADLOCK FALSE
