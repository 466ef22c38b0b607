SPECIFICATION Spec
CONSTANTS
    Client = {c1, c2}
    Upgraded = {c2}
    Elsewhere = {c2}
    MaxServices = 4
    MaxStops = 1
    MaxCrashes = 1
    MaxTimeouts = 1
INVARIANTS
    OneOwner
    ServingIsReachable
    
PROPERTY CommandsEnd
CHECK_DEADLOCK FALSE
