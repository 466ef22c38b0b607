SPECIFICATION Spec
CONSTANTS
    Shell = {s1, s2}
    Idle = 1
    MaxPrompts = 3
    MaxHooks = 2
    MaxTurns = 1
INVARIANT ClientStopHolds
CHECK_DEADLOCK FALSE
