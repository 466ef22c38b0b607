SPECIFICATION Spec
CONSTANTS
    Shell = {s1, s2}
    Idle = 1
    MaxPrompts = 4
    MaxHooks = 2
    MaxTurns = 1
INVARIANTS CountedWhereItIs
PROPERTIES StopsOnTime BackInsideComesUp
CHECK_DEADLOCK FALSE
