SPECIFICATION Spec
CONSTANTS
    MaxChildren = 2
    Policy = "Always"
    KillLimit = 1
    GraceChecks = 1
    Budgets <- MCCommands
    MaxTries = 2
PROPERTIES DownCancelsRestarts
CHECK_DEADLOCK FALSE
