SPECIFICATION FairSpec
CONSTANTS
    MaxChildren = 2
    Policy = "Always"
    KillLimit = 1
    GraceChecks = 1
    Budgets <- MCBudgets
    MaxTries = 2
INVARIANTS TypeOK LaunchIsCurrent TimerIsIdle StillToCome OneCopy
PROPERTIES  GraceHonoured ShutdownSpares StopEnds PendingRestartSurvives
CHECK_DEADLOCK FALSE
