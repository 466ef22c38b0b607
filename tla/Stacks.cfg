SPECIFICATION Spec
CONSTANTS
    Nothing = Nothing
    Retention = 2
    Budgets <- MCBudgets
INVARIANTS
    ServedIsFresh
    EditsAnnounced
    RecordsAccounted
    
CHECK_DEADLOCK FALSE
