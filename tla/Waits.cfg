SPECIFICATION Spec
CONSTANTS
    Wait = {w1}
    Pattern = {"a"}
    Setups <- MCSetups
    Ring = 1
    TailLines = 1
    MaxSpent = 1
INVARIANTS AnsweredOnce   
CHECK_DEADLOCK FALSE
