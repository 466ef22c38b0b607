SPECIFICATION Spec
CONSTANTS
  Client = {c1, c2}
  Size = {small, large}
  FirstSize = small
  MaxChunks = 1
  OutboxCap = 1
INVARIANTS
  
  ExitKept
  ToldIsCurrent
PROPERTIES
  StopCompletes
CHECK_DEADLOCK FALSE
