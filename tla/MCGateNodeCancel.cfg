CONSTANTS
  Profiles = {FALSE}
  Patience = 2
  MaxGoals = 2
SPECIFICATION NodeSpec
INVARIANTS
  CancelIsSent
CHECK_DEADLOCK FALSE
