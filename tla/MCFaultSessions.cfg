SPECIFICATION SessionSpec
CONSTANTS
  Cases <- ArmSessions
  MaxTokens = 4
INVARIANTS
  RequestsSettled
  PassIsEarned
CHECK_DEADLOCK FALSE
