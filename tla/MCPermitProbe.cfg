CONSTANTS
  Targets = {"base", "arm"}
  Cases = {"altered", "signature", "delay", "replay", "renewal", "positive"}
  Defects = {"none", "admits", "unlatched", "restless", "hasty", "forgetful"}
  Window = 3
  Lease = 8
  Backdate = 1
  Allowance = 2
  HoldUpdates = 3
  Period <- MCPeriod
  MaxLead = 1
  MaxStall = 1
  MaxDelay = 1
SPECIFICATION Spec
CHECK_DEADLOCK FALSE
INVARIANT
  VerdictIsTrue
