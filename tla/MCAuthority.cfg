CONSTANTS
  Process = {p1, p2}
  Role = {"vla"}
  MaxEpoch = 2
  MaxCounter = 3
  FixedTtl = 0
  BaseTtl = 1
  Window = 2
  Lease = 4
  Backdate = 0
  WorldMaxAge = 3
  Ttls = {4}
  Settle = 1
  Lags = {0}
  Activations = 1
  MaxGoals = 2
  MaxSeq = 5
  Start = 1
  MaxTime = 2
  MaxStall = 0
SPECIFICATION MCSpec
INVARIANTS
  SignedOnce
  ReservedFirst
  WithinGrant
  StartedOnce
CHECK_DEADLOCK FALSE
