CONSTANTS
  None = None
  Role = {"vla", "world"}
  MaxEpoch = 2
  MaxCounter = 2
SPECIFICATION MCSpec
INVARIANTS
  MotionIsDurable
  LedIsEarned
PROPERTIES
  AdmittedInOrder
  PromiseKept
CHECK_DEADLOCK FALSE
