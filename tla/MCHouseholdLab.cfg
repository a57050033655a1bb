SPECIFICATION Spec
CONSTANTS
  MaxSets = 7
  GateDefects = {"none", "admits", "forgets", "replays", "unbound", "acts"}
  AllFaults = {"omission", "moves", "breaks", "stale", "rejection"}
  AllWaits = {"rearm", "zeros", "accepted", "judge", "reach", "settle", "verdict", "refusal"}
INVARIANTS
  CompletedIsSound
  OwnScene
  ReturnedIsShown
CHECK_DEADLOCK FALSE
