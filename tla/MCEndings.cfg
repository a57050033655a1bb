CONSTANTS
  Profiles = {TRUE, FALSE}
  Patience = 2
  MaxGoals = 2
  Goals = {"g1", "g2"}
SPECIFICATION MCSpec
INVARIANTS
  NoStrayMotion
  CancelIsForwarded
PROPERTIES
  CancellationEnds
  DarkInTheEnd
  FailureReaches
CHECK_DEADLOCK FALSE
