CONSTANTS
  None = None
  StepKey = {"a"}
  MaxSteps = 1
  MaxDuration = 1
  WorldMaxAge = 1
  HouseholdMaxAge = 1
  Source = {"vla"}
  AllowedSource = {"vla"}
  MaxSpeed = 2
  MaxTtl = 1
  FutureTolerance = 0
  Household = TRUE
  TrajectoryInput <- MCTrajectory
  FactInput <- MCFact
  FaultInput = {2}
  OperatorMode = {0}
  MaxNow = 4
SPECIFICATION Spec
INVARIANTS
  CheckpointReopens
  OncePerRevision
  DurableFirst
PROPERTIES
  MotionNeedsOperator
  DurableFloorsGrow
