CONSTANTS
  None = None
  StepKey = {"a"}
  MaxSteps = 1
  MaxDuration = 2
  WorldMaxAge = 1
  HouseholdMaxAge = 1
  Source = {"policy", "guest"}
  AllowedSource = {"policy"}
  MaxSpeed = 2
  MaxTtl = 2
  FutureTolerance = 0
  Household = FALSE
  VelocityInput <- MCVelocity
  TrajectoryInput <- MCTrajectory
  FactInput <- MCFact
  FaultInput = {1, 2}
  MaxNow = 4
SPECIFICATION FairSpec
INVARIANTS
  OneAuthority
  CancelReachesWire
  MotionWithinGate
  RestBeforeMotion
PROPERTIES
  NeverFaster
  FaultIsFinal
  ArmEventuallyCancelled
