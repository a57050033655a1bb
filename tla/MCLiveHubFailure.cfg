SPECIFICATION HubSpec
CONSTANTS
  Browsers = {"page"}
  MaxMessages = 2
  MaxMilestones = 1
  MaxSequence = 2
  MaxSessions = 1
INVARIANT FailureIsShown
CHECK_DEADLOCK FALSE
