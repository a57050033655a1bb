CONSTANTS
  Source = {"vla", "planner"}
  Id = {0, 1, 2, 3}
  Capacity = 2
  Absent = Absent
  SachoCapacity = 3
  SealEvery = 2
  PostWindow = 1
  MaxRecords = 7
  Browsers = {b1, b2}
  MaxMessages = 1
  MaxMilestones = 1
  MaxSequence = 4
  MaxSessions = 1
  Places = {"off", "near"}
  MaxGeneration = 3
  MaxMoves = 2
  MaxAge = 2
  Early = 1
  Depth = 2
  MaxSim = 3
  MaxWall = 3
SPECIFICATION MCSpec
SYMMETRY Pages
INVARIANTS
  JudgedOnce
  IncreasingNeverRefused
  IncidentsDurable
  LogWhole
  WaitingIsShown
  SceneByItsClick
  AckIsApplied
  ConfidentIsSeen
PROPERTIES
  SealedForever
CHECK_DEADLOCK FALSE
