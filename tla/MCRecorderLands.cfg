CONSTANTS
  Absent = Absent
  SachoCapacity = 3
  SealEvery = 2
  PostWindow = 1
  MaxRecords = 7
SPECIFICATION RecorderSpec
INVARIANT FailedStepLandsLater
