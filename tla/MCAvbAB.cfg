
CONSTANTS
  MaxPriority = 2
  MaxTries = 2
  NumLocations = 1
  MaxIndex = 1
  StubOps = FALSE
  Corrupt = Corrupt
  Uninit = Uninit
  NULL = NULL
SPECIFICATION FairSpec
INVARIANTS
  TriesAccounted
  StartedImageVerified
  FallbackSlotsUsable
  DataReturnedIffOk
  AssertionsHold
  FailedFlowOnlyRetires
PROPERTIES
  LockedIndexesNeverDecrease
  SuccessKept
  StartsArePaid
  FallsBack
  BootsOrReports
