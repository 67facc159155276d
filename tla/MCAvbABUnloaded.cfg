
CONSTANTS
  MaxPriority = 2
  MaxTries = 1
  NumLocations = 1
  MaxIndex = 1
  StubOps = TRUE
  Corrupt = Corrupt
  Uninit = Uninit
  NULL = NULL
SPECIFICATION Spec
PROPERTY
  NothingLoadedNothingSaved
