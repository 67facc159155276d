CONSTANTS
  MaxImages = 2
  MaxLoaded = 2
  NumLocations = 2
  MaxDescriptors = 2
  Requested = 1
SPECIFICATION Spec
INVARIANTS
  OkIffNoErrors
  DataOnlyWhenAllowed
  LockedDataVerified
  TopLevelStructFirst
  HeapBalanced
