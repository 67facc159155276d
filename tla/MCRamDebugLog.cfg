CONSTANTS
  Size = 5
  Chars = {a, b}
  Default = Default
  EndFlag = EndFlag
  MaxLength = 5
SPECIFICATION Spec
INVARIANTS
  CleanUpStaysInRecords
PROPERTY KeepsRecentMessages
