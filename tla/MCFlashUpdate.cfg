CONSTANTS
  NumBlocks = 3
  Data = {a, b}
  Erased = Erased
  Lost = Lost
  NoLine = NoLine
  StartPercentage = 10
  EndPercentage = 100
SYMMETRY MCSymmetry
SPECIFICATION Spec
INVARIANTS
  SuccessMeansProgrammed
  AtMostOneBlockLost
  CorruptedMeansLost
