CONSTANTS
  Chars = {a, b}
  NUL = NUL
  Blank = Blank
  Junk = Junk
  TotalColumn = 2
  TotalRow = 4
  StartColumn = 1
  BufferChars = 4
  MaxHistory = 2
SPECIFICATION Spec
INVARIANTS
  LineIsTerminated
  CursorIsOnCharacter
  ScreenShowsLine
PROPERTY EditsLine
SYMMETRY Symmetry
