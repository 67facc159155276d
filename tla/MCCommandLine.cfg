CONSTANTS
    MaxUint64 = 255
    MaxLine = 4
    MaxFails = 8
    Lines <- MCLines

SPECIFICATION Spec

INVARIANTS
    ArgumentsAreWords
    NothingLeftBehind
    PackageAnswersTheLine
    NumbersAreExact
