CONSTANTS
    MaxCalls = 3
    MAX_PRINT_SCREEN_FILES = 2

SPECIFICATION FairSpec

INVARIANT
    OneConsole

PROPERTIES
    KeysComeBack
    CapturesKept

CHECK_DEADLOCK FALSE
