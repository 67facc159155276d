CONSTANTS
    RX_FRAGMENT_SIZE = 3
    Step = 4
    MaxSent = 9
    OldFile = 4

SPECIFICATION Spec

INVARIANT
    SavedIsSent

PROPERTY
    ClosedIsSaved

CHECK_DEADLOCK FALSE
