CONSTANTS
    LastBlock = 10
    EntriesSize = 2
    EntriesPerBlock = 1
    StickSize = 2
    Values = {"a", "b"}
    Table <- MCTable
    OtherTable <- MCOtherTable
    Images <- MCImages
    FILL_BUF_SIZE = 1
    SIZE_2GB = 1
    UINT32_BLOCKS = 3
    Offsets = {0, 1, 8}
    Sizes = {0, 2}
    MaxCommands = 2
    MaxBoots = 1
SPECIFICATION Spec
INVARIANT ErasedStaysErased
PROPERTIES FlashedIsImage WritesStayInside
CHECK_DEADLOCK FALSE
