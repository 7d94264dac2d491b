SPECIFICATION Spec
CONSTANTS
    SECTION_SIZE = 23
    HEAD_SIZE = 3
    ITM_SIZE = 2
    TYPE_ITM_SIZE = 2
    FILE_HEAD_SIZE = 1
    Attrs = {}
    ZeroAttr <- MCZeroAttr
    Documents <- MCDocuments
    MAX_EXT = 2
    MAX_UPDATES = 1
PROPERTIES OthersKept 
CHECK_DEADLOCK FALSE
