SPECIFICATION TypesSpec
CONSTANTS
    SECTION_SIZE = 17
    HEAD_SIZE = 3
    ITM_SIZE = 2
    TYPE_ITM_SIZE = 2
    FILE_HEAD_SIZE = 1
    Attrs = {}
    ZeroAttr <- MCZeroAttr
    Documents <- MCDocuments
    NewDocuments <- MCNewDocuments
    TypeDefs <- MCTypeDefs
    Queries <- MCQueries
    MAX_EXT = 1
    MAX_TYPES = 2
INVARIANTS TypesStay FieldsStay 
CHECK_DEADLOCK FALSE
