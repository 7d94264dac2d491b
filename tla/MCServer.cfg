SPECIFICATION ServerSpec
CONSTANTS
    SECTION_SIZE = 16
    HEAD_SIZE = 3
    ITM_SIZE = 2
    TYPE_ITM_SIZE = 2
    FILE_HEAD_SIZE = 1
    Attrs = {}
    ZeroAttr <- MCZeroAttr
    NoRequest = NoRequest
    Requests <- MCRequests
    Documents <- MCTypes
    TypeDefs <- MCTypes
    Queries <- MCTypes
    MAX_EXT = 3
    MAX_TYPES = 5
INVARIANTS CountsRight UpdateReplaces OneTypePerName InsertsSucceed
PROPERTY RequestsEnd
