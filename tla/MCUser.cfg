SPECIFICATION Spec
CONSTANTS
    SECTION_SIZE = 16
    HEAD_SIZE = 3
    ITM_SIZE = 2
    TYPE_ITM_SIZE = 2
    FILE_HEAD_SIZE = 1
    Attrs = {}
    ZeroAttr <- MCZeroAttr
    Documents <- MCDocuments
    TypeDefs <- MCTypeDefs
    Queries <- MCQueries
    MAX_EXT = 2
    MAX_TYPES = 2
INVARIANTS TypeOK SectionsSound LinksResolve ReadExact SpaceReclaimed
PROPERTY ImplementsDocBase
