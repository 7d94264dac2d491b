SPECIFICATION USpec
CONSTANTS
    SECTION_SIZE = 13
    HEAD_SIZE = 3
    ITM_SIZE = 2
    Attrs = {a0}
    ZeroAttr = a0
    Payloads <- MCPayloads
    MAX_UPDATES = 1
PROPERTIES UpdateReplaces UpdateKeepsOthers
