SPECIFICATION Spec
CONSTANTS
    SECTION_SIZE = 14
    HEAD_SIZE = 3
    ITM_SIZE = 2
    Attrs = {a0}
    ZeroAttr = a0
    Payloads <- MCZeroPayloads
INVARIANT FstRecPtrBeforeRecords
