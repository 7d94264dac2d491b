SPECIFICATION ThreadsSpec
CONSTANTS
    t1 = t1
    t2 = t2
    Threads = {t1}
    Payloads <- MCPayloads
    Calls <- MCAlone
    Attrs = {0, 7}
    ZeroAttr = 0
    SECTION_SIZE = 22
    HEAD_SIZE = 3
    ITM_SIZE = 6
INVARIANTS CallsAddUp ReadsBack EntityAtSaveAddr
PROPERTY CallsReturn
