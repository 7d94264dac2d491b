SPECIFICATION ThreadsSpec
CONSTANTS
    t1 = t1
    t2 = t2
    Threads = {t1, t2}
    Payloads <- MCOnePayload
    Calls <- MCReaders
    Attrs = {0}
    ZeroAttr = 0
    SECTION_SIZE = 17
    HEAD_SIZE = 3
    ITM_SIZE = 6
CHECK_DEADLOCK FALSE
INVARIANT ReadsBack
