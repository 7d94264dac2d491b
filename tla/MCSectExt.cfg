SPECIFICATION Spec
CONSTANTS
    SECTION_SIZE = 15
    HEAD_SIZE = 3
    ITM_SIZE = 2
    Attrs = {a0, a1}
    ZeroAttr = a0
    Payloads <- MCPayloads
INVARIANTS TypeOK HeaderCoherent LayoutSafe BordersTight ZeroBytesFree
PROPERTY ImplementsStore
