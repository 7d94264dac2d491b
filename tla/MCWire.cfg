SPECIFICATION Spec
CONSTANTS
    Typed <- MCTyped
    Leftovers <- MCLeftovers
    BYTE = 3
    MAX_ROWS = 2
INVARIANTS RequestArrives QueryArrives RowsPrinted
