SPECIFICATION Spec
CONSTANTS
    Nodes = {n1, n2, n3, n4}
    NULL = NULL
    Values = {u, v}
INVARIANTS TypeOK ListIntact MemoryExact
PROPERTY CallsReturn
