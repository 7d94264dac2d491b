SPECIFICATION Spec
CONSTANTS
    SECTION_SIZE = 19
    HEAD_SIZE = 3
    ITM_SIZE = 2
    TypeDefs <- MCTypeDefs
    TypeNames <- MCTypeNames
INVARIANTS TypeOK TypesHeaderCoherent TypesTight
PROPERTIES ImplementsTypeTable DeleteRemovesFirst
