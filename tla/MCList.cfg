SPECIFICATION Spec
CONSTANTS
    TokenValues = {a, b}
    Cells = {c1, c2, c3, c4}
    NULL = NULL
INVARIANTS
    TypeOK
    WellLinked
PROPERTY
    ImplementsList
