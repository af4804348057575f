CONSTANTS
    GraphNames = {n1, n2, n3}
    Addresses = {p1, p2, p3, p4}
    Functions <- MCFunctions
    Origins <- MCOrigins
    Contents <- MCTwoContents
    Null = Null
    Freed = Freed
    Lost = Lost
    Undefined = Undefined
SYMMETRY Symmetry
SPECIFICATION Spec
INVARIANTS
    ActiveIsManaged
PROPERTY MergeUnitesAll
