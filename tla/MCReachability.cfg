CONSTANTS
    n1 = n1
    n2 = n2
    n3 = n3
    n4 = n4
    Nodes <- MCNodes
    Graphs <- MCGraphs
    NoQuery = NoQuery
SPECIFICATION Spec
INVARIANTS
    SearchInvariant
    CacheExact
PROPERTY QueryEnds
