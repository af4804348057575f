CONSTANTS
    Nodes = {r, n1, n2, n3, n4, n5}
    n1 = n1
    n2 = n2
    n3 = n3
    n4 = n4
    n5 = n5
    Root = r
    Graphs <- MCSparse
SPECIFICATION Spec
PROPERTY AnalysisEndsDoc
