CONSTANTS
    Names <- MCTwoNames
    MainNames <- MCMainOnly
    Origins <- MCOrigins
    Attrs <- MCAttrs
    MdKinds = {K1}
    MaxSize = 3
    MaxEdges = 2
    MaxEdgeMd = 1
    Null = Null
    NoId = NoId
    OutOfRange = OutOfRange
    BaseClass = BaseClass
SPECIFICATION Spec
INVARIANTS
    AdjacencyAgrees
    EdgesLive
    NameIndexExact
    MainCacheLive
PROPERTIES
    EdgeMetadataKept
    ImplementsAbs
