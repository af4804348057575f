CONSTANTS
    Names <- MCNames
    MainNames <- MCMainNames
    Origins <- MCOrigins
    MaxSize = 4
    Null = Null
    NoId = NoId
    OutOfRange = OutOfRange
    BaseClass = BaseClass
    MdKinds = {K1, K2}
    Inputs <- MCInputs
SPECIFICATION Spec
INVARIANTS
    RecorderSound
    UnionOfBoth
    DefinitionWins
    TargetKept
    EntryKept
