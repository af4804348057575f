CONSTANTS
    Names <- MCNames
    MainNames <- MCMainNames
    Origins <- MCOrigins
    MdKinds = {K1, K2}
    MaxSize = 3
    Null = Null
    NoId = NoId
    OutOfRange = OutOfRange
    BaseClass = BaseClass
    Inputs <- MCInputs
    SourceNames <- MCSourceNames
    NoOrigin = NoOrigin
    Missing = Missing
    MaxRounds = 2
SPECIFICATION Spec
INVARIANTS
    RoundTrip
    FailsOnlyIfIncomplete
CHECK_DEADLOCK FALSE
