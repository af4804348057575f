CONSTANTS
    CaptureCtorsDtors = TRUE
    CaptureStackCtorsDtors = TRUE
    Programs <- MCPrograms
SPECIFICATION Spec
INVARIANTS
    ClassesWellFormed
    RelationLeast
    CallsResolved
    CallsMutual
    OverridesMutual
    DefinitionMeta
    DepthsPropagate
PROPERTY StepsProgress
