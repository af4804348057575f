CONSTANT
    Programs <- MCPrograms
SPECIFICATION Spec
INVARIANT
    GraphComplete
    DefinitionDescribed
