CONSTANTS
    TotalRanks = 3
    Names <- MCNames
    Calls <- MCCalls
    Addresses <- MCAddresses
    SymbolOf <- MCSymbolOf
    Startup <- MCStartup
    NoGraph = NoGraph
    NotLoaded = NotLoaded
SPECIFICATION Spec
INVARIANTS
    PatchGraphComplete
PROPERTIES
    PatchGraphWritten
