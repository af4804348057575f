CONSTANTS
    n1 = n1
    n2 = n2
    n3 = n3
    n4 = n4
    n5 = n5
    n6 = n6
    Nodes <- MCNodes
    NodeOrder <- MCNodeOrder
    Instances <- MCInstances
    MaxRounds = 7
SPECIFICATION Spec
INVARIANTS
    ContextInstrumented
PROPERTIES
    IrrelevantLeavesFilter
    DescentDecides
