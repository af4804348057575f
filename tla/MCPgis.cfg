CONSTANTS
    n1 = n1
    n2 = n2
    n3 = n3
    n4 = n4
    n5 = n5
    n6 = n6
    n7 = n7
    Nodes <- MCNodes
    NodeOrder <- MCNodeOrder
    Instances <- MCInstances
    MaxRounds = 3
SPECIFICATION Spec
INVARIANTS
    GapsFilled
    ProfiledNodesReachable
    KicksWhatIsNeeded
PROPERTY MeasuredResultsSurvive
