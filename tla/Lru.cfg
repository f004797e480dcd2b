SPECIFICATION Spec
CONSTANTS
    k1 = k1
    k2 = k2
    k3 = k3
    k4 = k4
    v1 = v1
    v2 = v2
    n1 = n1
    n2 = n2
    n3 = n3
    n4 = n4
    n5 = n5
    Key <- MCKey
    Val <- MCVal
    Node <- MCNode
    None = None
    Capacity = 3
    MaxFailed = 1
SYMMETRY MCSymmetry
INVARIANTS
    ContainersAgree
PROPERTIES
    ImplementsRecencyMap
