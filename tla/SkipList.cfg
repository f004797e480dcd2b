SPECIFICATION FairSpec
CONSTANTS
    a = a
    b = b
    c = c
    v1 = v1
    v2 = v2
    Key <- MCKey
    Val <- MCVal
    Default = v1
    None = None
    Node <- MCNode
    Head = Head
    End = End
    Null = Null
    MaxLevel = 4
INVARIANTS
    WellFormed
    CountsRight
    SearchOnTrack
PROPERTIES
    ImplementsOrderedMap
    CallsReturn
CHECK_DEADLOCK FALSE
