SPECIFICATION Spec
CONSTANTS
    k1 = k1
    k2 = k2
    AllKeys = AllKeys
    Keys = {k1, k2}
    MaxRevision = 4
    MaxLimit = 3
    MaxDepth = 3
CHECK_DEADLOCK FALSE
SYMMETRY Symmetry
INVARIANTS
    TypeOK
    HandledInOrder
