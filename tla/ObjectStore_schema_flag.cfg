SPECIFICATION Spec
CONSTANTS
    c1 = c1
    s1 = s1
    k1 = k1
    Conns = {c1}
    Stores = {s1}
    Keys = {k1}
    MaxRevision = 2
    MaxHandles = 1
    NoConn = NoConn
INVARIANT SchemaFlagTruthful
