SPECIFICATION Spec
CONSTANTS
    t1 = t1
    t2 = t2
    u1 = u1
    k1 = k1
    k2 = k2
    Threads = {t1, t2}
    Subs = {u1}
    Keys = {k1, k2}
    Capacity = 2
    MaxRevision = 3
    MaxPatch = 2
    MaxLimit = 2
    MaxStates = 2
SYMMETRY Symmetry
INVARIANTS
    TypeOK
    OneLiveStore
    ContentIsHistory
    NoSilentLoss
PROPERTY CursorNeverRegresses
