SPECIFICATION Spec
CONSTANTS
    c1 = c1
    c2 = c2
    s1 = s1
    k1 = k1
    Conns = {c1, c2}
    Stores = {s1}
    Keys = {k1}
    MaxRevision = 2
    MaxHandles = 2
    NoConn = NoConn
SYMMETRY Symmetry
INVARIANTS
    TypeOK
    RevisionMetadataCoherent
    HistoryContiguous
    JournalIsSuffix
    AckedIsDurable
PROPERTY ImplementsRevisionedStore
