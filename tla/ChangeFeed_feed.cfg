SPECIFICATION FairSpec
CONSTANTS
    c1 = c1
    c2 = c2
    u1 = u1
    sA = sA
    sB = sB
    AllStores = AllStores
    Conns = {c1, c2}
    Subs = {u1}
    Stores = {sA, sB}
    Filters = {sA, AllStores}
    MaxRevision = 2
    MaxEpoch = 1
    MaxLimit = 2
INVARIANTS
    TypeOK
    DeliveredOnce
PROPERTY EventuallyDelivered
