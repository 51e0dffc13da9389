SPECIFICATION FairSpec
CONSTANTS
    t1 = t1
    t2 = t2
    NoThread = NoThread
    Threads = {t1, t2}
    SlotCount = 2
    GenerationMax = 2
    MaxOpens = 3
    MaxCalls = 8
CHECK_DEADLOCK FALSE
INVARIANTS
    TypeOK
    WorksOnItsDatabase
    TableConsistent
PROPERTY CallReturns
