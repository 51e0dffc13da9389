SPECIFICATION Spec
CONSTANTS
    h1 = h1
    h2 = h2
    n1 = n1
    n2 = n2
    NoHandle = NoHandle
    Handles = {h1, h2}
    Names = {n1, n2}
    MaxDepth = 3
    RawCommands = {"begin", "commit", "restart", "fatal", "other",
                   "savepoint", "release", "rollback to"}
    MaxTx = 4
    MaxStack = 2
SYMMETRY Symmetry
INVARIANTS
    TypeOK
    BookkeepingTruthful
    StaleBookkeepingIsSafe
