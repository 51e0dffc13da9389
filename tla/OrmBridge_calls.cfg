SPECIFICATION Spec
CONSTANTS
    kSlotBits = 2
    kGenerationMax = 2
    Id = {u1, u2}
    Name = {n1, n2}
    Email = {e1, e2}
    NoRow = NoRow
    Tables <- MCTables
    MaxOpens = 3
    MaxCommits = 2
SYMMETRY Symmetry
INVARIANTS
    TypeOK
    HandlesOwnOpens
    AnswersMatchRows
    AnswersGoForward
