SPECIFICATION Spec
CONSTANTS
    old = old
    mid = mid
    new = new
    partial = partial
    Migrators <- Builds
    Target <- TargetOf
    Steps <- StepsOf
    MaxApplied = 8
    MaxSwallowed = 1
    NoMigrator = NoMigrator
INVARIANTS
    TypeOK
    StepsFollowVersionUnlessRaced
PROPERTIES
    RunIsWhole
    OkMeansWhole
CHECK_DEADLOCK FALSE
