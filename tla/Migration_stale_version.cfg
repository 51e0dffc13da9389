SPECIFICATION Spec
CONSTANTS
    old = old
    mid = mid
    new = new
    partial = partial
    Migrators <- Builds
    Target <- TargetOf
    Steps <- StepsOf
    MaxApplied = 8
    MaxSwallowed = 0
    NoMigrator = NoMigrator
INVARIANT StepsFollowVersion
CHECK_DEADLOCK FALSE
