\* Two threads, one database file and one backup target.
CONSTANTS
    Caller = {t1, t2}
    Path = {p1}
    None = None
    Requests <- MCRequests
    DeflateMax = 9
    ZstdMin <- MCZstdMin
    ZstdDefault = 3
    ZstdMax = 22
    MaxRetries = 1
    MaxContent = 1
SPECIFICATION FairSpec
INVARIANTS
    TypeOK
    OpenAllOrNothing
    HealthReportsTheFile
PROPERTIES
    BackupIsSnapshot
    CallReturns
