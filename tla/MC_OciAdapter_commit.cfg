CONSTANTS
    None = None
    Objects = {o1}
    Digests = {d1, d2}
    Threads = {t1, t2}
    Requests <- CommitRequests
    MaxTime = 1
    MaxOps = 3
    LateWrites = FALSE
SPECIFICATION FairSpec
INVARIANTS
    SafetyInv
    LatestImpliesExact
PROPERTIES
    CreateOnlyNeverReplaces
    PutReturnsPublished
    CatalogImplemented
    OperationsReturn
