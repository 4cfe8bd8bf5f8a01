CONSTANTS
    None = None
    Objects = {o1}
    Digests = {d1}
    Threads = {t1, t2}
    Requests <- LateRequests
    MaxTime = 2
    MaxOps = 3
    LateWrites = TRUE
SYMMETRY Symmetry
SPECIFICATION Spec
INVARIANTS
    TypeOK
    PublishedVersionsComplete
    ResolvedReadsComplete
PROPERTIES
    StoredRetentionHonoured
