CONSTANTS
    None = None
    Objects = {o1}
    Digests = {d1}
    Threads = {t1}
    Requests <- OnceRequests
    MaxTime = 1
    MaxOps = 2
    LateWrites = FALSE
SPECIFICATION Spec
PROPERTIES
    ConflictMeansPublished
