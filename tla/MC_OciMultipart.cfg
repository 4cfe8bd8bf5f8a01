CONSTANTS
    None = None
    a = a
    b = b
    Sessions = {s1, s2}
    Threads = {t1, t2}
    Chunks = {a, b}
    Payloads <- AllPayloads
    PartSize = 2
    MinPart = 2
    MaxParts = 2
    MaxObject = 3
    MaxOps = 4
    Exclusive = {s1}
SPECIFICATION FairSpec
INVARIANTS
    TypeOK
    PublishedPartsExactly
    CleanEndPublishesNothing
    PublishedContentStored
PROPERTIES
    CallsReturn
