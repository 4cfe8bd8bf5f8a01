CONSTANTS
    None = None
    a = a
    b = b
    Sessions = {s1}
    Threads = {t1, t2}
    Chunks = {a, b}
    Payloads <- ShortPayloads
    PartSize = 2
    MinPart = 2
    MaxParts = 2
    MaxObject = 3
    MaxOps = 4
    Exclusive = {}
SPECIFICATION Spec
INVARIANTS
    PublishedLengthMatches
