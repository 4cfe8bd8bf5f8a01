CONSTANTS
    None = None
    a = a
    b = b
    o1 = o1
    free = free
    Bytes = {a, b}
    Contents <- AllContents
    Payloads <- AllPayloads
    Stores <- SomeStores
    ChunkSize = 2
    MaxObject = 3
    Objects = {o1, o2}
    Anchors = {r1, r2}
    Intents = {free, held}
    References <- ExportedReferences
    Targets <- SomeTargets
SPECIFICATION MigrationSpec
INVARIANTS
    UploadsAccounted
    ImportFaithful
PROPERTIES
    OnlyTransientReplayed
    StoreImplemented
    CallsReturn
