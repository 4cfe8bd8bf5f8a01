CONSTANTS
    Tags <- AllTags
    VersionTags <- Versions
    Matching <- WithPrefix
    Limit = 1
    MaxScanTags = 2
    ServerPages = {1, 3}
    MaxChanges = 3
SPECIFICATION FairSpec
INVARIANTS
    ListingInv
    InventoryComplete
    ReturnedOnce
PROPERTIES
    CursorsSurvive
    InventoryEnds
