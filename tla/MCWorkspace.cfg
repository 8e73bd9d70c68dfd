SPECIFICATION Spec
CONSTANTS
    p1 = p1
    p2 = p2
    b1 = b1
    x = x
    Ids <- MCIds
    Pages <- MCPages
    PageOf <- MCPageOf
    Authors <- MCAuthors
    Values <- MCValues
    Self = 1
    MaxCounter = 2
    MaxForeign = 1
INVARIANTS
    TypeOK
    DigestsFresh
    CounterCovers
    VersionIdentifiesContent
    DirtyIsHeld
PROPERTIES
    LocalWriteApplies
    RecordsOnlyAdvance
    AbstractSpec
