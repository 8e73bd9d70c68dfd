SPECIFICATION FairSpec
CONSTANTS
    s1 = s1
    s3 = s3
    p = p
    b = b
    x = x
    Ids <- MCIds
    Pages <- MCPages
    PageOf <- MCPageOf
    Authors <- MCAuthors
    Values <- MCValues
    Clients <- MCTwo
    Server = 2
    SeedOf <- MCSeedOf
    EditsProvisional = FALSE
    MaxWrites = 2
    MaxBreaks = 1
    MaxCrashes = 1
    MaxShared = 2
INVARIANTS
    TypeOK
    SettledAgree
    VersionIdentifiesContent
    SeedWithheld
PROPERTIES
    Converges
CHECK_DEADLOCK FALSE
