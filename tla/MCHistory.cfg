SPECIFICATION Spec
CONSTANTS
    p = p
    b1 = b1
    b2 = b2
    blank = blank
    x = x
    Ids <- MCIds
    Pages <- MCPages
    PageOf <- MCPageOf
    Authors <- MCAuthors
    Values <- MCValues
    PeerIds <- MCPeerIds
    Self = 1
    Blank = blank
    MaxCounter = 5
    MaxPeerWrites = 2
INVARIANTS
    TypeOK
    EntriesHeld
PROPERTIES
    LinearSpec
CHECK_DEADLOCK FALSE
