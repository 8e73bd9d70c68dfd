SPECIFICATION Spec
CONSTANTS
    i1 = i1
    i2 = i2
    i3 = i3
    Ids = {i1, i2, i3}
    Default1 = d1
    Default2 = d2
    Bytes <- MCBytes
    Continuations <- MCContinuations
    Marks <- MCMarks
    Slash <- MCSlash
    Marker <- MCMarker
    Chars <- MCChars
    Labelled <- MCLabelled
    Pages <- MCPages
    PeerRuns <- MCPeerRuns
    Paragraph = "paragraph"
    Heading = "heading"
    Bold = bold
    None = None
    MaxChars = 2
    MaxSize = 7
SYMMETRY Symmetry
INVARIANTS
    TypeOK
    SelectionAnchored
    CharactersWhole
    TypingSplices
    EnterSplits
    DeletesSplice
    
    ToggleExact
