SPECIFICATION Spec
CONSTANTS
    a = a
    Blank = Blank
    Untitled = Untitled
    Titles <- MCTitles
    Texts <- MCTexts
    CreatesEarly = FALSE
    MaxPage = 3
INVARIANTS
    TypeOK
    SidebarInStep
    EditorInStep
    ConfirmAims
PROPERTIES
    OwnTitles
CHECK_DEADLOCK FALSE
