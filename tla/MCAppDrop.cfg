SPECIFICATION Spec
CONSTANTS
    a = a
    Blank = Blank
    Untitled = Untitled
    Titles <- MCTitles
    Texts <- MCTexts
    CreatesEarly = TRUE
    MaxPage = 3
INVARIANTS
    EditorInStep
CHECK_DEADLOCK FALSE
