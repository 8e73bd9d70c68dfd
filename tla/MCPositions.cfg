SPECIFICATION Spec
CONSTANTS
    Terminator = 2
    TopByte = 3
    Blocks = {1, 2, 3, 4}
    Editor = editor
    Agent = agent
    MaxBatch = 2
CONSTRAINT IdsLeft
INVARIANTS
    TypeOK
    AlwaysRoom
PROPERTIES
    InsertLands
    BatchesInOrder
