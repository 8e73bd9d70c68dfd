SPECIFICATION FairSpec
CONSTANTS
    MaxFrames = 3
    MaxAnswers = 1
    MaxBreaks = 2
INVARIANTS
    TypeOK
    GapsOnlyAtBreaks
    ConnectionsAnnounced
PROPERTIES
    WorkerStops
    NoFrameStuck
    NotDeaf
    QueueSpec
CHECK_DEADLOCK FALSE
