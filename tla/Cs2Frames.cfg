SPECIFICATION FairSpec
CONSTANTS
    Sizes = {1, 2, 3, 5}
    MinFrame = 2
    FrameLimit = 4
    BufferLimit = 7
    QueueSize = 2
    Blocking = TRUE
    MaxFrames = 5
INVARIANTS TypeOK BudgetKept
PROPERTIES ReaderHarmless
CHECK_DEADLOCK FALSE
