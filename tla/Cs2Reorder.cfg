SPECIFICATION FairSpec
CONSTANTS
    SeqSpace = 6
    PushSize = 1
    Window = 3
    MaxPackets = 7
INVARIANTS TypeOK BufferSound
PROPERTIES KeepsOrder
CHECK_DEADLOCK FALSE
