SPECIFICATION Spec
CONSTANTS
    First <- MCFirst
    ChannelOf <- MCChannelOf
    SeqSpace = 16
    BufferSize = 3
    QueueSize = 2
    Step = 2
    Wrap = 5
    Displacement = 3
    MaxLost = 1
    MaxDups = 3
INVARIANTS TypeOK   ClockAgrees
CHECK_DEADLOCK FALSE
