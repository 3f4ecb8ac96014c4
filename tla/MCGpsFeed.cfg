CONSTANTS
    Feed <- FeedRmc
    Code <- MCCode
    Size <- MCSize
    BufferSize = 33
    MaxLost = 1
SPECIFICATION Spec
CHECK_DEADLOCK FALSE
INVARIANTS
    TypeOK
    FlagMeansComplete
    ForwardsFixes
    StaysInBuffer
PROPERTIES
    EveryFixForwarded
