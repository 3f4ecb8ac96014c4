CONSTANTS
    Feed <- FeedGga
    Code <- MCCode
    Size <- MCSize
    BufferSize = 33
    MaxLost = 0
SPECIFICATION Spec
CHECK_DEADLOCK FALSE
INVARIANTS
    OnlyFixesForwarded
