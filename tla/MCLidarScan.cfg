CONSTANTS
    Reply <- MCReply
    BMReply = 8
    Distances <- MCDistances
    Stale <- MCStale
    Latency = 1
SPECIFICATION Spec
CHECK_DEADLOCK FALSE
INVARIANTS
    TypeOK
    ParsedIsMeasured
    HeaderFound
PROPERTIES
    ScanEnds
