CONSTANTS
    Capacity = 5
    Payload = {0}
    MaxMessages = 3
    MaxAccidents = 1
    Modes = {"gps", "track"}
SPECIFICATION Spec
CHECK_DEADLOCK FALSE
INVARIANTS
    NoAngleLost
PROPERTIES
    ReaderUnblocks
