CONSTANTS
    Capacity = 20
    Payload = {0, 161}
    MaxMessages = 2
    MaxAccidents = 1
    Modes = {"gps"}
SPECIFICATION Spec
CHECK_DEADLOCK FALSE
INVARIANTS
    OnlyGpsReadings
