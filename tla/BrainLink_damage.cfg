CONSTANTS
    Capacity = 4
    Payload = {0, 161, 242}
    MaxMessages = 4
    MaxAccidents = 2
    Modes = {"gps"}
SPECIFICATION Spec
CHECK_DEADLOCK FALSE
INVARIANTS
    TypeOK
    GarbageOnlyFromDamage
    EstimateFromOneFix
