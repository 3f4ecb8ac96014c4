CONSTANTS
    Keys = {"r", "t", "g", "c", "w", "a", "n", "e"}
    MaxKeys = 5
    MaxAhead = 3
    Steering = {900, 1799}
SPECIFICATION Spec
CHECK_DEADLOCK FALSE
INVARIANTS
    TypeOK
    StoppedWhenIdle
PROPERTIES
    OneNotch
    ExitKeyEnds
