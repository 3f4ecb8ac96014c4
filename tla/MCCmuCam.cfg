CONSTANTS
    Colours = {"stop_sign", "red_light"}
    Measured <- MCMeasured
    MaxCalls = 2
    MaxSends = 3
    MaxAccidents = 1
SPECIFICATION Spec
CHECK_DEADLOCK FALSE
INVARIANTS
    TypeOK
    AnswerIsFresh
    InViewIsWhole
    NoVainWait
PROPERTIES
    CallEnds
