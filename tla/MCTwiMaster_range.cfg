CONSTANTS
    Script <- RangeScript
    TWI_BUFFER_LENGTH = 32
    Command <- MCCommand
    MaxFaults = 3
SPECIFICATION Spec
INVARIANTS
    TypeOK
    ReportIsTrue
    RangeIsOneMeasurement
PROPERTIES
    CallsReturn
