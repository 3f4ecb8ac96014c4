CONSTANTS
    Messages <- MCMessages
    VW_MAX_MESSAGE_LEN = 8
    MaxFaults = 2
SPECIFICATION Spec
INVARIANTS
    TypeOK
    HeardWhenFree
    NoneVanishes
    ReceiverIsReleased
PROPERTIES
    ImplementsDatagram
