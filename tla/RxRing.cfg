CONSTANTS
    Size = 4
    Byte = {b0, b1, b2}
    Zero = b0
    None = None
SPECIFICATION Spec
INVARIANTS
    TypeOK
    WindowIsPending
    PromiseKept
PROPERTIES
    ImplementsFifo
