CONSTANTS
    Sizes = {1, 2}
    Batch = 2
    Window = 2
    RingSize = 1
    Other = Other
SPECIFICATION Spec
INVARIANTS
    AckedHasArrived
PROPERTIES
    ImplementsDelivery
    OldestIsRetried
    StreamEnds
CHECK_DEADLOCK FALSE
