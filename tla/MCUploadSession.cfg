CONSTANTS
    RawMaxLen = 2
    NumSend = 2
    ChunkSize = 5
    Total = 6
    RingSize = 2
    OldAcks = {6, 9}
    AnswerLen = 4
    Retries = 2
    Tries = 3
SPECIFICATION SessionSpec
INVARIANTS
    BytesInPlace
PROPERTIES
    ImplementsDelivery
    Finishes
    AnswerInPlace
    AnswerIsWhole
    Closes
CHECK_DEADLOCK FALSE
