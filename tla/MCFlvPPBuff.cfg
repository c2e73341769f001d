SPECIFICATION LiveSpec
CONSTANTS
    Producers <- MCProducers
    Video = "video"
    HalfRoom = 3
    KeySize = 2
    ClipRoom = 5
    NoPacket = NoPacket
    MaxPackets = 6
    MaxClips = 2
INVARIANTS
    NothingOverrun
    ClipInOrder
    ClipOpensWithKey
    OnlyDroppedMissing
    ParametersKept
PROPERTIES
    RecordingEnds
CHECK_DEADLOCK FALSE
