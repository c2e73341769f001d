CONSTANTS
    Pictures = {cat, postman}
    NoPicture = NoPicture
SPECIFICATION Spec
INVARIANTS
    FlagsTellTasks
    RecorderHasFile
    FirstClipIsComplete
PROPERTIES
    ImplementsPictureSlot
    RequestConsumed
    AcceptsAgain
