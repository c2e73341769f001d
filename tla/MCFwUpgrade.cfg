CONSTANTS
    a = a
    b = b
    c = c
    Chunk = {a, b, c}
    Images <- MCImages
    OldKernel = OldKernel
    Torn = Torn
    Junk = Junk
    InboxSize = 2
SPECIFICATION Spec
INVARIANTS
    TornIsUnreported
    InPlace
PROPERTIES
    ImplementsInstallation
    Installs
