CONSTANTS
    a = a
    b = b
    c = c
    Chunk = {a, b, c}
    Images <- MCOneImage
    OldKernel = OldKernel
    Torn = Torn
    Junk = Junk
    InboxSize = 2
SPECIFICATION Spec
INVARIANT KernelIntact
