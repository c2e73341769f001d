CONSTANTS
    Pictures = {cat, postman}
    NoPicture = NoPicture
SPECIFICATION Spec
INVARIANT ClipIsComplete
