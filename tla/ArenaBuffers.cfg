SPECIFICATION Spec
CONSTANTS
    b1 = b1
    b2 = b2
    Ids = {b1, b2}
    Sizes <- MCSizes
    FrameSizes <- MCFrameSizes
    Header = 32
    Poison = 0
    MaxScopes = 2
    NULL = NULL
    Strings = {3, 8}
    Initial = 4
    ReadSize = 8
    Files = {0, 7, 8, 9, 17}
    VectorSize = 8
    Stride = 4
    MaxLen = 9
SYMMETRY MCSymmetry
INVARIANT ArenaTypeOK
INVARIANT BlocksAreDisjoint
INVARIANT ContentIsKept
INVARIANT FileIsRead
CHECK_DEADLOCK FALSE
