SPECIFICATION Spec
CONSTANTS
    NULL = NULL
    NONE = NONE
    MaxDepth = 4
    NotBase64 <- MCNotBase64
    Trees <- MCTrees
    MaxRewrites = 1
INVARIANT MessageIsMeant
INVARIANT AttachmentsAreMeant
INVARIANT BodyIsMeant
INVARIANT TextIsMeant
