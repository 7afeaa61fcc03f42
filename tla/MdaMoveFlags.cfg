SPECIFICATION MdaSpec
CONSTANTS
    a = a
    b = b
    c = c
    Ids <- MCIds
    Roots <- MCRoots
    Device <- MCDevice
    SrcDir <- MCSrcDir
    Plans <- MoveThenFlags
    MaxPlan = 3
    Modes = {TRUE}
    MaxFaults = 0
    MaxRenames = 0
    Chunks = 2
    ShortWrites = FALSE
INVARIANT AcceptedIsKept
