SPECIFICATION MdaFairSpec
CONSTANTS
    a = a
    b = b
    c = c
    Ids <- MCIds
    Roots <- MCRoots
    Device <- MCDevice
    SrcDir <- MCSrcDir
    Plans <- AllPlans
    MaxPlan = 3
    Modes = {TRUE}
    MaxFaults = 2
    MaxRenames = 1
    Chunks = 2
    ShortWrites = FALSE
INVARIANT MdaTypeOK
INVARIANT AcceptedIsKept
 
INVARIANT FaultlessIsAccepted
PROPERTY Exits
