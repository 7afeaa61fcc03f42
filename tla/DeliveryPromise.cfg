SPECIFICATION FairSpec
CONSTANTS
    in = in
    out = out
    a = a
    b = b
    c = c
    Roots <- MCRoots
    Ids <- MCIds
    SrcDir <- New
    Device <- TwoDevices
    Plans <- Plans2
    MaxPlan = 2
    Modes = {TRUE, FALSE}
    MaxFaults = 2
    MaxRenames = 0
PROPERTY KeepsPromise
