SPECIFICATION Spec
CONSTANTS
    SrcDir <- MCSrcDir
    Parts = 2
    Directories <- MCDirectories
    Configs <- Untangled
    XLabels <- OldLabels
INVARIANT BlocksAgree
INVARIANT LabelsAreAdded
INVARIANT DestinationIsLast
INVARIANT ArgumentsAreMeant
INVARIANT PlansAreWellFormed
