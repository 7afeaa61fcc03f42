SPECIFICATION Spec
CONSTANTS
    SrcDir <- MCSrcDir
    Parts = 2
    Directories <- MCDirectories
    Configs <- PassConfigs
    XLabels <- NoLabels
INVARIANT BlocksAgree
