SPECIFICATION FairSpec
CONSTANTS
    Roots <- MCRoots
    Device <- MCDevice
    Procs <- MCProcs
    Temporary = {"tmp"}
    Scenarios <- MCScenarios
    NMsgs = 2
    MaxIds = 9
    Echoes = 4
INVARIANT TypeOK
INVARIANT NoneLost
INVARIANT EveryMessageHandled
INVARIANT ActsOnce
INVARIANT NoErrorOfItsOwn
PROPERTY Ends
