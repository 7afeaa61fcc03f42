SPECIFICATION Spec
CONSTANTS
    Keys <- MCKeys
    Encoding = 1
    ContentType = 2
    XLabel = 4
    Messages <- MCMessages
    MaxSets = 2
INVARIANT LookupIsCurrent
INVARIANT WriteKeepsHeaders
