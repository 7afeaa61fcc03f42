SPECIFICATION Spec
CONSTANTS
    NULL = NULL
    Base64Items <- MCBase64Items
    QuotedItems <- MCQuotedItems
    HeaderItems <- MCHeaderItems
    MaxItems = 5
INVARIANT Base64IsExact
INVARIANT QuotedIsMeant
INVARIANT HeaderIsMeant
CHECK_DEADLOCK FALSE
