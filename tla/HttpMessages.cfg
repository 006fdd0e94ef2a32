SPECIFICATION MessagesSpec
CONSTANTS
    SizeModulus = 64
    LLONG_MAX = 127
    PartText = 2
    EndText = 1
    MaxContent = 3
    payload_max_length_ = 1
    Requests <- MCRequests
    Chars <- MCChars
    boundary_ <- MCBoundary
    Forms <- MCForms
    RECV_BUFSIZ = 2
    MaxBody = 3
    bufsiz = 8
    Fields <- MCFields
    MaxFields = 2
    Texts <- MCTexts
    Codes <- MCCodes
    Paths <- MCPaths
CHECK_DEADLOCK FALSE
INVARIANTS  RangesExact HeadersArrive PartsArrive ContentArrives CodecsExact
